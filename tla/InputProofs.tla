---------------------------- MODULE InputProofs -----------------------------
(***************************************************************************)
(* Proofs about what the server makes of the texts it is given, for any    *)
(* texts: the match of masks (Wildcard), the receive queue and the split   *)
(* of a line (RecvQueue), and the quotes of the configuration (Quotes);    *)
(* and about the handlers a line may reach while modules come and go       *)
(* (Modules), for any files, libraries, configuration and history limit.   *)
(*                                                                         *)
(* Wildcard.  Between two stars a mask is compared character by character, *)
(* so what the loop has to know of the past is the stretch since the last  *)
(* star, Base..m-1, that has been found in the text at na..n-1.  Going     *)
(* back never loses a match, because no cut of the text can put the last   *)
(* star's end before na; the earlier stars need not be tried again,        *)
(* because the last one takes up whatever they leave.                      *)
(*                                                                         *)
(* RecvQueue.  Cutting a text at its separators and joining the pieces     *)
(* undo each other, so one text is as good as the list of lines it was     *)
(* made from.                                                              *)
(*                                                                         *)
(* Quotes.  The value is cut in two, what has been read and what has not;  *)
(* the scan stands between the two in the text as it was written.          *)
(*                                                                         *)
(* Modules.  A command that changes modules is a composition of Loaded,    *)
(* Unloaded and Returned, so the invariant is stated of the record these   *)
(* work on, and there is one lemma for each of them.                       *)
(***************************************************************************)
EXTENDS Wildcard, RecvQueue, Quotes, Modules, FoldProofs, SequenceTheorems

\* A set of numbers that is not empty has a first one.
LEMMA FirstPlace ==
  ASSUME NEW S, S \subseteq Nat, S # {}
  PROVE  Min(S) \in S /\ \A y \in S : Min(S) <= y
  <1> DEFINE R == OpToRel(<, Nat)
  <1>1. IsWellFoundedOn(R, Nat)
    BY NatLessThanWellFounded
  <1>2. PICK x \in S : \A y \in S : ~(<<y, x>> \in R)
    <2> HIDE DEF R
    <2> QED
      BY <1>1, WFMin
  <1>3. \A y \in S : ~(y < x)
    BY <1>2 DEF OpToRel
  <1>4. x \in S /\ \A y \in S : x <= y
    BY <1>3
  <1> QED
    BY <1>4 DEF Min

-----------------------------------------------------------------------------
(* Wildcard *)

MatchTypes ==
    /\ mask \in Masks /\ text \in Subjects
    /\ m \in 1..(Len(mask) + 1) /\ n \in 1..(Len(text) + 1)
    /\ ma \in 0..(Len(mask) + 1) /\ na \in 1..(Len(text) + 1)
    /\ answer \in {"none", "yes", "no"}

\* Where the stretch without a star begins.
Base == IF ma = 0 THEN 1 ELSE ma

Cuts == [1..(Len(mask) + 1) -> 1..(Len(text) + 1)]

\* The mask's characters before k take the text's before x.
Upto(cut, k, x) ==
    /\ cut[1] = 1 /\ cut[k] = x
    /\ \A j \in 1..(k - 1) : Takes(j, cut[j], cut[j + 1])

Full(cut) == Upto(cut, Len(mask) + 1, Len(text) + 1)

\* What has been read can be cut.
Reached ==
    /\ n = na + (m - Base)
    /\ \A j \in Base..(m - 1) :
           mask[j] # "*" /\ Same(mask[j], text[na + (j - Base)])
    /\ \E cut \in Cuts : Upto(cut, Base, na)
    /\ ma = 0 => na = 1
    /\ ma # 0 => ma > 1 /\ ma <= m /\ mask[ma - 1] = "*" /\ At(ma) # "*"

\* No cut of the whole text has been passed over.
Possible ==
    \A cut \in Cuts : Full(cut) =>
        cut[Base] >= na /\ cut[m] = cut[Base] + (m - Base)

MatchInv ==
    /\ MatchTypes
    /\ answer = "none" => Reached /\ Possible
    /\ MatchIsWildcard

LEMMA MatchNumbers ==
  MatchTypes => /\ mask \in Seq(STRING) /\ text \in Seq(STRING)
                /\ Len(mask) \in Nat /\ Len(text) \in Nat
                /\ DOMAIN mask = 1..Len(mask)
                /\ Base \in 1..(Len(mask) + 1)
  <1> SUFFICES ASSUME MatchTypes PROVE
        /\ mask \in Seq(STRING) /\ text \in Seq(STRING)
        /\ Len(mask) \in Nat /\ Len(text) \in Nat
        /\ DOMAIN mask = 1..Len(mask)
        /\ Base \in 1..(Len(mask) + 1)
    OBVIOUS
  <1>1. mask \in Seq(STRING) /\ text \in Seq(STRING)
    BY MatchParams DEF MatchTypes
  <1>2. Len(mask) \in Nat /\ Len(text) \in Nat /\ DOMAIN mask = 1..Len(mask)
    BY <1>1
  <1> QED
    BY <1>1, <1>2 DEF MatchTypes, Base

\* The while loops over stars stop at the first character that is none.
LEMMA StarsSkipped ==
  ASSUME MatchTypes, NEW k \in 1..(Len(mask) + 1)
  PROVE  /\ SkipStars(k) \in k..(Len(mask) + 1)
         /\ At(SkipStars(k)) # "*"
         /\ \A j \in k..(SkipStars(k) - 1) : mask[j] = "*"
  <1> DEFINE S == {j \in k..(Len(mask) + 1) : At(j) # "*"}
             first == Min(S)
  <1>1. Len(mask) \in Nat
    BY MatchNumbers
  <1>2. S \subseteq Nat /\ Len(mask) + 1 \in S
    BY <1>1 DEF At
  <1>3. first \in S /\ \A y \in S : first <= y
    <2> HIDE DEF S
    <2> QED
      BY <1>2, FirstPlace
  <1>4. SkipStars(k) = first
    BY DEF SkipStars
  <1> HIDE DEF first
  <1>5. \A j \in k..(first - 1) : j \notin S /\ j \in k..Len(mask)
    BY <1>1, <1>3
  <1>6. \A j \in k..(first - 1) : mask[j] = "*"
    BY <1>1, <1>5 DEF At
  <1> QED
    BY <1>3, <1>4, <1>6

\* The for loop over question marks stops at the last character that is none,
\* or at the first place.
LEMMA QuestionsSkipped ==
  ASSUME MatchTypes, mask # <<>>
  PROVE  /\ SkipBack \in 1..Len(mask)
         /\ \A j \in (SkipBack + 1)..Len(mask) : mask[j] = "?"
         /\ \A j \in 1..Len(mask) : mask[j] # "?" => j <= SkipBack
  <1> DEFINE S == {1} \cup {k \in DOMAIN mask : mask[k] # "?"}
             last == Max(S)
  <1>1. Len(mask) \in Nat /\ DOMAIN mask = 1..Len(mask) /\ Len(mask) > 0
    BY MatchNumbers
  <1>2. S \in SUBSET (1..Len(mask)) /\ S # {}
    BY <1>1
  <1>3. last \in S /\ \A y \in S : y <= last
    <2> HIDE DEF S
    <2> QED
      BY <1>1, <1>2, LastPosition
  <1>4. SkipBack = last
    BY DEF SkipBack
  <1> HIDE DEF last
  <1>5. \A j \in 1..Len(mask) : mask[j] # "?" => j <= last
    BY <1>1, <1>3
  <1>6. last \in 1..Len(mask)
    BY <1>2, <1>3
  <1>7. \A j \in (last + 1)..Len(mask) : mask[j] = "?"
    BY <1>1, <1>5, <1>6
  <1> QED
    BY <1>4, <1>5, <1>6, <1>7

\* A cut never goes back in the text.
LEMMA CutAscends ==
  ASSUME MatchTypes, NEW cut \in Cuts, Full(cut),
         NEW i \in 1..(Len(mask) + 1), NEW j \in i..(Len(mask) + 1)
  PROVE  cut[i] <= cut[j]
  <1> DEFINE S == {d \in Nat : i + d <= Len(mask) + 1 => cut[i] <= cut[i + d]}
  <1>1. Len(mask) \in Nat /\ Len(text) \in Nat
    BY MatchNumbers
  <1>2. 0 \in S
    BY <1>1 DEF Cuts
  <1>3. ASSUME NEW d \in Nat, d \in S PROVE d + 1 \in S
    <2> SUFFICES ASSUME i + (d + 1) <= Len(mask) + 1
                 PROVE  cut[i] <= cut[i + (d + 1)]
      OBVIOUS
    <2> DEFINE k == i + d
    <2>1. k \in 1..Len(mask) /\ i + (d + 1) = k + 1
      BY <1>1
    <2>2. cut[k] \in Nat /\ cut[k + 1] \in Nat /\ cut[i] \in Nat
      BY <1>1, <2>1 DEF Cuts
    <2>3. Takes(k, cut[k], cut[k + 1])
      BY <1>1, <2>1 DEF Full, Upto
    <2>4. cut[k] <= cut[k + 1]
      BY <2>2, <2>3 DEF Takes
    <2>5. cut[i] <= cut[k]
      BY <1>1, <1>3
    <2> HIDE DEF k
    <2> QED
      BY <2>1, <2>2, <2>4, <2>5
  <1>4. Nat \subseteq S
    <2> HIDE DEF S
    <2> QED
      BY <1>2, <1>3, SetInduction
  <1>5. j - i \in Nat /\ i + (j - i) = j
    BY <1>1
  <1> QED
    BY <1>1, <1>4, <1>5

\* What the places reached say of the text: it can be cut up to them, and the
\* stars that follow may stand for nothing.
LEMMA CutBehindStars ==
  ASSUME MatchTypes, Reached,
         NEW k \in m..(Len(mask) + 1), \A j \in m..(k - 1) : mask[j] = "*"
  PROVE  \E cut \in Cuts : Upto(cut, k, n)
  <1> DEFINE Width == Len(mask) + 1
  <1>1. /\ Len(mask) \in Nat /\ Len(text) \in Nat /\ Base \in 1..Width
        /\ m \in 1..Width /\ n \in 1..(Len(text) + 1)
        /\ na \in 1..(Len(text) + 1) /\ k \in 1..Width
    BY MatchNumbers DEF MatchTypes
  <1>2. n = na + (m - Base) /\ Base <= m
    BY <1>1 DEF Reached, Base
  <1>3. PICK old \in Cuts : Upto(old, Base, na)
    BY DEF Reached
  <1> DEFINE new == [j \in 1..Width |-> IF j < Base THEN old[j]
                                        ELSE IF j < m THEN na + (j - Base) ELSE n]
  <1>4. \A j \in 1..Width : old[j] \in 1..(Len(text) + 1)
    BY DEF Cuts
  <1>5. \A j \in 1..Width : new[j] \in 1..(Len(text) + 1)
    BY <1>1, <1>2, <1>4
  <1>6. new \in Cuts
    BY <1>5 DEF Cuts
  <1>7. new[1] = 1 /\ new[k] = n
    <2>1. new[1] = old[1] \/ (Base = 1 /\ new[1] = na) 
      BY <1>1, <1>2
    <2>2. old[1] = 1 /\ old[Base] = na
      BY <1>3 DEF Upto
    <2>3. new[k] = n
      BY <1>1, <1>2
    <2> QED
      BY <2>1, <2>2, <2>3
  <1>8. ASSUME NEW j \in 1..(k - 1) PROVE Takes(j, new[j], new[j + 1])
    <2>1. j \in 1..Len(mask) /\ j + 1 \in 1..Width
      BY <1>1
    <2>2. CASE j < Base
      <3>1. Takes(j, old[j], old[j + 1])
        BY <1>1, <1>3, <2>1, <2>2 DEF Upto
      <3>2. new[j] = old[j]
        BY <2>1, <2>2
      <3>3. new[j + 1] = old[j + 1]
        <4>1. CASE j + 1 < Base
          BY <2>1, <4>1
        <4>2. CASE j + 1 = Base
          <5>1. old[j + 1] = na
            BY <1>3, <4>2 DEF Upto
          <5>2. new[j + 1] = na
            BY <1>1, <1>2, <2>1, <4>2
          <5> QED
            BY <5>1, <5>2
        <4> QED
          BY <1>1, <2>1, <2>2, <4>1, <4>2
      <3> QED
        BY <3>1, <3>2, <3>3
    <2>3. CASE j \in Base..(m - 1)
      <3>1. mask[j] # "*" /\ Same(mask[j], text[na + (j - Base)])
        BY <2>3 DEF Reached
      <3>2. new[j] = na + (j - Base) /\ new[j + 1] = na + (j - Base) + 1
        <4>1. \A i \in 1..Width : i \in Base..m => new[i] = na + (i - Base)
          BY <1>1, <1>2, SMTT(20)
        <4>2. j \in Base..m /\ j + 1 \in Base..m
          BY <1>1, <2>3
        <4>3. na + ((j + 1) - Base) = na + (j - Base) + 1
          BY <1>1, <2>1
        <4> HIDE DEF new
        <4> QED
          BY <2>1, <4>1, <4>2, <4>3
      <3>3. na + (j - Base) <= Len(text)
        BY <1>1, <1>2, <2>3
      <3> HIDE DEF new
      <3> QED
        BY <3>1, <3>2, <3>3 DEF Takes
    <2>4. CASE j >= m
      <3>1. mask[j] = "*"
        BY <1>1, <2>1, <2>4
      <3>2. new[j] = n /\ new[j + 1] = n
        BY <1>1, <1>2, <2>1, <2>4
      <3> HIDE DEF new
      <3> QED
        BY <1>1, <3>1, <3>2 DEF Takes
    <2>5. j < Base \/ j \in Base..(m - 1) \/ j >= m
      BY <1>1, <2>1
    <2> HIDE DEF new
    <2> QED
      BY <2>2, <2>3, <2>4, <2>5
  <1> HIDE DEF new
  <1>9. Upto(new, k, n)
    BY <1>7, <1>8 DEF Upto
  <1> QED
    BY <1>6, <1>9

\* The last star may take what the question marks behind it leave.
LEMMA CutShifted ==
  ASSUME MatchTypes, Reached, m = Len(mask) + 1, n <= Len(text), ma # 0,
         \A j \in ma..Len(mask) : mask[j] = "?"
  PROVE  \E cut \in Cuts : Full(cut)
  <1> DEFINE Width == Len(mask) + 1
             gap == Len(text) + 1 - n
  <1>1. /\ Len(mask) \in Nat /\ Len(text) \in Nat
        /\ ma \in 2..Width /\ mask[ma - 1] = "*" /\ Base = ma
        /\ n \in 1..Len(text) /\ na \in 1..(Len(text) + 1)
        /\ n = na + (Width - ma) /\ gap \in Nat
    BY MatchNumbers DEF MatchTypes, Reached, Base
  <1>2. PICK old \in Cuts : Upto(old, ma, na)
    BY <1>1 DEF Reached
  <1> DEFINE new == [j \in 1..Width |-> IF j < ma THEN old[j]
                                        ELSE na + (j - ma) + gap]
  <1>3. \A j \in 1..Width : old[j] \in 1..(Len(text) + 1)
    BY DEF Cuts
  <1>4. \A j \in 1..Width : new[j] \in 1..(Len(text) + 1)
    BY <1>1, <1>3
  <1>5. new \in Cuts
    BY <1>4 DEF Cuts
  <1>6. new[1] = 1 /\ new[Width] = Len(text) + 1
    BY <1>1, <1>2, SMTT(20) DEF Upto
  <1>7. ASSUME NEW j \in 1..(Width - 1) PROVE Takes(j, new[j], new[j + 1])
    <2>1. j \in 1..Len(mask) /\ j + 1 \in 1..Width
      BY <1>1
    <2>2. CASE j + 1 < ma
      <3>1. Takes(j, old[j], old[j + 1])
        BY <1>1, <1>2, <2>1, <2>2 DEF Upto
      <3>2. new[j] = old[j] /\ new[j + 1] = old[j + 1]
        BY <1>1, <2>1, <2>2
      <3> QED
        BY <3>1, <3>2
    <2>3. CASE j + 1 = ma
      <3>1. Takes(j, old[j], old[j + 1]) /\ old[j + 1] = na
        BY <1>1, <1>2, <2>1, <2>3, SMTT(20) DEF Upto
      <3>2. mask[j] = "*"
        BY <1>1, <2>1, <2>3
      <3>3. new[j] = old[j] /\ old[j] \in Nat
        BY <1>1, <1>3, <2>1, <2>3, SMTT(20)
      <3>4. new[ma] = na + gap
        <4>1. new[ma] = na + (ma - ma) + gap
          BY <1>1
        <4> HIDE DEF new, gap
        <4> QED
          BY <1>1, <4>1
      <3> HIDE DEF new, gap
      <3> QED
        BY <1>1, <2>3, <3>1, <3>2, <3>3, <3>4, SMTT(20) DEF Takes
    <2>4. CASE j >= ma
      <3>1. mask[j] = "?"
        BY <1>1, <2>1, <2>4
      <3>2. /\ new[j] = na + (j - ma) + gap
            /\ new[j + 1] = na + (j - ma) + gap + 1
        BY <1>1, <2>1, <2>4
      <3>3. na + (j - ma) + gap <= Len(text)
        BY <1>1, <2>1, <2>4
      <3> HIDE DEF new, gap
      <3> QED
        BY <3>1, <3>2, <3>3 DEF Takes, Same
    <2>5. j + 1 < ma \/ j + 1 = ma \/ j >= ma
      BY <1>1, <2>1
    <2> HIDE DEF new
    <2> QED
      BY <2>2, <2>3, <2>4, <2>5
  <1> HIDE DEF new
  <1>8. Full(new)
    BY <1>6, <1>7 DEF Full, Upto
  <1> QED
    BY <1>5, <1>8

LEMMA MeansCut ==
  ASSUME MatchTypes
  PROVE  Means <=> mask # <<>> /\ \E cut \in Cuts : Full(cut)
  <1>1. ASSUME NEW cut \in Cuts
        PROVE  Full(cut) <=> /\ cut[1] = 1 /\ cut[Len(mask) + 1] = Len(text) + 1
                             /\ \A k \in DOMAIN mask : Takes(k, cut[k], cut[k + 1])
    <2>1. DOMAIN mask = 1..Len(mask) /\ (Len(mask) + 1) - 1 = Len(mask)
      BY MatchNumbers
    <2> QED
      BY <2>1 DEF Full, Upto
  <1> QED
    BY <1>1 DEF Means, Cuts

\* Where a cut of the whole text lies at the place reached.
LEMMA CutPlaces ==
  ASSUME MatchTypes, Reached, Possible, NEW cut \in Cuts, Full(cut)
  PROVE  /\ cut[m] \in n..(Len(text) + 1)
         /\ cut[Base] \in na..(Len(text) + 1)
         /\ cut[Base] = na => cut[m] = n
         /\ ma = 0 => cut[Base] = na
         /\ m <= Len(mask) => Takes(m, cut[m], cut[m + 1])
         /\ m > Len(mask) => cut[m] = Len(text) + 1
  <1>1. /\ Len(mask) \in Nat /\ Len(text) \in Nat
        /\ Base \in 1..(Len(mask) + 1) /\ m \in 1..(Len(mask) + 1)
        /\ na \in Nat /\ n \in Nat
    BY MatchNumbers DEF MatchTypes
  <1>2. cut[m] \in 1..(Len(text) + 1) /\ cut[Base] \in 1..(Len(text) + 1)
    BY <1>1 DEF Cuts
  <1>3. /\ cut[Base] >= na /\ cut[m] = cut[Base] + (m - Base)
        /\ n = na + (m - Base)
    BY DEF Possible, Reached
  <1>4. ma = 0 => cut[Base] = na
    BY DEF Base, Reached, Full, Upto
  <1>5. m <= Len(mask) => Takes(m, cut[m], cut[m + 1])
    BY <1>1 DEF Full, Upto
  <1>6. m > Len(mask) => cut[m] = Len(text) + 1
    <2>1. m > Len(mask) => m = Len(mask) + 1
      BY <1>1
    <2> QED
      BY <2>1 DEF Full, Upto
  <1>7. cut[m] >= n /\ (cut[Base] = na => cut[m] = n)
    BY <1>1, <1>2, <1>3
  <1> QED
    BY <1>1, <1>2, <1>3, <1>4, <1>5, <1>6, <1>7

\* Nothing is said of the mask and the text but what they are.
LEMMA SameTexts ==
  ASSUME mask' = mask, text' = text
  PROVE  /\ Cuts' = Cuts /\ Means' = Means
         /\ \A cut, k, x : Upto(cut, k, x)' = Upto(cut, k, x)
         /\ \A cut : Full(cut)' = Full(cut)
         /\ \A k : At(k)' = At(k)
  <1>1. \A k, x, y : Takes(k, x, y)' = Takes(k, x, y)
    BY DEF Takes, Same
  <1>2. \A cut, k, x : Upto(cut, k, x)' = Upto(cut, k, x)
    BY <1>1 DEF Upto
  <1>3. Cuts' = Cuts /\ \A cut : Full(cut)' = Full(cut)
    BY <1>2 DEF Cuts, Full
  <1>4. Means' = Means
    BY <1>1 DEF Means
  <1>5. \A k : At(k)' = At(k)
    BY DEF At
  <1> QED
    BY <1>2, <1>3, <1>4, <1>5

LEMMA MatchStarts == MatchInit => MatchInv
  <1> SUFFICES ASSUME MatchInit PROVE MatchInv
    OBVIOUS
  <1>1. mask \in Seq(STRING) /\ text \in Seq(STRING)
    BY MatchParams DEF MatchInit
  <1>2. Len(mask) \in Nat /\ Len(text) \in Nat
    BY <1>1
  <1>3. MatchTypes
    BY <1>2 DEF MatchInit, MatchTypes
  <1>4. Base = 1 /\ m = 1 /\ n = 1 /\ na = 1 /\ ma = 0
    BY DEF MatchInit, Base
  <1>5. Reached
    <2> DEFINE cut == [j \in 1..(Len(mask) + 1) |-> 1]
    <2>1. cut \in Cuts
      BY <1>2 DEF Cuts
    <2>2. cut[1] = 1
      BY <1>2
    <2> HIDE DEF cut
    <2>3. Upto(cut, Base, na)
      BY <1>4, <2>2 DEF Upto
    <2> QED
      BY <1>4, <2>1, <2>3 DEF Reached
  <1>6. Possible
    <2> SUFFICES ASSUME NEW cut \in Cuts, Full(cut)
                 PROVE  cut[Base] >= na /\ cut[m] = cut[Base] + (m - Base)
      BY DEF Possible
    <2>1. cut[1] = 1
      BY DEF Full, Upto
    <2> QED
      BY <1>4, <2>1
  <1> QED
    BY <1>3, <1>5, <1>6 DEF MatchInv, MatchIsWildcard, MatchInit

\* An answer that is what the mask means.
LEMMA AnswerStep ==
  ASSUME MatchInv, NEW a \in {"yes", "no"}, Answer(a), a = "yes" <=> Means
  PROVE  MatchInv'
  <1>1. MatchTypes'
    BY DEF MatchInv, MatchTypes, Answer
  <1>2. Means' = Means
    BY SameTexts DEF Answer
  <1> QED
    BY <1>1, <1>2 DEF MatchInv, MatchIsWildcard, Answer

\* Going back loses no cut when none puts the stretch where it was tried.
LEMMA GoBackStep ==
  ASSUME MatchInv, answer = "none", GoBack, ma # 0, n <= Len(text),
         \A cut \in Cuts : Full(cut) => cut[Base] # na
  PROVE  MatchInv'
  <1>1. MatchTypes /\ Reached /\ Possible
    BY DEF MatchInv
  <1>2. /\ Len(mask) \in Nat /\ Len(text) \in Nat
        /\ ma \in 2..(Len(mask) + 1) /\ ma <= m /\ Base = ma
        /\ m \in Nat /\ na \in 1..Len(text)
        /\ mask[ma - 1] = "*" /\ At(ma) # "*"
    BY <1>1, MatchNumbers DEF MatchTypes, Reached, Base
  <1>3. /\ mask' = mask /\ text' = text /\ ma' = ma /\ answer' = answer
        /\ m' = ma /\ n' = na + 1 /\ na' = na + 1 /\ Base' = ma
    BY <1>2 DEF GoBack, Retry, Base
  <1>4. MatchTypes'
    BY <1>1, <1>2, <1>3 DEF MatchTypes
  <1>5. \E cut \in Cuts : Upto(cut, ma, na + 1)
    <2>1. PICK old \in Cuts : Upto(old, ma, na)
      BY <1>1, <1>2 DEF Reached
    <2> DEFINE new == [old EXCEPT ![ma] = na + 1]
    <2>2. new \in Cuts /\ new[ma] = na + 1
      BY <1>2 DEF Cuts
    <2>3. \A j \in 1..(ma - 1) : new[j] = old[j] /\ new[j] \in Nat
      BY <1>2 DEF Cuts
    <2> HIDE DEF new
    <2>4. ASSUME NEW j \in 1..(ma - 1) PROVE Takes(j, new[j], new[j + 1])
      <3>1. Takes(j, old[j], old[j + 1])
        BY <2>1 DEF Upto
      <3>2. CASE j = ma - 1
        <4>1. mask[j] = "*" /\ j + 1 = ma
          BY <1>2, <3>2
        <4>2. old[j] <= na
          BY <2>1, <3>1, <4>1 DEF Takes, Upto
        <4> QED
          BY <1>2, <2>2, <2>3, <4>1, <4>2 DEF Takes
      <3>3. CASE j # ma - 1
        <4>1. j + 1 \in 1..(ma - 1)
          BY <1>2, <3>3
        <4> QED
          BY <2>3, <3>1, <4>1
      <3> QED
        BY <3>2, <3>3
    <2>5. new[1] = 1
      BY <1>2, <2>1, <2>3 DEF Upto
    <2> QED
      BY <2>2, <2>4, <2>5 DEF Upto
  <1>6. Reached'
    <2>1. \E cut \in Cuts' : Upto(cut, Base, na)'
      BY <1>3, <1>5, SameTexts DEF Upto, Takes, Same
    <2>2. /\ n' = na' + (m' - Base')
          /\ ma' # 0 /\ ma' > 1 /\ ma' <= m'
          /\ Base'..(m' - 1) = {}
      BY <1>2, <1>3
    <2>3. mask'[ma' - 1] = "*" /\ At(ma)' # "*"
      BY <1>2, <1>3 DEF At
    <2> QED
      BY <2>1, <2>2, <2>3 DEF Reached
  <1>7. Possible'
    <2> SUFFICES ASSUME NEW cut \in Cuts, Full(cut)
                 PROVE  cut[ma] >= na + 1 /\ cut[ma] = cut[ma] + (ma - ma)
      BY <1>3, SameTexts DEF Possible
    <2>1. cut[ma] \in na..(Len(text) + 1) /\ cut[ma] # na
      BY <1>1, <1>2, CutPlaces
    <2> QED
      BY <1>2, <2>1
  <1>8. MatchIsWildcard'
    BY <1>3 DEF MatchIsWildcard
  <1> QED
    BY <1>4, <1>6, <1>7, <1>8 DEF MatchInv

\* Behind a star no cut of the text can be before the place reached.
LEMMA StarStep ==
  ASSUME MatchInv, answer = "none", Star
  PROVE  MatchInv'
  <1> DEFINE k == SkipStars(m)
  <1>1. MatchTypes /\ Reached /\ Possible
    BY DEF MatchInv
  <1>2. /\ Len(mask) \in Nat /\ Len(text) \in Nat
        /\ m \in 1..(Len(mask) + 1) /\ n \in 1..(Len(text) + 1)
    BY <1>1, MatchNumbers DEF MatchTypes
  <1>3. /\ k \in m..(Len(mask) + 1) /\ At(k) # "*"
        /\ \A j \in m..(k - 1) : mask[j] = "*"
    BY <1>1, <1>2, StarsSkipped
  <1>4. /\ mask' = mask /\ text' = text /\ answer' = answer /\ n' = n
        /\ m' = k /\ ma' = k /\ na' = n
    BY DEF Star, BehindStar
  <1>5. k > m
    BY <1>2, <1>3 DEF Star
  <1> HIDE DEF k
  <1>6. Base' = k
    BY <1>2, <1>4, <1>5 DEF Base
  <1>7. MatchTypes'
    BY <1>1, <1>2, <1>3, <1>4 DEF MatchTypes
  <1>8. Reached'
    <2>1. \E cut \in Cuts : Upto(cut, k, n)
      BY <1>1, <1>3, CutBehindStars
    <2>2. \E cut \in Cuts' : Upto(cut, Base, na)'
      BY <1>4, <1>6, <2>1, SameTexts DEF Upto, Takes, Same
    <2>3. /\ n' = na' + (m' - Base') /\ Base'..(m' - 1) = {}
          /\ ma' > 1 /\ ma' <= m'
      BY <1>2, <1>3, <1>4, <1>5, <1>6
    <2>4. mask[k - 1] = "*"
      BY <1>2, <1>3, <1>5
    <2>5. mask'[ma' - 1] = "*" /\ At(ma)' # "*"
      BY <1>3, <1>4, <2>4 DEF At
    <2> QED
      BY <1>2, <1>3, <1>4, <2>2, <2>3, <2>5, SMTT(30) DEF Reached
  <1>9. Possible'
    <2> SUFFICES ASSUME NEW cut \in Cuts, Full(cut)
                 PROVE  cut[k] >= n /\ cut[k] = cut[k] + (k - k)
      BY <1>4, <1>6, SameTexts DEF Possible
    <2>1. cut[m] >= n
      BY <1>1, <1>2, CutPlaces
    <2>2. cut[m] <= cut[k]
      BY <1>1, <1>2, <1>3, CutAscends
    <2>3. cut[m] \in Nat /\ cut[k] \in Nat
      BY <1>2, <1>3 DEF Cuts
    <2> QED
      BY <1>2, <1>3, <2>1, <2>2, <2>3
  <1>10. MatchIsWildcard'
    BY <1>4 DEF MatchIsWildcard
  <1> QED
    BY <1>7, <1>8, <1>9, <1>10 DEF MatchInv

\* A character that fits makes the stretch longer; a cut fits it as well.
LEMMA FitsStep ==
  ASSUME MatchInv, answer = "none", m <= Len(mask), At(m) # "*", n <= Len(text),
         Same(mask[m], text[n]), m' = m + 1, n' = n + 1,
         UNCHANGED <<mask, text, ma, na, answer>>
  PROVE  MatchInv'
  <1>1. MatchTypes /\ Reached /\ Possible
    BY DEF MatchInv
  <1>2. /\ Len(mask) \in Nat /\ Len(text) \in Nat
        /\ m \in 1..Len(mask) /\ n \in 1..Len(text)
        /\ Base \in 1..(Len(mask) + 1) /\ na \in Nat
    BY <1>1, MatchNumbers DEF MatchTypes
  <1>3. Base' = Base /\ mask[m] # "*"
    BY <1>2 DEF Base, At
  <1>4. MatchTypes'
    BY <1>1, <1>2 DEF MatchTypes
  <1>5. n = na + (m - Base) /\ Base <= m
    BY <1>1, <1>2 DEF Reached, Base
  <1>6. Reached'
    <2>1. n' = na' + (m' - Base')
      BY <1>2, <1>3, <1>5
    <2>2. ASSUME NEW j \in Base..m
          PROVE  mask[j] # "*" /\ Same(mask[j], text[na + (j - Base)])
      <3>1. CASE j = m
        BY <1>3, <1>5, <3>1
      <3>2. CASE j # m
        <4>1. j \in Base..(m - 1)
          BY <1>2, <3>2
        <4> QED
          BY <1>1, <4>1 DEF Reached
      <3> QED
        BY <3>1, <3>2
    <2>3. m' - 1 = m
      BY <1>2
    <2>4. \A j \in Base'..(m' - 1) :
             mask'[j] # "*" /\ Same(mask[j], text[na + (j - Base)])'
      BY <1>3, <2>2, <2>3 DEF Same
    <2>5. \E cut \in Cuts' : Upto(cut, Base, na)'
      BY <1>1, <1>3, SameTexts DEF Reached, Upto, Takes, Same
    <2>6. /\ ma' = 0 => na' = 1
          /\ ma' # 0 => /\ ma' > 1 /\ ma' <= m' /\ mask'[ma' - 1] = "*"
                        /\ At(ma)' # "*"
      <3>1. /\ ma = 0 => na = 1
            /\ ma # 0 => /\ ma > 1 /\ ma <= m /\ mask[ma - 1] = "*" /\ At(ma) # "*"
        BY <1>1 DEF Reached
      <3>2. ma \in Nat /\ (ma <= m => ma <= m + 1)
        BY <1>1, <1>2 DEF MatchTypes
      <3> QED
        BY <3>1, <3>2 DEF At
    <2> QED
      BY <2>1, <2>4, <2>5, <2>6 DEF Reached
  <1>7. Possible'
    <2> DEFINE k == m + 1
    <2>1. ASSUME NEW cut \in Cuts, Full(cut)
          PROVE  cut[Base] >= na /\ cut[k] = cut[Base] + (k - Base)
      <3>1. cut[Base] >= na /\ cut[m] = cut[Base] + (m - Base)
        BY <1>1, <2>1 DEF Possible
      <3>2. cut[k] = cut[m] + 1
        BY <1>1, <1>2, <1>3, <2>1, CutPlaces DEF Takes
      <3>3. cut[Base] \in Nat
        BY <1>2 DEF Cuts
      <3> QED
        BY <1>2, <3>1, <3>2, <3>3
    <2>2. m' = k /\ na' = na /\ mask' = mask /\ text' = text
      OBVIOUS
    <2>3. \A cut \in Cuts' : Full(cut)' =>
              cut[Base'] >= na' /\ cut[m'] = cut[Base'] + (m' - Base')
      <3> HIDE DEF k
      <3> QED
        BY <1>3, <2>1, <2>2, SameTexts
    <2> QED
      BY <2>3 DEF Possible
  <1>8. MatchIsWildcard'
    BY DEF MatchIsWildcard
  <1> QED
    BY <1>4, <1>6, <1>7, <1>8 DEF MatchInv

LEMMA CompareStep ==
  ASSUME MatchInv, answer = "none", mask # <<>>, Compare
  PROVE  MatchInv'
  <1>1. MatchTypes /\ Reached /\ Possible
    BY DEF MatchInv
  <1>2. /\ Len(mask) \in Nat /\ Len(text) \in Nat
        /\ m \in 1..Len(mask) /\ n \in 1..Len(text)
        /\ mask[m] # "*" /\ At(m) # "*"
    BY <1>1, MatchNumbers DEF MatchTypes, Compare, At
  <1>3. CASE Same(mask[m], text[n])
    BY <1>2, <1>3, FitsStep DEF Compare
  <1>4. CASE ~Same(mask[m], text[n])
    <2>1. \A cut \in Cuts : Full(cut) => cut[Base] # na
      BY <1>1, <1>2, <1>4, CutPlaces DEF Takes
    <2>2. CASE ma = 0
      <3>1. ~Means
        BY <1>1, <2>1, <2>2, CutPlaces, MeansCut
      <3> QED
        BY <1>4, <2>2, <3>1, AnswerStep DEF Compare
    <2>3. CASE ma # 0
      BY <1>2, <1>4, <2>1, <2>3, GoBackStep DEF Compare
    <2> QED
      BY <2>2, <2>3
  <1> QED
    BY <1>3, <1>4

LEMMA TextEndsStep ==
  ASSUME MatchInv, answer = "none", mask # <<>>, TextEnds
  PROVE  MatchInv'
  <1>1. MatchTypes /\ Reached /\ Possible
    BY DEF MatchInv
  <1>2. /\ Len(mask) \in Nat /\ Len(text) \in Nat
        /\ m \in 1..Len(mask) /\ n \in Nat /\ n > Len(text)
        /\ mask[m] # "*"
    BY <1>1, MatchNumbers DEF MatchTypes, TextEnds, At
  <1>3. ~(SkipStars(m) > Len(mask))
    <2>1. /\ SkipStars(m) \in m..(Len(mask) + 1)
          /\ \A j \in m..(SkipStars(m) - 1) : mask[j] = "*"
      BY <1>1, <1>2, StarsSkipped
    <2>2. m \notin m..(SkipStars(m) - 1)
      BY <1>2, <2>1
    <2> QED
      BY <1>2, <2>1, <2>2
  <1>4. Answer("no")
    BY <1>3 DEF TextEnds
  <1>5. ASSUME NEW cut \in Cuts, Full(cut) PROVE FALSE
    <2>1. cut[m] \in n..(Len(text) + 1) /\ Takes(m, cut[m], cut[m + 1])
      BY <1>1, <1>2, <1>5, CutPlaces
    <2> QED
      BY <1>2, <2>1 DEF Takes
  <1> QED
    BY <1>1, <1>4, <1>5, MeansCut, AnswerStep

\* The star the loop finds from the end is the one to go back to.
LEMMA LastStar ==
  ASSUME MatchTypes, Reached, mask # <<>>, m > Len(mask), ma # 0
  PROVE  /\ ma - 1 <= SkipBack
         /\ mask[SkipBack] = "*" => \A j \in ma..Len(mask) : mask[j] = "?"
         /\ mask[SkipBack] # "*" => ma <= Len(mask)
  <1>1. /\ Len(mask) \in Nat /\ m = Len(mask) + 1 /\ Base = ma
        /\ ma \in 2..(Len(mask) + 1) /\ mask[ma - 1] = "*"
        /\ \A j \in ma..Len(mask) : mask[j] # "*"
    BY MatchNumbers DEF MatchTypes, Reached, Base
  <1>2. /\ SkipBack \in 1..Len(mask)
        /\ \A j \in (SkipBack + 1)..Len(mask) : mask[j] = "?"
        /\ \A j \in 1..Len(mask) : mask[j] # "?" => j <= SkipBack
    BY QuestionsSkipped
  <1>3. ma - 1 <= SkipBack
    BY <1>1, <1>2
  <1>4. ASSUME mask[SkipBack] = "*" PROVE SkipBack = ma - 1
    BY <1>1, <1>2, <1>3, <1>4
  <1>5. ASSUME mask[SkipBack] # "*" PROVE ma <= Len(mask)
    BY <1>1, <1>2, <1>3, <1>5
  <1> QED
    BY <1>1, <1>2, <1>3, <1>4, <1>5

LEMMA MaskEndsStep ==
  ASSUME MatchInv, answer = "none", mask # <<>>, MaskEnds
  PROVE  MatchInv'
  <1>1. MatchTypes /\ Reached /\ Possible
    BY DEF MatchInv
  <1>2. /\ Len(mask) \in Nat /\ Len(text) \in Nat
        /\ m = Len(mask) + 1 /\ n \in 1..(Len(text) + 1)
    BY <1>1, MatchNumbers DEF MatchTypes, MaskEnds
  <1>3. CASE n > Len(text)
    <2>1. \E cut \in Cuts : Upto(cut, m, n)
      <3>1. m \in m..(Len(mask) + 1) /\ m..(m - 1) = {}
        BY <1>2
      <3> QED
        BY <1>1, <3>1, CutBehindStars
    <2>2. n = Len(text) + 1
      BY <1>2, <1>3
    <2>3. Means
      BY <1>1, <1>2, <2>1, <2>2, MeansCut DEF Full
    <2>4. Answer("yes")
      BY <1>2, <1>3 DEF MaskEnds
    <2> QED
      BY <2>3, <2>4, AnswerStep
  <1>4. ASSUME n <= Len(text), NEW cut \in Cuts, Full(cut)
        PROVE  cut[Base] # na /\ ma # 0
    BY <1>1, <1>2, <1>4, CutPlaces
  <1>5. CASE n <= Len(text) /\ ma = 0
    <2>1. ~Means
      BY <1>1, <1>4, <1>5, MeansCut
    <2>2. Answer("no")
      BY <1>2, <1>5 DEF MaskEnds
    <2> QED
      BY <2>1, <2>2, AnswerStep
  <1>6. CASE n <= Len(text) /\ ma # 0 /\ mask[SkipBack] = "*"
    <2>1. \A j \in ma..Len(mask) : mask[j] = "?"
      BY <1>1, <1>2, <1>6, LastStar
    <2>2. Means
      BY <1>1, <1>2, <1>6, <2>1, CutShifted, MeansCut
    <2>3. Answer("yes")
      BY <1>2, <1>6 DEF MaskEnds
    <2> QED
      BY <2>2, <2>3, AnswerStep
  <1>7. CASE n <= Len(text) /\ ma # 0 /\ mask[SkipBack] # "*"
    <2>1. GoBack
      BY <1>2, <1>7 DEF MaskEnds
    <2> QED
      BY <1>4, <1>7, <2>1, GoBackStep
  <1> QED
    BY <1>2, <1>3, <1>5, <1>6, <1>7

LEMMA MatchStep == MatchInv /\ [MatchNext]_matchVars => MatchInv'
  <1> SUFFICES ASSUME MatchInv, [MatchNext]_matchVars PROVE MatchInv'
    OBVIOUS
  <1>1. CASE UNCHANGED matchVars
    <2>1. /\ Cuts' = Cuts /\ Means' = Means
          /\ \A cut, k, x : Upto(cut, k, x)' = Upto(cut, k, x)
          /\ \A cut : Full(cut)' = Full(cut)
          /\ \A k : At(k)' = At(k)
      BY <1>1, SameTexts DEF matchVars
    <2>2. MatchTypes' = MatchTypes /\ MatchIsWildcard' = MatchIsWildcard
      BY <1>1, <2>1 DEF matchVars, MatchTypes, MatchIsWildcard
    <2>3. Base' = Base
      BY <1>1 DEF matchVars, Base
    <2>4. Reached => Reached'
      BY <1>1, <2>1, <2>3 DEF matchVars, Reached, Upto, Takes, Same
    <2>5. Possible => Possible'
      BY <1>1, <2>1, <2>3 DEF matchVars, Possible, Full, Upto, Takes, Same
    <2> QED
      BY <1>1, <2>2, <2>4, <2>5 DEF matchVars, MatchInv
  <1>2. CASE answer = "none" /\ NoMask
    <2>1. ~Means
      BY <1>2 DEF NoMask, Means
    <2> QED
      BY <1>2, <2>1, AnswerStep DEF NoMask
  <1>3. CASE MatchNext /\ mask # <<>> /\ Star
    BY <1>3, StarStep DEF MatchNext
  <1>4. CASE MatchNext /\ mask # <<>> /\ MaskEnds
    BY <1>4, MaskEndsStep DEF MatchNext
  <1>5. CASE MatchNext /\ mask # <<>> /\ TextEnds
    BY <1>5, TextEndsStep DEF MatchNext
  <1>6. CASE MatchNext /\ mask # <<>> /\ Compare
    BY <1>6, CompareStep DEF MatchNext
  <1> QED
    BY <1>1, <1>2, <1>3, <1>4, <1>5, <1>6 DEF MatchNext

\* The places reached, the place to go back to and the cuts of the text.
THEOREM MatchInductive == MatchSpec => []MatchInv
  BY MatchStarts, MatchStep, PTL DEF MatchSpec

\* The loop of String::match answers what the mask means, for every mask and
\* every text.
THEOREM AlwaysWildcard == MatchSpec => []MatchIsWildcard
  <1>1. MatchInv => MatchIsWildcard
    BY DEF MatchInv
  <1> QED
    BY <1>1, MatchInductive, PTL

\* Comparing at once after going back reads a character of both.
THEOREM AlwaysInside == MatchSpec => []ReadsInside
  <1>1. MatchInv => ReadsInside
    <2> SUFFICES ASSUME MatchInv, answer = "none", m > Len(mask),
                        n <= Len(text), ma # 0, mask[SkipBack] # "*"
                 PROVE  ma <= Len(mask) /\ mask[ma] # "*" /\ na + 1 <= Len(text)
      BY DEF ReadsInside
    <2>1. MatchTypes /\ Reached
      BY DEF MatchInv
    <2>2. /\ Len(mask) \in Nat /\ Len(text) \in Nat /\ m = Len(mask) + 1
          /\ ma \in Nat /\ na \in Nat /\ n = na + (m - ma) /\ At(ma) # "*"
      <3>1. Base = ma /\ n = na + (m - Base) /\ At(ma) # "*"
        BY <2>1 DEF Reached, Base
      <3> QED
        BY <2>1, <3>1, MatchNumbers DEF MatchTypes
    <2>3. ma <= Len(mask)
      <3>1. mask # <<>>
        <4>1. ma > 1 /\ ma <= m
          BY <2>1 DEF Reached
        <4> QED
          BY <2>2, <4>1
      <3> QED
        BY <2>1, <3>1, LastStar
    <2> QED
      BY <2>2, <2>3 DEF At
  <1> QED
    BY <1>1, MatchInductive, PTL

\* Every round gets further, for every mask and every text, and no place can
\* pass the end: the loop ends.
THEOREM AlwaysAdvances == MatchSpec => Advances
  <1> DEFINE Further == \/ answer' # "none"
                        \/ ma' > ma
                        \/ ma' = ma /\ na' > na
                        \/ ma' = ma /\ na' = na /\ m' > m
  <1>1. MatchInv /\ [MatchNext]_matchVars => [Further]_matchVars
    <2> SUFFICES ASSUME MatchInv, MatchNext PROVE Further
      OBVIOUS
    <2>1. /\ m \in Nat /\ na \in Nat /\ ma \in Nat
          /\ Len(mask) \in Nat /\ m <= Len(mask) + 1 /\ MatchTypes
      BY MatchNumbers DEF MatchInv, MatchTypes
    <2>2. CASE Star
      <3>1. ma <= m /\ ma' = SkipStars(m) /\ m \in 1..(Len(mask) + 1)
        BY <2>1, <2>2 DEF Star, BehindStar, MatchInv, MatchNext, Reached, MatchTypes
      <3>2. /\ SkipStars(m) \in m..(Len(mask) + 1)
            /\ At(SkipStars(m)) # "*" /\ At(m) = "*"
        BY <2>1, <2>2, <3>1, StarsSkipped DEF Star
      <3>3. ma' > ma
        BY <2>1, <3>1, <3>2
      <3> QED
        BY <3>3
    <2>3. CASE GoBack
      <3>1. ma' = ma /\ na' > na
        BY <2>1, <2>3 DEF GoBack, Retry
      <3> QED
        BY <3>1
    <2>4. CASE m' = m + 1 /\ UNCHANGED <<ma, na>>
      BY <2>1, <2>4
    <2>5. CASE \E a \in {"yes", "no"} : Answer(a)
      BY <2>5 DEF Answer
    <2> QED
      BY <2>2, <2>3, <2>4, <2>5 DEF MatchNext, NoMask, MaskEnds, TextEnds, Compare
  <1> QED
    BY <1>1, MatchInductive, PTL DEF MatchSpec, Advances

-----------------------------------------------------------------------------
(* RecvQueue: splitting and joining *)

\* Pieces of a text, at least one.
Cut(C) == Seq(Seq(C)) \ {<<>>}

PieceAll(b, q, c) == FoldLeft(LAMBDA pieces, x : Piece(pieces, x, c), b, q)
PieceAllAt(C, q, c) == [r \in Cut(C) \X (1..Len(q)) |-> Piece(r[1], q[r[2]], c)]
PieceAllWell(C, b, q, x, c) ==
    /\ PieceAll(b, q, c) \in Cut(C)
    /\ PieceAll(b, <<>>, c) = b
    /\ PieceAll(b, Append(q, x), c) = Piece(PieceAll(b, q, c), x, c)

GlueAll(b, q, c) == FoldLeft(LAMBDA s, part : Glue(s, part, c), b, q)
GlueAllAt(C, q, c) == [r \in Seq(C) \X (1..Len(q)) |-> Glue(r[1], q[r[2]], c)]
GlueAllWell(C, b, q, x, c) ==
    /\ GlueAll(b, q, c) \in Seq(C)
    /\ GlueAll(b, <<>>, c) = b
    /\ GlueAll(b, Append(q, x), c) = Glue(GlueAll(b, q, c), x, c)

\* What one more character does to the last of the pieces.
LEMMA PieceTyped ==
  ASSUME NEW C, NEW pieces \in Cut(C), NEW x \in C, NEW c
  PROVE  Piece(pieces, x, c) \in Cut(C)
  <1>1. pieces \in Seq(Seq(C)) /\ pieces # <<>>
    BY DEF Cut
  <1>2. Len(pieces) \in Nat /\ Len(pieces) > 0
    BY <1>1
  <1>3. Append(pieces, <<>>) \in Seq(Seq(C)) /\ Append(pieces, <<>>) # <<>>
    BY <1>1, AppendProperties
  <1>4. Last(pieces) \in Seq(C)
    BY <1>1, <1>2 DEF Last
  <1>5. Append(Last(pieces), x) \in Seq(C)
    BY <1>4, AppendProperties
  <1>6. Front(pieces) \in Seq(Seq(C))
    BY <1>1, <1>2, SubSeqProperties DEF Front
  <1> DEFINE front == Front(pieces)
             last == Append(Last(pieces), x)
  <1>7. Append(front, last) \in Seq(Seq(C)) /\ Append(front, last) # <<>>
    <2>0. front \in Seq(Seq(C)) /\ last \in Seq(C)
      BY <1>5, <1>6
    <2> HIDE DEF front, last
    <2>1. Append(front, last) \in Seq(Seq(C))
      BY <2>0, AppendProperties
    <2>2. Append(front, last) # <<>>
      BY <2>0, AppendProperties
    <2> QED
      BY <2>1, <2>2
  <1> QED
    BY <1>3, <1>7 DEF Piece, Cut

LEMMA GlueTyped ==
  ASSUME NEW C, NEW c \in C, NEW s \in Seq(C), NEW part \in Seq(C)
  PROVE  Glue(s, part, c) \in Seq(C)
  <1>1. <<c>> \in Seq(C)
    OBVIOUS
  <1>2. s \o <<c>> \in Seq(C)
    BY <1>1, ConcatProperties
  <1> QED
    BY <1>2, ConcatProperties DEF Glue

\* Cutting a text is a recursion over its characters.
LEMMA PieceAllFold ==
  ASSUME NEW C, NEW c \in C, NEW b \in Cut(C), NEW q \in Seq(C)
  PROVE  FoldsTo(Cut(C), Len(q), b, PieceAllAt(C, q, c), PieceAll(b, q, c))
  <1> DEFINE len == Len(q)
             D == 1..len
             A == Cut(C)
             H == PieceAllAt(C, q, c)
             Step(h) == [s \in SUBSET DOMAIN q |->
                           IF s = {} THEN b ELSE Piece(h[s \ {Max(s)}], q[Max(s)], c)]
             g == CHOOSE h : h = Step(h)
  <1>1. len \in Nat /\ D = DOMAIN q /\ \A i \in D : q[i] \in C
    OBVIOUS
  <1>2. H \in [A \X D -> A]
    <2>1. \A a \in A, i \in D : Piece(a, q[i], c) \in A
      BY <1>1, PieceTyped
    <2> HIDE DEF A
    <2> QED
      BY <2>1 DEF PieceAllAt, A
  <1>3. PICK f \in [SUBSET D -> A] : Recursion(f, len, b, H)
    <2> HIDE DEF H
    <2> QED
      BY <1>1, <1>2, FoldExists
  <1>4. \A s \in SUBSET D : s # {} => Max(s) \in D /\ Before(s) \in SUBSET D
    BY <1>1, LastPosition DEF Before
  <1> HIDE DEF A
  <1>5. f = Step(f)
    <2>1. \A s \in SUBSET D : s # {} =>
             H[f[Before(s)], Max(s)] = Piece(f[Before(s)], q[Max(s)], c)
      BY <1>3, <1>4 DEF PieceAllAt, A
    <2>2. \A s \in SUBSET D :
             f[s] = IF s = {} THEN b ELSE Piece(f[Before(s)], q[Max(s)], c)
      BY <1>3, <2>1 DEF Recursion
    <2> QED
      BY <1>1, <1>3, <2>2 DEF Before
  <1>6. g = Step(g)
    BY <1>5
  <1>7. PieceAll(b, q, c) = g[D]
    BY <1>1 DEF PieceAll, FoldLeft, MapThenFoldSet
  <1> HIDE DEF g
  <1>8. /\ g[{}] = b
        /\ \A s \in SUBSET D : s # {} => g[s] = Piece(g[Before(s)], q[Max(s)], c)
    BY <1>1, <1>6 DEF Before
  <1>9. \A s \in SUBSET D : g[s] = f[s]
    <2> DEFINE Q == {s \in SUBSET D : g[s] = f[s]}
    <2>1. /\ f[{}] = b
          /\ \A s \in SUBSET D : s # {} => f[s] = Piece(f[Before(s)], q[Max(s)], c)
      BY <1>1, <1>5 DEF Before
    <2>2. {} \in Q
      BY <1>8, <2>1
    <2>3. \A s \in SUBSET D : s # {} /\ Before(s) \in Q => s \in Q
      <3> SUFFICES ASSUME NEW s \in SUBSET D, s # {}, Before(s) \in Q PROVE g[s] = f[s]
        OBVIOUS
      <3>1. g[Before(s)] = f[Before(s)]
        OBVIOUS
      <3> QED
        BY <1>8, <2>1, <3>1
    <2>4. SUBSET D \subseteq Q
      <3> HIDE DEF Q
      <3> QED
        BY <1>1, <2>2, <2>3, PositionInduction
    <2> QED
      BY <2>4
  <1>10. PieceAll(b, q, c) = f[D]
    BY <1>7, <1>9
  <1> QED
    BY <1>3, <1>10 DEF FoldsTo, A

\* Nothing is left as it was, and one more comes last.
LEMMA PieceAllMore ==
  ASSUME NEW C, NEW c \in C, NEW b \in Cut(C), NEW q \in Seq(C),
         NEW x \in C
  PROVE  PieceAllWell(C, b, q, x, c)
  <1> DEFINE A == Cut(C)
             len == Len(q)
             r == Append(q, x)
             more == Len(r)
             H == PieceAllAt(C, q, c)
             K == PieceAllAt(C, r, c)
  <1>1. /\ len \in Nat /\ r \in Seq(C) /\ more \in Nat /\ more = len + 1 /\ r[more] = x
        /\ \A i \in 1..len : r[i] = q[i]
    <2>1. r \in Seq(C)
      BY AppendProperties
    <2>2. more = len + 1
      BY AppendProperties
    <2>3. r[len + 1] = x
      BY AppendProperties
    <2>4. \A i \in 1..len : r[i] = q[i]
      BY AppendProperties
    <2>5. len \in Nat /\ more \in Nat
      BY <2>1, LenProperties
    <2> QED
      BY <2>1, <2>2, <2>3, <2>4, <2>5
  <1> HIDE DEF r
  <1>2. 1..len \subseteq 1..more /\ more \in 1..more
    <2>1. len \in Nat /\ more = len + 1
      BY <1>1
    <2> HIDE DEF len, more
    <2> QED
      BY <2>1, OneMore
  <1>3. PICK f \in [SUBSET (1..len) -> A] : Recursion(f, len, b, H) /\ PieceAll(b, q, c) = f[1..len]
    <2>1. FoldsTo(A, len, b, H, PieceAll(b, q, c))
      BY PieceAllFold
    <2> QED
      BY <2>1 DEF FoldsTo
  <1>4. PICK h \in [SUBSET (1..more) -> A] : Recursion(h, more, b, K) /\ PieceAll(b, r, c) = h[1..more]
    <2>1. FoldsTo(A, more, b, K, PieceAll(b, r, c))
      BY <1>1, PieceAllFold
    <2> QED
      BY <2>1 DEF FoldsTo
  <1>5. PieceAll(b, q, c) \in A
    BY <1>3
  <1>6. PieceAll(b, <<>>, c) = b
    <2> DEFINE e == <<>>
    <2>1. e \in Seq(C) /\ Len(e) = 0 /\ 1..0 = {}
      OBVIOUS
    <2> HIDE DEF e
    <2>2. PICK k \in [SUBSET (1..Len(e)) -> A] :
             Recursion(k, Len(e), b, PieceAllAt(C, e, c)) /\ PieceAll(b, e, c) = k[1..Len(e)]
      <3>1. FoldsTo(A, Len(e), b, PieceAllAt(C, e, c), PieceAll(b, e, c))
        BY <2>1, PieceAllFold
      <3> QED
        BY <3>1 DEF FoldsTo
    <2>3. k[{}] = b
      BY <2>2 DEF Recursion
    <2> QED
      BY <2>1, <2>2, <2>3 DEF e
  <1> HIDE DEF A
  <1>7. \A a \in A, i \in 1..len : H[a, i] = K[a, i]
    BY <1>1, <1>2 DEF PieceAllAt, A
  <1>8. h[1..more] = K[f[1..len], more]
    <2>0. b \in A
      BY DEF A
    <2>1. OneLonger(A, b, H, f, len, K, h, more)
      BY <1>1, <1>3, <1>4, <1>7, <2>0 DEF OneLonger
    <2> HIDE DEF len, more, H, K
    <2>2. TakesOneMore(f, len, K, h, more)
      BY <2>1, FoldMore
    <2> QED
      BY <2>2 DEF TakesOneMore
  <1>9. K[f[1..len], more] = Piece(f[1..len], x, c)
    <2>1. f[1..len] \in A
      BY <1>3
    <2> QED
      BY <1>1, <1>2, <2>1 DEF PieceAllAt, A
  <1>10. PieceAll(b, r, c) = Piece(PieceAll(b, q, c), x, c)
    BY <1>3, <1>4, <1>8, <1>9
  <1> QED
    BY <1>5, <1>6, <1>10 DEF PieceAllWell, A, r

\* Joining texts is a recursion over them.
LEMMA GlueAllFold ==
  ASSUME NEW C, NEW c \in C, NEW b \in Seq(C), NEW q \in Seq(Seq(C))
  PROVE  FoldsTo(Seq(C), Len(q), b, GlueAllAt(C, q, c), GlueAll(b, q, c))
  <1> DEFINE len == Len(q)
             D == 1..len
             A == Seq(C)
             H == GlueAllAt(C, q, c)
             Step(h) == [s \in SUBSET DOMAIN q |->
                           IF s = {} THEN b ELSE Glue(h[s \ {Max(s)}], q[Max(s)], c)]
             g == CHOOSE h : h = Step(h)
  <1>1. len \in Nat /\ D = DOMAIN q /\ \A i \in D : q[i] \in Seq(C)
    OBVIOUS
  <1>2. H \in [A \X D -> A]
    <2>1. \A a \in A, i \in D : Glue(a, q[i], c) \in A
      BY <1>1, GlueTyped
    <2> HIDE DEF A
    <2> QED
      BY <2>1 DEF GlueAllAt, A
  <1>3. PICK f \in [SUBSET D -> A] : Recursion(f, len, b, H)
    <2> HIDE DEF H
    <2> QED
      BY <1>1, <1>2, FoldExists
  <1>4. \A s \in SUBSET D : s # {} => Max(s) \in D /\ Before(s) \in SUBSET D
    BY <1>1, LastPosition DEF Before
  <1> HIDE DEF A
  <1>5. f = Step(f)
    <2>1. \A s \in SUBSET D : s # {} =>
             H[f[Before(s)], Max(s)] = Glue(f[Before(s)], q[Max(s)], c)
      BY <1>3, <1>4 DEF GlueAllAt, A
    <2>2. \A s \in SUBSET D :
             f[s] = IF s = {} THEN b ELSE Glue(f[Before(s)], q[Max(s)], c)
      BY <1>3, <2>1 DEF Recursion
    <2> QED
      BY <1>1, <1>3, <2>2 DEF Before
  <1>6. g = Step(g)
    BY <1>5
  <1>7. GlueAll(b, q, c) = g[D]
    BY <1>1 DEF GlueAll, FoldLeft, MapThenFoldSet
  <1> HIDE DEF g
  <1>8. /\ g[{}] = b
        /\ \A s \in SUBSET D : s # {} => g[s] = Glue(g[Before(s)], q[Max(s)], c)
    BY <1>1, <1>6 DEF Before
  <1>9. \A s \in SUBSET D : g[s] = f[s]
    <2> DEFINE Q == {s \in SUBSET D : g[s] = f[s]}
    <2>1. /\ f[{}] = b
          /\ \A s \in SUBSET D : s # {} => f[s] = Glue(f[Before(s)], q[Max(s)], c)
      BY <1>1, <1>5 DEF Before
    <2>2. {} \in Q
      BY <1>8, <2>1
    <2>3. \A s \in SUBSET D : s # {} /\ Before(s) \in Q => s \in Q
      <3> SUFFICES ASSUME NEW s \in SUBSET D, s # {}, Before(s) \in Q PROVE g[s] = f[s]
        OBVIOUS
      <3>1. g[Before(s)] = f[Before(s)]
        OBVIOUS
      <3> QED
        BY <1>8, <2>1, <3>1
    <2>4. SUBSET D \subseteq Q
      <3> HIDE DEF Q
      <3> QED
        BY <1>1, <2>2, <2>3, PositionInduction
    <2> QED
      BY <2>4
  <1>10. GlueAll(b, q, c) = f[D]
    BY <1>7, <1>9
  <1> QED
    BY <1>3, <1>10 DEF FoldsTo, A

\* Nothing is left as it was, and one more comes last.
LEMMA GlueAllMore ==
  ASSUME NEW C, NEW c \in C, NEW b \in Seq(C), NEW q \in Seq(Seq(C)),
         NEW x \in Seq(C)
  PROVE  GlueAllWell(C, b, q, x, c)
  <1> DEFINE A == Seq(C)
             len == Len(q)
             r == Append(q, x)
             more == Len(r)
             H == GlueAllAt(C, q, c)
             K == GlueAllAt(C, r, c)
  <1>1. /\ len \in Nat /\ r \in Seq(Seq(C)) /\ more \in Nat /\ more = len + 1 /\ r[more] = x
        /\ \A i \in 1..len : r[i] = q[i]
    <2>1. r \in Seq(Seq(C))
      BY AppendProperties
    <2>2. more = len + 1
      BY AppendProperties
    <2>3. r[len + 1] = x
      BY AppendProperties
    <2>4. \A i \in 1..len : r[i] = q[i]
      BY AppendProperties
    <2>5. len \in Nat /\ more \in Nat
      BY <2>1, LenProperties
    <2> QED
      BY <2>1, <2>2, <2>3, <2>4, <2>5
  <1> HIDE DEF r
  <1>2. 1..len \subseteq 1..more /\ more \in 1..more
    <2>1. len \in Nat /\ more = len + 1
      BY <1>1
    <2> HIDE DEF len, more
    <2> QED
      BY <2>1, OneMore
  <1>3. PICK f \in [SUBSET (1..len) -> A] : Recursion(f, len, b, H) /\ GlueAll(b, q, c) = f[1..len]
    <2>1. FoldsTo(A, len, b, H, GlueAll(b, q, c))
      BY GlueAllFold
    <2> QED
      BY <2>1 DEF FoldsTo
  <1>4. PICK h \in [SUBSET (1..more) -> A] : Recursion(h, more, b, K) /\ GlueAll(b, r, c) = h[1..more]
    <2>1. FoldsTo(A, more, b, K, GlueAll(b, r, c))
      BY <1>1, GlueAllFold
    <2> QED
      BY <2>1 DEF FoldsTo
  <1>5. GlueAll(b, q, c) \in A
    BY <1>3
  <1>6. GlueAll(b, <<>>, c) = b
    <2> DEFINE e == <<>>
    <2>1. e \in Seq(Seq(C)) /\ Len(e) = 0 /\ 1..0 = {}
      OBVIOUS
    <2> HIDE DEF e
    <2>2. PICK k \in [SUBSET (1..Len(e)) -> A] :
             Recursion(k, Len(e), b, GlueAllAt(C, e, c)) /\ GlueAll(b, e, c) = k[1..Len(e)]
      <3>1. FoldsTo(A, Len(e), b, GlueAllAt(C, e, c), GlueAll(b, e, c))
        BY <2>1, GlueAllFold
      <3> QED
        BY <3>1 DEF FoldsTo
    <2>3. k[{}] = b
      BY <2>2 DEF Recursion
    <2> QED
      BY <2>1, <2>2, <2>3 DEF e
  <1> HIDE DEF A
  <1>7. \A a \in A, i \in 1..len : H[a, i] = K[a, i]
    BY <1>1, <1>2 DEF GlueAllAt, A
  <1>8. h[1..more] = K[f[1..len], more]
    <2>0. b \in A
      BY DEF A
    <2>1. OneLonger(A, b, H, f, len, K, h, more)
      BY <1>1, <1>3, <1>4, <1>7, <2>0 DEF OneLonger
    <2> HIDE DEF len, more, H, K
    <2>2. TakesOneMore(f, len, K, h, more)
      BY <2>1, FoldMore
    <2> QED
      BY <2>2 DEF TakesOneMore
  <1>9. K[f[1..len], more] = Glue(f[1..len], x, c)
    <2>1. f[1..len] \in A
      BY <1>3
    <2> QED
      BY <1>1, <1>2, <2>1 DEF GlueAllAt, A
  <1>10. GlueAll(b, r, c) = Glue(GlueAll(b, q, c), x, c)
    BY <1>3, <1>4, <1>8, <1>9
  <1> QED
    BY <1>5, <1>6, <1>10 DEF GlueAllWell, A, r

\* A text without a separator in it goes into the last piece.
LEMMA PiecesStart ==
  ASSUME NEW C, NEW c \in C
  PROVE  <<(<<>>)>> \in Cut(C) /\ Pieces(<<>>, c) = <<(<<>>)>>
  <1> DEFINE b == <<(<<>>)>>
  <1>1. b \in Cut(C)
    <2>1. <<>> \in Seq(C)
      OBVIOUS
    <2>2. b \in Seq(Seq(C)) /\ Len(b) = 1
      BY <2>1
    <2> QED
      BY <2>2 DEF Cut
  <1>2. PieceAllWell(C, b, <<>>, c, c)
    <2>1. <<>> \in Seq(C)
      OBVIOUS
    <2> HIDE DEF b
    <2> QED
      BY <1>1, <2>1, PieceAllMore
  <1>3. Pieces(<<>>, c) = PieceAll(b, <<>>, c)
    BY DEF Pieces, PieceAll
  <1> QED
    BY <1>1, <1>2, <1>3 DEF PieceAllWell

PiecesWell(C, s, x, c) ==
    /\ Pieces(s, c) \in Cut(C)
    /\ Pieces(Append(s, x), c) = Piece(Pieces(s, c), x, c)

\* One more character.
LEMMA PiecesMore ==
  ASSUME NEW C, NEW c \in C, NEW s \in Seq(C), NEW x \in C
  PROVE  PiecesWell(C, s, x, c)
  <1> DEFINE b == <<(<<>>)>>
  <1>1. b \in Cut(C)
    BY PiecesStart
  <1>2. PieceAllWell(C, b, s, x, c)
    <2> HIDE DEF b
    <2> QED
      BY <1>1, PieceAllMore
  <1>3. /\ Pieces(s, c) = PieceAll(b, s, c)
        /\ Pieces(Append(s, x), c) = PieceAll(b, Append(s, x), c)
    BY DEF Pieces, PieceAll
  <1> QED
    BY <1>2, <1>3 DEF PieceAllWell, PiecesWell

\* One part is joined to itself.
LEMMA JoinOne ==
  ASSUME NEW C, NEW c \in C, NEW x \in Seq(C)
  PROVE  Join(<<x>>, c) = x
  <1>1. GlueAllWell(C, x, <<>>, x, c)
    <2>1. <<>> \in Seq(Seq(C))
      OBVIOUS
    <2> QED
      BY <2>1, GlueAllMore
  <1>2. Head(<<x>>) = x /\ Tail(<<x>>) = <<>> /\ <<x>> # <<>>
    OBVIOUS
  <1>3. Join(<<x>>, c) = GlueAll(x, <<>>, c)
    BY <1>2 DEF Join, GlueAll
  <1> QED
    BY <1>1, <1>3 DEF GlueAllWell

JoinWell(C, parts, x, c) ==
    /\ Join(parts, c) \in Seq(C)
    /\ Join(Append(parts, x), c) = Glue(Join(parts, c), x, c)

\* One part more is written behind the others.
LEMMA JoinMore ==
  ASSUME NEW C, NEW c \in C, NEW parts \in Seq(Seq(C)), NEW x \in Seq(C), parts # <<>>
  PROVE  JoinWell(C, parts, x, c)
  <1> DEFINE b == Head(parts)
             q == Tail(parts)
             more == Append(parts, x)
  <1>1. b \in Seq(C) /\ q \in Seq(Seq(C))
    BY HeadTailProperties
  <1>2. Head(more) = b /\ Tail(more) = Append(q, x)
    BY HeadTailAppend
  <1>3. more # <<>>
    BY AppendProperties, SMTT(20)
  <1> HIDE DEF more
  <1>4. GlueAllWell(C, b, q, x, c)
    <2> HIDE DEF b, q
    <2> QED
      BY <1>1, GlueAllMore
  <1>5. Join(parts, c) = GlueAll(b, q, c)
    BY DEF Join, GlueAll
  <1>6. Join(more, c) = GlueAll(b, Append(q, x), c)
    BY <1>2, <1>3 DEF Join, GlueAll
  <1> QED
    BY <1>4, <1>5, <1>6 DEF GlueAllWell, JoinWell, more

\* What holds of the empty sequence and is kept by one element more, holds of
\* every sequence.
LEMMA TextInduction ==
  ASSUME NEW E, NEW Q, <<>> \in Q,
         \A s \in Seq(E), x \in E : s \in Q => Append(s, x) \in Q
  PROVE  Seq(E) \subseteq Q
  <1> DEFINE S == {k \in Nat : \A s \in Seq(E) : Len(s) = k => s \in Q}
  <1>1. 0 \in S
    <2>1. \A s \in Seq(E) : Len(s) = 0 => s = <<>>
      OBVIOUS
    <2> QED
      BY <2>1
  <1>2. ASSUME NEW k \in Nat, k \in S PROVE k + 1 \in S
    <2> SUFFICES ASSUME NEW s \in Seq(E), Len(s) = k + 1 PROVE s \in Q
      OBVIOUS
    <2>1. s # <<>>
      BY EmptySeq
    <2>2. PICK r \in Seq(E), x \in E : s = Append(r, x)
      BY <2>1, SequenceEmptyOrAppend
    <2>3. Len(s) = Len(r) + 1 /\ Len(r) \in Nat
      BY <2>2
    <2>4. Len(r) = k
      BY <2>3
    <2> QED
      BY <1>2, <2>2, <2>4
  <1>3. Nat \subseteq S
    <2> HIDE DEF S
    <2> QED
      BY <1>1, <1>2, SetInduction
  <1> QED
    BY <1>3

\* The last element and those before it.
LEMMA FrontLast ==
  ASSUME NEW E, NEW q \in Seq(E), q # <<>>
  PROVE  /\ Front(q) \in Seq(E) /\ Last(q) \in E
         /\ q = Append(Front(q), Last(q))
         /\ Len(Front(q)) = Len(q) - 1
         /\ \A i \in 1..(Len(q) - 1) : Front(q)[i] = q[i]
  <1> DEFINE k == Len(q)
  <1>1. k \in Nat /\ k > 0 /\ \A i \in 1..k : q[i] \in E
    OBVIOUS
  <1>2. Last(q) \in E
    BY <1>1 DEF Last
  <1>3. \A i \in 1..(k - 1) : q[i] \in E
    BY <1>1
  <1> DEFINE f == SubSeq(q, 1, k - 1)
  <1>4. 1 \in Int /\ k - 1 \in Int
    BY <1>1
  <1>5. f \in Seq(E)
    BY <1>3, <1>4, SubSeqProperties
  <1>6. Len(f) = k - 1
    <2>1. Len(f) = IF 1 <= k - 1 THEN k - 1 - 1 + 1 ELSE 0
      BY <1>3, <1>4, SubSeqProperties
    <2>2. k \in Nat /\ k > 0
      BY <1>1
    <2>3. (IF 1 <= k - 1 THEN k - 1 - 1 + 1 ELSE 0) = k - 1
      <3> HIDE DEF k
      <3> QED
        BY <2>2
    <2> QED
      BY <2>1, <2>3
  <1>7. \A i \in 1..(k - 1) : f[i] = q[i]
    <2>1. \A i \in 1..(k - 1 - 1 + 1) : f[i] = q[1 + i - 1]
      BY <1>3, <1>4, SubSeqProperties
    <2>2. k - 1 - 1 + 1 = k - 1
      BY <1>1
    <2>3. \A i \in 1..(k - 1) : 1 + i - 1 = i
      BY <1>1
    <2> HIDE DEF f
    <2> QED
      BY <2>1, <2>2, <2>3
  <1>8. Front(q) = f
    BY DEF Front
  <1> HIDE DEF f
  <1>9. q = Append(f, Last(q))
    <2> DEFINE l == Last(q)
               r == Append(f, l)
    <2>1. r \in Seq(E)
      BY <1>2, <1>5, AppendProperties
    <2>2. Len(r) = k
      BY <1>1, <1>2, <1>5, <1>6, AppendProperties
    <2>3. \A i \in 1..(k - 1) : r[i] = q[i]
      BY <1>2, <1>5, <1>6, <1>7, AppendProperties
    <2>4. r[k] = q[k]
      <3>1. r[Len(f) + 1] = l
        BY <1>2, <1>5, AppendProperties
      <3>2. Len(f) + 1 = k /\ l = q[k]
        BY <1>1, <1>6 DEF Last
      <3> HIDE DEF r, l
      <3> QED
        BY <3>1, <3>2
    <2> HIDE DEF r
    <2>5. \A i \in 1..k : r[i] = q[i]
      BY <1>1, <2>3, <2>4
    <2>6. r = q
      BY <2>1, <2>2, <2>5, SeqEqual
    <2> QED
      BY <2>6 DEF r
  <1> QED
    BY <1>2, <1>5, <1>6, <1>7, <1>8, <1>9

LEMMA FrontAppend ==
  ASSUME NEW E, NEW q \in Seq(E), NEW x \in E
  PROVE  /\ Front(Append(q, x)) = q /\ Last(Append(q, x)) = x
         /\ Append(q, x) # <<>> /\ Append(q, x) \in Seq(E)
  <1> DEFINE r == Append(q, x)
  <1>1. r # <<>> /\ r \in Seq(E)
    BY AppendProperties
  <1> HIDE DEF r
  <1>2. /\ Front(r) \in Seq(E) /\ Last(r) \in E
        /\ r = Append(Front(r), Last(r))
    BY <1>1, FrontLast
  <1>3. Append(Front(r), Last(r)) = Append(q, x)
    BY <1>2 DEF r
  <1>4. Front(r) = q /\ Last(r) = x
    BY <1>2, <1>3, AppendInjective
  <1> QED
    BY <1>1, <1>4 DEF r

\* Appending and writing behind.
LEMMA AppendConcat ==
  ASSUME NEW E, NEW s \in Seq(E), NEW t \in Seq(E), NEW x \in E
  PROVE  s \o Append(t, x) = Append(s \o t, x)
  <1>1. <<x>> \in Seq(E) /\ s \o t \in Seq(E)
    BY ConcatProperties
  <1>2. Append(t, x) = t \o <<x>>
    BY AppendIsConcat
  <1>3. Append(s \o t, x) = (s \o t) \o <<x>>
    BY <1>1, AppendIsConcat
  <1>4. (s \o t) \o <<x>> = s \o (t \o <<x>>)
    BY <1>1, ConcatAssociative
  <1> QED
    BY <1>2, <1>3, <1>4

\* A separator among more characters.
LEMMA HasAppend ==
  ASSUME NEW E, NEW s \in Seq(E), NEW x \in E, NEW c
  PROVE  Has(Append(s, x), c) <=> Has(s, c) \/ x = c
  <1> DEFINE r == Append(s, x)
  <1>1. /\ r \in Seq(E) /\ Len(r) = Len(s) + 1
        /\ r[Len(s) + 1] = x /\ \A i \in 1..Len(s) : r[i] = s[i]
    <2>1. r \in Seq(E)
      BY AppendProperties
    <2>2. Len(r) = Len(s) + 1
      BY AppendProperties
    <2>3. r[Len(s) + 1] = x
      BY AppendProperties
    <2>4. \A i \in 1..Len(s) : r[i] = s[i]
      BY AppendProperties
    <2> QED
      BY <2>1, <2>2, <2>3, <2>4
  <1> HIDE DEF r
  <1>2. DOMAIN r = 1..(Len(s) + 1) /\ DOMAIN s = 1..Len(s) /\ Len(s) \in Nat
    BY <1>1
  <1>3. 1..(Len(s) + 1) = (1..Len(s)) \cup {Len(s) + 1}
    BY <1>2
  <1>4. Has(r, c) <=> Has(s, c) \/ x = c
    BY <1>1, <1>2, <1>3 DEF Has
  <1> QED
    BY <1>4 DEF r

\* Pieces without a separator.
Apart(pieces, c) == \A i \in DOMAIN pieces : ~Has(pieces[i], c)

LEMMA ApartAppend ==
  ASSUME NEW C, NEW pieces \in Seq(Seq(C)), NEW x \in Seq(C), NEW c
  PROVE  Apart(Append(pieces, x), c) <=> Apart(pieces, c) /\ ~Has(x, c)
  <1> DEFINE r == Append(pieces, x)
             k == Len(pieces)
  <1>1. /\ r \in Seq(Seq(C)) /\ Len(r) = k + 1
        /\ r[k + 1] = x /\ \A i \in 1..k : r[i] = pieces[i]
    <2>1. r \in Seq(Seq(C))
      BY AppendProperties
    <2>2. Len(r) = k + 1
      BY AppendProperties
    <2>3. r[k + 1] = x
      BY AppendProperties
    <2>4. \A i \in 1..k : r[i] = pieces[i]
      BY AppendProperties
    <2> QED
      BY <2>1, <2>2, <2>3, <2>4
  <1> HIDE DEF r
  <1>2. DOMAIN r = 1..(k + 1) /\ DOMAIN pieces = 1..k /\ k \in Nat
    BY <1>1
  <1>3. 1..(k + 1) = (1..k) \cup {k + 1}
    BY <1>2
  <1>4. Apart(r, c) <=> Apart(pieces, c) /\ ~Has(x, c)
    BY <1>1, <1>2, <1>3 DEF Apart
  <1> QED
    BY <1>4 DEF r

LEMMA JoinTyped ==
  ASSUME NEW C, NEW c \in C, NEW parts \in Seq(Seq(C))
  PROVE  Join(parts, c) \in Seq(C)
  <1>1. CASE parts = <<>>
    <2>1. <<>> \in Seq(C)
      OBVIOUS
    <2> QED
      BY <1>1, <2>1 DEF Join
  <1>2. CASE parts # <<>>
    <2>1. <<>> \in Seq(C)
      OBVIOUS
    <2>2. JoinWell(C, parts, <<>>, c)
      BY <1>2, <2>1, JoinMore
    <2> QED
      BY <2>2 DEF JoinWell
  <1> QED
    BY <1>1, <1>2

\* The pieces of s, written one behind the other with the separator between
\* them, are s, and no piece holds a separator.
Undone(C, s, c) ==
    /\ Pieces(s, c) \in Cut(C)
    /\ Join(Pieces(s, c), c) = s
    /\ Apart(Pieces(s, c), c)

LEMMA JoinPieces ==
  ASSUME NEW C, NEW c \in C, NEW s \in Seq(C)
  PROVE  Undone(C, s, c)
  <1> DEFINE Q == {t \in Seq(C) : Undone(C, t, c)}
  <1>1. <<>> \in Q
    <2> DEFINE e == <<>>
               b == <<e>>
    <2>1. e \in Seq(C) /\ DOMAIN b = {1} /\ b[1] = e /\ DOMAIN e = {}
      OBVIOUS
    <2>2. b \in Cut(C) /\ Pieces(e, c) = b
      BY PiecesStart
    <2>3. Join(b, c) = e
      BY <2>1, JoinOne
    <2>4. Apart(b, c)
      <3> HIDE DEF b, e
      <3> QED
        BY <2>1 DEF Apart, Has
    <2> HIDE DEF b
    <2>5. Undone(C, e, c)
      BY <2>2, <2>3, <2>4 DEF Undone
    <2> QED
      BY <2>1, <2>5
  <1>2. ASSUME NEW t \in Seq(C), NEW x \in C, t \in Q PROVE Append(t, x) \in Q
    <2> DEFINE P == Pieces(t, c)
               f == Front(P)
               l == Last(P)
               tx == Append(t, x)
    <2>1. /\ P \in Cut(C) /\ Join(P, c) = t /\ Apart(P, c)
      BY <1>2 DEF Undone
    <2>2. PiecesWell(C, t, x, c)
      BY <1>2, PiecesMore
    <2>3. Pieces(tx, c) = Piece(P, x, c) /\ tx \in Seq(C)
      BY <2>2, AppendProperties DEF PiecesWell
    <2>4. Piece(P, x, c) \in Cut(C)
      BY <2>1, PieceTyped
    <2> HIDE DEF P, tx
    <2>5. P \in Seq(Seq(C)) /\ P # <<>>
      BY <2>1 DEF Cut
    <2>6. f \in Seq(Seq(C)) /\ l \in Seq(C) /\ P = Append(f, l)
      BY <2>5, FrontLast
    <2> HIDE DEF f, l
    <2>7. Apart(f, c) /\ ~Has(l, c)
      BY <2>1, <2>6, ApartAppend
    <2>8. CASE x = c
      <3> DEFINE e == <<>>
      <3>1. e \in Seq(C) /\ ~Has(e, c)
        BY DEF Has
      <3>2. Piece(P, x, c) = Append(P, e)
        BY <2>8 DEF Piece
      <3> HIDE DEF e
      <3>3. JoinWell(C, P, e, c)
        BY <2>5, <3>1, JoinMore
      <3>4. Join(Append(P, e), c) = t \o <<c>> \o e
        BY <2>1, <3>3 DEF JoinWell, Glue
      <3>5. t \o <<c>> \o e = tx
        <4>1. tx = t \o <<c>>
          BY <2>8, AppendIsConcat DEF tx
        <4>2. tx \o e = tx
          BY <2>3, ConcatEmptySeq DEF e
        <4> QED
          BY <4>1, <4>2
      <3>6. Apart(Append(P, e), c)
        BY <2>1, <2>5, <3>1, ApartAppend
      <3> QED
        BY <2>3, <2>4, <3>2, <3>4, <3>5, <3>6 DEF Undone, tx
    <2>9. CASE x # c
      <3> DEFINE w == Append(l, x)
      <3>1. w \in Seq(C) /\ ~Has(w, c)
        <4>1. w \in Seq(C)
          BY <2>6, AppendProperties
        <4>2. ~Has(w, c)
          BY <2>6, <2>7, <2>9, HasAppend
        <4> QED
          BY <4>1, <4>2
      <3>2. Piece(P, x, c) = Append(f, w)
        BY <2>9 DEF Piece, f, l
      <3>3. Join(Append(f, w), c) = tx
        <4>1. CASE f = <<>>
          <5>1. P = <<l>> /\ Append(f, w) = <<w>>
            BY <2>6, <4>1
          <5>2. t = l
            BY <2>1, <2>6, <5>1, JoinOne
          <5> QED
            BY <3>1, <5>1, <5>2, JoinOne DEF tx
        <4>2. CASE f # <<>>
          <5> DEFINE J == Join(f, c) \o <<c>>
          <5>1. Join(f, c) \in Seq(C)
            BY <2>6, JoinTyped
          <5>2. J \in Seq(C)
            BY <5>1, ConcatProperties
          <5>3. t = J \o l
            <6>1. JoinWell(C, f, l, c)
              BY <2>6, <4>2, JoinMore
            <6> QED
              BY <2>1, <2>6, <6>1 DEF JoinWell, Glue
          <5>4. Join(Append(f, w), c) = J \o w
            <6>1. JoinWell(C, f, w, c)
              BY <2>6, <3>1, <4>2, JoinMore
            <6> QED
              BY <6>1 DEF JoinWell, Glue
          <5> HIDE DEF J
          <5>5. J \o w = Append(J \o l, x)
            BY <2>6, <5>2, AppendConcat
          <5> QED
            BY <5>3, <5>4, <5>5 DEF tx
        <4> QED
          BY <4>1, <4>2
      <3>4. Apart(Append(f, w), c)
        <4> HIDE DEF w
        <4> QED
          BY <2>6, <2>7, <3>1, ApartAppend
      <3> QED
        BY <2>3, <2>4, <3>2, <3>3, <3>4 DEF Undone, tx
    <2> QED
      BY <2>8, <2>9
  <1>3. Seq(C) \subseteq Q
    <2> HIDE DEF Q
    <2> QED
      BY <1>1, <1>2, TextInduction
  <1> QED
    BY <1>3

LEMMA HasConcat ==
  ASSUME NEW C, NEW s \in Seq(C), NEW t \in Seq(C), NEW c
  PROVE  Has(s, c) => Has(s \o t, c)
  <1> SUFFICES ASSUME Has(s, c) PROVE Has(s \o t, c)
    OBVIOUS
  <1>1. PICK i \in 1..Len(s) : s[i] = c
    BY DEF Has
  <1> DEFINE r == s \o t
  <1>2. r \in Seq(C)
    BY ConcatProperties
  <1>3. Len(r) = Len(s) + Len(t)
    BY ConcatProperties
  <1>4. \A j \in 1..(Len(s) + Len(t)) : r[j] = IF j <= Len(s) THEN s[j] ELSE t[j - Len(s)]
    BY ConcatProperties
  <1> HIDE DEF r
  <1>5. i \in DOMAIN r /\ r[i] = c
    BY <1>1, <1>2, <1>3, <1>4
  <1>6. Has(r, c)
    BY <1>5 DEF Has
  <1> QED
    BY <1>6 DEF r

\* Two parts or more have a separator between them.
LEMMA HasJoin ==
  ASSUME NEW C, NEW c \in C, NEW parts \in Seq(Seq(C)), Len(parts) > 1
  PROVE  Has(Join(parts, c), c)
  <1> DEFINE f == Front(parts)
             l == Last(parts)
             J == Join(f, c)
  <1>0. parts # <<>>
    OBVIOUS
  <1>1. f \in Seq(Seq(C)) /\ l \in Seq(C) /\ parts = Append(f, l)
    BY <1>0, FrontLast
  <1>2. f # <<>>
    <2>1. Len(f) = Len(parts) - 1
      BY <1>0, FrontLast
    <2> HIDE DEF f
    <2>2. Len(parts) \in Nat /\ Len(f) > 0
      BY <2>1
    <2> QED
      BY <2>2
  <1> HIDE DEF f, l
  <1>3. J \in Seq(C)
    BY <1>1, JoinTyped
  <1>4. JoinWell(C, f, l, c)
    BY <1>1, <1>2, JoinMore
  <1>5. Join(parts, c) = J \o <<c>> \o l
    BY <1>1, <1>4 DEF JoinWell, Glue
  <1> HIDE DEF J
  <1>6. J \o <<c>> = Append(J, c)
    BY <1>3, AppendIsConcat
  <1>7. Has(Append(J, c), c) /\ Append(J, c) \in Seq(C)
    BY <1>3, HasAppend, AppendProperties
  <1> QED
    BY <1>1, <1>5, <1>6, <1>7, HasConcat

\* What holds no separator goes on with the last piece.
LEMMA PiecesOn ==
  ASSUME NEW C, NEW c \in C, NEW s \in Seq(C), NEW y \in Seq(C), ~Has(y, c)
  PROVE  Pieces(s \o y, c) = Append(Front(Pieces(s, c)), Last(Pieces(s, c)) \o y)
  <1> DEFINE f == Front(Pieces(s, c))
             l == Last(Pieces(s, c))
             Q == {t \in Seq(C) : ~Has(t, c) => Pieces(s \o t, c) = Append(f, l \o t)}
  <1>1. f \in Seq(Seq(C)) /\ l \in Seq(C) /\ Pieces(s, c) = Append(f, l)
    <2>1. Pieces(s, c) \in Seq(Seq(C)) /\ Pieces(s, c) # <<>>
      <3>1. PiecesWell(C, s, c, c)
        BY PiecesMore
      <3> QED
        BY <3>1 DEF PiecesWell, Cut
    <2> QED
      BY <2>1, FrontLast
  <1> HIDE DEF f, l
  <1>2. <<>> \in Q
    <2>1. s \o <<>> = s /\ l \o <<>> = l
      BY <1>1, ConcatEmptySeq
    <2>2. <<>> \in Seq(C)
      OBVIOUS
    <2> QED
      BY <1>1, <2>1, <2>2
  <1>3. ASSUME NEW t \in Seq(C), NEW x \in C, t \in Q PROVE Append(t, x) \in Q
    <2> DEFINE tx == Append(t, x)
               st == s \o t
               lt == l \o t
    <2>1. tx \in Seq(C)
      BY AppendProperties
    <2> SUFFICES ASSUME ~Has(tx, c) PROVE Pieces(s \o tx, c) = Append(f, l \o tx)
      BY <2>1
    <2>2. ~Has(t, c) /\ x # c
      BY HasAppend
    <2>3. st \in Seq(C) /\ lt \in Seq(C)
      BY <1>1, ConcatProperties
    <2>4. Pieces(st, c) = Append(f, lt)
      BY <1>3, <2>2
    <2>5. s \o tx = Append(st, x) /\ l \o tx = Append(lt, x)
      <3>1. s \o Append(t, x) = Append(s \o t, x)
        BY AppendConcat
      <3>2. l \in Seq(C)
        BY <1>1
      <3>3. l \o Append(t, x) = Append(l \o t, x)
        BY <3>2, AppendConcat
      <3> QED
        BY <3>1, <3>3
    <2> HIDE DEF tx, st, lt
    <2>6. PiecesWell(C, st, x, c)
      BY <2>3, PiecesMore
    <2>7. Front(Append(f, lt)) = f /\ Last(Append(f, lt)) = lt
      BY <1>1, <2>3, FrontAppend
    <2>8. Piece(Append(f, lt), x, c) = Append(f, Append(lt, x))
      BY <2>2, <2>7 DEF Piece
    <2> QED
      BY <2>4, <2>5, <2>6, <2>8 DEF PiecesWell
  <1>4. Seq(C) \subseteq Q
    <2> HIDE DEF Q
    <2> QED
      BY <1>2, <1>3, TextInduction
  <1> QED
    BY <1>4 DEF f, l

\* Parts without a separator, written with one between them, are found again.
LEMMA PiecesJoin ==
  ASSUME NEW C, NEW c \in C, NEW parts \in Cut(C), Apart(parts, c)
  PROVE  Pieces(Join(parts, c), c) = parts
  <1> DEFINE Q == {p \in Seq(Seq(C)) :
                     p # <<>> /\ Apart(p, c) => Pieces(Join(p, c), c) = p}
  <1>1. <<>> \in Q
    OBVIOUS
  <1>2. ASSUME NEW p \in Seq(Seq(C)), NEW x \in Seq(C), p \in Q
        PROVE  Append(p, x) \in Q
    <2> DEFINE px == Append(p, x)
               e == <<>>
    <2>1. px \in Seq(Seq(C)) /\ e \in Seq(C)
      BY AppendProperties
    <2> SUFFICES ASSUME Apart(px, c) PROVE Pieces(Join(px, c), c) = px
      BY <2>1
    <2>2. Apart(p, c) /\ ~Has(x, c)
      BY ApartAppend
    <2>3. CASE p = <<>>
      <3>1. px = <<x>>
        BY <2>3
      <3>2. Join(px, c) = x
        BY <3>1, JoinOne
      <3>3. e \o x = x
        BY ConcatEmptySeq
      <3>4. Pieces(e, c) = Append(<<>>, e)
        BY PiecesStart
      <3>5. Front(Append(<<>>, e)) = <<>> /\ Last(Append(<<>>, e)) = e
        <4>1. <<>> \in Seq(Seq(C))
          OBVIOUS
        <4> HIDE DEF e
        <4> QED
          BY <2>1, <4>1, FrontAppend
      <3> HIDE DEF e
      <3>6. Pieces(e \o x, c) = Append(<<>>, e \o x)
        <4>1. Pieces(e \o x, c) = Append(Front(Pieces(e, c)), Last(Pieces(e, c)) \o x)
          BY <2>1, <2>2, PiecesOn
        <4> QED
          BY <3>4, <3>5, <4>1
      <3> QED
        BY <3>1, <3>2, <3>3, <3>6
    <2>4. CASE p # <<>>
      <3> DEFINE J == Join(p, c)
                 Jc == Append(J, c)
      <3>1. J \in Seq(C) /\ Jc \in Seq(C)
        BY JoinTyped, AppendProperties
      <3>2. Pieces(J, c) = p
        BY <1>2, <2>2, <2>4
      <3>3. Join(px, c) = Jc \o x
        <4>1. JoinWell(C, p, x, c)
          BY <2>4, JoinMore
        <4>2. J \o <<c>> = Jc
          BY <3>1, AppendIsConcat
        <4> QED
          BY <4>1, <4>2 DEF JoinWell, Glue
      <3> HIDE DEF J
      <3>4. Pieces(Jc, c) = Append(p, e)
        <4>1. PiecesWell(C, J, c, c)
          BY <3>1, PiecesMore
        <4> QED
          BY <3>2, <4>1 DEF PiecesWell, Piece
      <3> HIDE DEF Jc, e
      <3>5. Front(Append(p, e)) = p /\ Last(Append(p, e)) = e
        BY <2>1, FrontAppend
      <3>6. Pieces(Jc \o x, c) = Append(p, e \o x)
        <4>1. Pieces(Jc \o x, c)
                = Append(Front(Pieces(Jc, c)), Last(Pieces(Jc, c)) \o x)
          BY <2>2, <3>1, PiecesOn
        <4> QED
          BY <3>4, <3>5, <4>1
      <3>7. e \o x = x
        BY ConcatEmptySeq DEF e
      <3> QED
        BY <3>3, <3>6, <3>7
    <2> QED
      BY <2>3, <2>4
  <1>3. Seq(Seq(C)) \subseteq Q
    <2> HIDE DEF Q
    <2> QED
      BY <1>1, <1>2, TextInduction
  <1> QED
    BY <1>3 DEF Cut

\* A first part that is not empty begins the text.
Begins(parts, c) ==
    parts # <<>> /\ parts[1] # <<>> =>
        Join(parts, c) # <<>> /\ Join(parts, c)[1] = parts[1][1]

LEMMA JoinHead ==
  ASSUME NEW C, NEW c \in C, NEW parts \in Seq(Seq(C))
  PROVE  Begins(parts, c)
  <1> DEFINE Q == {p \in Seq(Seq(C)) : Begins(p, c)}
  <1>1. <<>> \in Q
    <2>1. <<>> \in Seq(Seq(C))
      OBVIOUS
    <2> QED
      BY <2>1 DEF Begins
  <1>2. ASSUME NEW p \in Seq(Seq(C)), NEW x \in Seq(C), p \in Q
        PROVE  Append(p, x) \in Q
    <2> DEFINE px == Append(p, x)
               J == Join(p, c)
    <2>1. px \in Seq(Seq(C))
      BY AppendProperties
    <2>2. CASE p = <<>>
      <3>1. px = <<x>> /\ px[1] = x
        BY <2>2
      <3>2. Join(px, c) = x
        BY <3>1, JoinOne
      <3> QED
        BY <2>1, <3>1, <3>2 DEF Begins
    <2>3. CASE p # <<>>
      <3>1. px[1] = p[1] /\ Len(p) \in Nat /\ Len(p) > 0
        BY <2>3, AppendProperties
      <3>2. J \in Seq(C)
        BY JoinTyped
      <3>3. Join(px, c) = J \o <<c>> \o x
        <4>1. JoinWell(C, p, x, c)
          BY <2>3, JoinMore
        <4> QED
          BY <4>1 DEF JoinWell, Glue
      <3> HIDE DEF px
      <3>4. ASSUME p[1] # <<>> PROVE Join(px, c) # <<>> /\ Join(px, c)[1] = p[1][1]
        <4>1. J # <<>> /\ J[1] = p[1][1]
          BY <1>2, <2>3, <3>4 DEF Begins
        <4> HIDE DEF J
        <4> DEFINE Jc == J \o <<c>>
                   Jx == Jc \o x
        <4>2. Len(J) \in Nat /\ Len(J) > 0
          BY <3>2, <4>1
        <4>3. Jc \in Seq(C) /\ Len(Jc) > 0 /\ Jc[1] = J[1]
          <5>1. <<c>> \in Seq(C) /\ Len(<<c>>) = 1
            OBVIOUS
          <5>2. Jc \in Seq(C)
            BY <3>2, <5>1, ConcatProperties
          <5>3. Len(Jc) = Len(J) + 1
            BY <3>2, <5>1, ConcatProperties
          <5>4. Jc[1] = J[1]
            BY <3>2, <4>2, <5>1, ConcatProperties
          <5> QED
            BY <4>2, <5>2, <5>3, <5>4
        <4> HIDE DEF Jc
        <4>4. Jx \in Seq(C) /\ Len(Jx) > 0 /\ Jx[1] = Jc[1]
          <5>1. Jx \in Seq(C)
            BY <4>3, ConcatProperties
          <5>2. Len(Jx) = Len(Jc) + Len(x)
            BY <4>3, ConcatProperties
          <5>3. Jx[1] = Jc[1]
            BY <4>3, ConcatProperties
          <5>4. Len(x) \in Nat /\ Len(Jc) \in Nat
            BY <4>3
          <5> QED
            BY <4>3, <5>1, <5>2, <5>3, <5>4
        <4>5. Join(px, c) = Jx
          BY <3>3 DEF Jc
        <4> HIDE DEF Jx
        <4>6. Jx # <<>>
          BY <4>4
        <4> QED
          BY <4>1, <4>3, <4>4, <4>5, <4>6
      <3>5. Begins(px, c)
        BY <3>1, <3>4 DEF Begins
      <3> QED
        BY <2>1, <3>5 DEF px
    <2> QED
      BY <2>2, <2>3
  <1>3. Seq(Seq(C)) \subseteq Q
    <2> HIDE DEF Q
    <2> QED
      BY <1>1, <1>2, TextInduction
  <1> QED
    BY <1>3

\* Joining the last parts first makes no difference.
Nested(C, a, c, p) ==
    p # <<>> => Join(Append(a, Join(p, c)), c) = Join(a \o p, c)

LEMMA JoinNested ==
  ASSUME NEW C, NEW c \in C, NEW a \in Seq(Seq(C)), a # <<>>, NEW p \in Seq(Seq(C))
  PROVE  Nested(C, a, c, p)
  <1> DEFINE Q == {r \in Seq(Seq(C)) : Nested(C, a, c, r)}
             A == Join(a, c) \o <<c>>
  <1>1. A \in Seq(C) /\ <<c>> \in Seq(C)
    <2>1. Join(a, c) \in Seq(C) /\ <<c>> \in Seq(C)
      BY JoinTyped
    <2> QED
      BY <2>1, ConcatProperties
  <1>2. \A s, t, u \in Seq(C) : (s \o t) \o u = s \o (t \o u)
    BY ConcatAssociative, SMTT(20)
  <1>3. \A x \in Seq(C) : Join(Append(a, x), c) = A \o x
    <2> SUFFICES ASSUME NEW x \in Seq(C) PROVE Join(Append(a, x), c) = A \o x
      OBVIOUS
    <2>1. JoinWell(C, a, x, c)
      BY JoinMore
    <2> QED
      BY <2>1 DEF JoinWell, Glue
  <1> HIDE DEF A
  <1>4. <<>> \in Q
    <2>1. <<>> \in Seq(Seq(C))
      OBVIOUS
    <2> QED
      BY <2>1 DEF Nested
  <1>5. ASSUME NEW r \in Seq(Seq(C)), NEW x \in Seq(C), r \in Q
        PROVE  Append(r, x) \in Q
    <2> DEFINE rx == Append(r, x)
               ar == a \o r
    <2>1. rx \in Seq(Seq(C))
      BY AppendProperties
    <2>2. a \o rx = Append(ar, x)
      BY AppendConcat, SMTT(20)
    <2>3. CASE r = <<>>
      <3>1. rx = <<x>>
        BY <2>3
      <3>2. Join(rx, c) = x
        BY <3>1, JoinOne
      <3>3. ar = a
        BY <2>3, ConcatEmptySeq
      <3>4. Nested(C, a, c, rx)
        BY <2>2, <3>2, <3>3 DEF Nested
      <3> QED
        BY <2>1, <3>4
    <2>4. CASE r # <<>>
      <3> DEFINE J == Join(r, c)
                 Jc == J \o <<c>>
      <3>1. J \in Seq(C)
        BY JoinTyped
      <3>2. Jc \in Seq(C)
        BY <1>1, <3>1, ConcatProperties
      <3>3. Join(rx, c) = Jc \o x
        <4>1. JoinWell(C, r, x, c)
          BY <2>4, JoinMore
        <4> QED
          BY <4>1 DEF JoinWell, Glue
      <3>4. Jc \o x \in Seq(C)
        BY <3>2, ConcatProperties
      <3>5. Join(Append(a, Join(rx, c)), c) = A \o (Jc \o x)
        BY <1>3, <3>3, <3>4
      <3>6. ar \in Seq(Seq(C)) /\ ar # <<>>
        <4>1. ar \in Seq(Seq(C))
          BY ConcatProperties
        <4>2. Len(ar) = Len(a) + Len(r)
          BY ConcatProperties
        <4>3. Len(a) \in Nat /\ Len(r) \in Nat /\ Len(a) > 0
          OBVIOUS
        <4> HIDE DEF ar
        <4>4. Len(ar) > 0
          BY <4>2, <4>3
        <4>5. ar # <<>>
          BY <4>4
        <4> QED
          BY <4>1, <4>5
      <3>7. Join(ar, c) = A \o J
        BY <1>3, <1>5, <2>4, <3>1 DEF Nested
      <3> HIDE DEF ar
      <3>8. Join(Append(ar, x), c) = ((A \o J) \o <<c>>) \o x
        <4>1. JoinWell(C, ar, x, c)
          BY <3>6, JoinMore
        <4> QED
          BY <3>7, <4>1 DEF JoinWell, Glue
      <3> HIDE DEF J
      <3>9. (A \o J) \o <<c>> = A \o Jc
        <4> DEFINE d == <<c>>
        <4>1. d \in Seq(C)
          OBVIOUS
        <4> HIDE DEF d
        <4>2. (A \o J) \o d = A \o (J \o d)
          BY <1>1, <1>2, <3>1, <4>1, ZenonT(30)
        <4> QED
          BY <4>2 DEF d
      <3> HIDE DEF Jc
      <3>10. (A \o Jc) \o x = A \o (Jc \o x)
        <4>1. A \in Seq(C) /\ Jc \in Seq(C) /\ x \in Seq(C)
          BY <1>1, <3>2
        <4> QED
          BY <1>2, <4>1
      <3>11. Nested(C, a, c, rx)
        BY <2>2, <3>5, <3>8, <3>9, <3>10 DEF Nested
      <3> QED
        BY <2>1, <3>11
    <2> QED
      BY <2>3, <2>4
  <1>6. Seq(Seq(C)) \subseteq Q
    <2> HIDE DEF Q
    <2> QED
      BY <1>4, <1>5, TextInduction
  <1> QED
    BY <1>6

\* Characters, with those that separate lines and words.
Signs == Chars \cup {Separator, Blank}

Lines == Seq(Chars) \ {<<>>}

\* The queue is its lines with separators between them.
QueueInv ==
    /\ typed \in Seq(Chars)
    /\ lines \in Seq(Lines)
    /\ queue = Join(lines, Separator)

LEMMA LinesTyped ==
  /\ Lines \subseteq Seq(Signs)
  /\ Seq(Lines) \subseteq Seq(Seq(Signs))
  /\ Separator \in Signs /\ Blank \in Signs
  <1>1. Chars \subseteq Signs
    BY DEF Signs
  <1>2. Lines \subseteq Seq(Signs)
    BY <1>1, SeqMonotonic DEF Lines
  <1> QED
    BY <1>2, SeqMonotonic DEF Signs

\* What size and getline make of the lines in one text.
Reads(q, rest) ==
    /\ Size(q) = Len(rest)
    /\ rest # <<>> => GetLine(q) = [line |-> Head(rest),
                                    rest |-> Join(Tail(rest), Separator)]

LEMMA QueueReads ==
  ASSUME NEW rest \in Seq(Lines)
  PROVE  Reads(Join(rest, Separator), rest)
  <1> DEFINE c == Separator
             q == Join(rest, c)
  <1>1. rest \in Seq(Seq(Signs)) /\ c \in Signs
    BY LinesTyped
  <1>2. \A x \in Lines : ~Has(x, c) /\ x \in Seq(Signs) /\ x # <<>>
    <2> SUFFICES ASSUME NEW x \in Lines PROVE ~Has(x, c)
      BY LinesTyped DEF Lines
    <2>1. x \in Seq(Chars)
      BY DEF Lines
    <2>2. \A i \in DOMAIN x : x[i] \in Chars
      BY <2>1
    <2> QED
      BY <2>2, QueueParams DEF Has
  <1>3. CASE rest = <<>>
    <2>1. q = <<>>
      BY <1>3 DEF Join
    <2> QED
      BY <1>3, <2>1 DEF Reads, Size
  <1>4. CASE Len(rest) = 1
    <2> DEFINE x == rest[1]
    <2>1. x \in Lines /\ rest = <<x>>
      BY <1>4
    <2> HIDE DEF x
    <2>11. rest # <<>> /\ Head(rest) = x /\ Tail(rest) = <<>>
      BY <2>1
    <2>2. q = x
      BY <1>1, <1>2, <2>1, JoinOne
    <2> HIDE DEF q
    <2>3. q # <<>> /\ ~Has(q, c)
      BY <1>2, <2>1, <2>2
    <2>4. Size(q) = 1
      BY <2>3 DEF Size
    <2>5. GetLine(q) = [line |-> q, rest |-> <<>>]
      BY <2>3 DEF GetLine
    <2>6. Join(Tail(rest), c) = <<>>
      BY <2>11 DEF Join
    <2>7. Reads(q, rest)
      BY <1>4, <2>1, <2>11, <2>2, <2>4, <2>5, <2>6 DEF Reads
    <2> QED
      BY <2>7 DEF q
  <1>5. CASE Len(rest) > 1
    <2>1. rest # <<>> /\ rest \in Cut(Signs)
      <3>1. rest # <<>>
        BY <1>5
      <3> QED
        BY <1>1, <3>1 DEF Cut
    <2>2. Apart(rest, c)
      BY <1>2 DEF Apart
    <2>3. Has(q, c)
      BY <1>1, <1>5, HasJoin
    <2>4. Pieces(q, c) = rest
      BY <1>1, <2>1, <2>2, PiecesJoin
    <2> HIDE DEF q
    <2>5. Split(q, c) = rest
      BY <2>3, <2>4 DEF Split
    <2>6. q # <<>>
      BY <2>3 DEF Has
    <2>7. Size(q) = Len(rest)
      BY <2>3, <2>5, <2>6 DEF Size
    <2>8. GetLine(q) = [line |-> Head(rest), rest |-> Join(Tail(rest), c)]
      BY <2>3, <2>5 DEF GetLine
    <2>9. Reads(q, rest)
      BY <2>7, <2>8 DEF Reads
    <2> QED
      BY <2>9 DEF q
  <1>6. rest = <<>> \/ Len(rest) = 1 \/ Len(rest) > 1
    <2> DEFINE len == Len(rest)
    <2>1. len \in Nat /\ (len = 0 => rest = <<>>)
      OBVIOUS
    <2>2. len = 0 \/ len = 1 \/ len > 1
      <3> HIDE DEF len
      <3> QED
        BY <2>1
    <2> QED
      BY <2>1, <2>2
  <1> QED
    BY <1>3, <1>4, <1>5, <1>6

\* A line loses its returns but never all it has.
LEMMA StrippedIsLine ==
  ASSUME NEW s \in Lines
  PROVE  Stripped(s) \in Lines
  <1> DEFINE S == {i \in DOMAIN s : s[i] # "\r"}
             last == Max(S)
             r == SubSeq(s, 1, last)
  <1>1. s \in Seq(Chars) /\ s # <<>> /\ Len(s) \in Nat /\ DOMAIN s = 1..Len(s)
    BY DEF Lines
  <1>2. CASE S = {}
    BY <1>2 DEF Stripped
  <1>3. CASE S # {}
    <2>1. last \in S
      <3>1. S \in SUBSET (1..Len(s))
        BY <1>1
      <3> HIDE DEF S
      <3> QED
        BY <1>1, <1>3, <3>1, LastPosition
    <2>2. Stripped(s) = r
      BY <1>3 DEF Stripped
    <2>3. last \in 1..Len(s) /\ 1 \in Int /\ last \in Int /\ last >= 1
      BY <1>1, <2>1
    <2> HIDE DEF last
    <2>4. \A i \in 1..last : s[i] \in Chars
      BY <1>1, <2>3
    <2>5. r \in Seq(Chars)
      BY <2>3, <2>4, SubSeqProperties
    <2>6. Len(r) = last
      <3>1. Len(r) = IF 1 <= last THEN last - 1 + 1 ELSE 0
        BY <2>3, <2>4, SubSeqProperties
      <3> HIDE DEF r
      <3> QED
        BY <2>3, <3>1
    <2> HIDE DEF r
    <2>7. r # <<>>
      BY <2>3, <2>6
    <2> QED
      BY <2>2, <2>5, <2>7 DEF Lines
  <1> QED
    BY <1>2, <1>3

LEMMA TypeStep ==
  ASSUME QueueInv, NEW c \in Chars, Type(c)
  PROVE  QueueInv'
  <1>1. typed' \in Seq(Chars)
    BY AppendProperties DEF QueueInv, Type
  <1> QED
    BY <1>1 DEF QueueInv, Type

LEMMA CompleteStep ==
  ASSUME QueueInv, Complete
  PROVE  QueueInv'
  <1> DEFINE x == Stripped(typed)
             more == Append(lines, x)
  <1>1. typed' \in Seq(Chars)
    BY DEF Complete
  <1>2. CASE typed = <<>>
    BY <1>1, <1>2 DEF QueueInv, Complete
  <1>3. CASE typed # <<>>
    <2>1. x \in Lines
      BY <1>3, StrippedIsLine DEF QueueInv, Lines
    <2>2. queue' = Add(queue, x) /\ lines' = more
      BY <1>3 DEF Complete
    <2> HIDE DEF x
    <2>3. more \in Seq(Lines)
      BY <2>1, AppendProperties DEF QueueInv
    <2>4. x \in Seq(Signs) /\ lines \in Seq(Seq(Signs)) /\ Separator \in Signs
      BY <2>1, LinesTyped DEF QueueInv
    <2>5. Add(queue, x) = Join(more, Separator)
      <3>1. CASE lines = <<>>
        <4>1. queue = <<>>
          BY <3>1 DEF QueueInv, Join
        <4>2. more = <<x>>
          BY <3>1
        <4>3. Join(<<x>>, Separator) = x
          BY <2>4, JoinOne
        <4> QED
          BY <4>1, <4>2, <4>3 DEF Add
      <3>2. CASE lines # <<>>
        <4>1. queue # <<>>
          <5>1. Size(queue) = Len(lines)
            <6>1. Reads(Join(lines, Separator), lines)
              BY QueueReads DEF QueueInv
            <6> QED
              BY <6>1 DEF QueueInv, Reads
          <5>2. Len(lines) # 0
            BY <3>2 DEF QueueInv
          <5> QED
            BY <5>1, <5>2 DEF Size
        <4>2. JoinWell(Signs, lines, x, Separator)
          BY <2>4, <3>2, JoinMore
        <4> QED
          BY <4>1, <4>2 DEF QueueInv, JoinWell, Glue, Add
      <3> QED
        BY <3>1, <3>2
    <2> HIDE DEF more
    <2> QED
      BY <1>1, <2>2, <2>3, <2>5 DEF QueueInv
  <1> QED
    BY <1>2, <1>3

LEMMA RunStep ==
  ASSUME QueueInv, Run
  PROVE  QueueInv'
  <1>1. Reads(queue, lines)
    BY QueueReads DEF QueueInv
  <1>2. lines # <<>>
    BY <1>1 DEF Reads, Run
  <1>3. Tail(lines) \in Seq(Lines)
    BY <1>2, HeadTailProperties DEF QueueInv
  <1>4. GetLine(queue).rest = Join(Tail(lines), Separator)
    BY <1>1, <1>2 DEF Reads
  <1> QED
    BY <1>3, <1>4 DEF QueueInv, Run

\* The receive queue is its lines, in one text.
THEOREM QueueInductive == QueueSpec => []QueueInv
  <1>1. QueueInit => QueueInv
    <2> SUFFICES ASSUME QueueInit PROVE QueueInv
      OBVIOUS
    <2>1. Join(<<>>, Separator) = <<>>
      BY DEF Join
    <2> QED
      BY <2>1 DEF QueueInit, QueueInv
  <1>2. QueueInv /\ [QueueNext]_queueVars => QueueInv'
    <2> SUFFICES ASSUME QueueInv, [QueueNext]_queueVars PROVE QueueInv'
      OBVIOUS
    <2>1. ASSUME NEW c \in Chars, Type(c) PROVE QueueInv'
      BY <2>1, TypeStep
    <2>2. CASE Complete
      BY <2>2, CompleteStep
    <2>3. CASE Run
      BY <2>3, RunStep
    <2>4. CASE UNCHANGED queueVars
      BY <2>4 DEF QueueInv, queueVars
    <2> QED
      BY <2>1, <2>2, <2>3, <2>4 DEF QueueNext
  <1> QED
    BY <1>1, <1>2, PTL DEF QueueSpec

\* The lines of a client come out whole and in the order they were typed,
\* and their number is known (UnrealRecvQueue).
THEOREM AlwaysLines == QueueSpec => []LinesInOrder
  <1>1. QueueInv => LinesInOrder
    <2> SUFFICES ASSUME QueueInv PROVE LinesInOrder
      OBVIOUS
    <2>1. Reads(queue, lines)
      BY QueueReads DEF QueueInv
    <2> QED
      BY <2>1 DEF Reads, LinesInOrder
  <1> QED
    BY <1>1, QueueInductive, PTL
\* Cut before place i, the parts in front and those from it on.
LEMMA CutBefore ==
  ASSUME NEW E, NEW q \in Seq(E), NEW i \in 2..Len(q)
  PROVE  LET a == SubSeq(q, 1, i - 1)
             b == SubSeq(q, i, Len(q))
         IN  /\ a \in Seq(E) /\ b \in Seq(E) /\ q = a \o b
             /\ Len(a) = i - 1 /\ \A k \in 1..(i - 1) : a[k] = q[k]
             /\ b # <<>> /\ b[1] = q[i]
  <1> DEFINE len == Len(q)
             a == SubSeq(q, 1, i - 1)
             b == SubSeq(q, i, len)
  <1>1. /\ len \in Nat /\ i \in Int /\ len \in Int /\ i - 1 \in Int /\ 1 \in Int
        /\ i >= 2 /\ i <= len /\ \A k \in 1..len : q[k] \in E
    OBVIOUS
  <1>2. (\A k \in 1..(i - 1) : q[k] \in E) /\ \A k \in i..len : q[k] \in E
    BY <1>1
  <1>3. a \in Seq(E) /\ b \in Seq(E)
    <2>1. a \in Seq(E)
      BY <1>1, <1>2, SubSeqProperties
    <2>2. b \in Seq(E)
      BY <1>1, <1>2, SubSeqProperties
    <2> QED
      BY <2>1, <2>2
  <1>4. Len(a) = i - 1
    <2>1. Len(a) = IF 1 <= i - 1 THEN i - 1 - 1 + 1 ELSE 0
      BY <1>1, <1>2, SubSeqProperties
    <2> HIDE DEF a, len
    <2> QED
      BY <1>1, <2>1
  <1>5. \A k \in 1..(i - 1) : a[k] = q[k]
    <2>1. \A k \in 1..(i - 1 - 1 + 1) : a[k] = q[1 + k - 1]
      BY <1>1, <1>2, SubSeqProperties
    <2>2. i - 1 - 1 + 1 = i - 1 /\ \A k \in 1..(i - 1) : 1 + k - 1 = k
      BY <1>1
    <2> HIDE DEF a, len
    <2> QED
      BY <2>1, <2>2
  <1>6. b # <<>> /\ b[1] = q[i]
    <2>1. Len(b) = IF i <= len THEN len - i + 1 ELSE 0
      BY <1>1, <1>2, SubSeqProperties
    <2>2. \A k \in 1..(len - i + 1) : b[k] = q[i + k - 1]
      BY <1>1, <1>2, SubSeqProperties
    <2> HIDE DEF b, len
    <2>3. Len(b) > 0 /\ 1 \in 1..(len - i + 1) /\ i + 1 - 1 = i
      BY <1>1, <2>1
    <2> QED
      BY <2>2, <2>3
  <1>7. q = a \o b
    <2>1. /\ 1 \in 1..(len + 1) /\ i - 1 \in (1 - 1)..len /\ len \in (i - 1)..len
          /\ (i - 1) + 1 = i
      BY <1>1
    <2>2. a \o SubSeq(q, (i - 1) + 1, len) = SubSeq(q, 1, len)
      BY <2>1, ConcatAdjacentSubSeq
    <2>3. SubSeq(q, 1, len) = q
      BY SubSeqFull
    <2> QED
      BY <2>1, <2>2, <2>3
  <1> QED
    BY <1>3, <1>4, <1>5, <1>6, <1>7

\* A first part that is empty puts a separator in front.
LEMMA JoinEmptyHead ==
  ASSUME NEW C, NEW c \in C, NEW parts \in Seq(Seq(C)), Len(parts) > 1, parts[1] = <<>>
  PROVE  Join(parts, c)[1] = c
  <1> DEFINE e == <<>>
             a == <<e>>
             p == Tail(parts)
             J == Join(p, c)
  <1>1. e \in Seq(C) /\ a \in Seq(Seq(C)) /\ a # <<>>
    OBVIOUS
  <1>2. p \in Seq(Seq(C)) /\ p # <<>>
    <2>1. Len(parts) \in Nat /\ parts # <<>>
      OBVIOUS
    <2>2. p \in Seq(Seq(C)) /\ Len(p) = Len(parts) - 1
      BY <2>1, HeadTailProperties
    <2> HIDE DEF p
    <2> QED
      BY <2>1, <2>2
  <1>3. parts = a \o p
    <2>1. parts = <<parts[1]>> \o Tail(parts)
      OBVIOUS
    <2> QED
      BY <2>1
  <1>4. Join(a, c) = e
    BY <1>1, JoinOne
  <1> HIDE DEF a, p, e
  <1>5. J \in Seq(C)
    BY <1>2, JoinTyped
  <1>6. Nested(C, a, c, p)
    BY <1>1, <1>2, JoinNested
  <1>7. Join(parts, c) = Join(Append(a, J), c)
    BY <1>2, <1>3, <1>6 DEF Nested
  <1> HIDE DEF J
  <1>8. JoinWell(C, a, J, c)
    BY <1>1, <1>5, JoinMore
  <1>9. Join(parts, c) = (e \o <<c>>) \o J
    BY <1>4, <1>7, <1>8 DEF JoinWell, Glue
  <1>10. e \o <<c>> = <<c>>
    BY DEF e
  <1>11. (<<c>> \o J)[1] = c
    <2>1. <<c>> \in Seq(C) /\ Len(<<c>>) = 1 /\ <<c>>[1] = c
      OBVIOUS
    <2> DEFINE z == <<c>>
    <2>2. z \in Seq(C) /\ Len(z) = 1 /\ z[1] = c
      BY <2>1
    <2> HIDE DEF z
    <2>3. (z \o J)[1] = z[1]
      BY <1>5, <2>2, ConcatProperties
    <2> QED
      BY <2>2, <2>3 DEF z
  <1> QED
    BY <1>9, <1>10, <1>11

\* What WordsInOrder says of one line.
WordsRead(line) ==
    LET argv == SplitLine(line)
        last == Len(argv)
    IN  /\ last > 1
        /\ \A i \in 1..(last - 1) : ~Has(argv[i], Blank)
        /\ \A i \in 2..(last - 1) : ~BeginsLong(argv[i])
        /\ \/ line = Join(Append(Front(argv), <<":">> \o Last(argv)), Blank)
           \/ /\ line = Join(argv, Blank)
              /\ ~Has(argv[last], Blank) /\ ~BeginsLong(argv[last])

LEMMA SplitReads ==
  ASSUME NEW s \in Seq(Signs), Has(s, Blank)
  PROVE  WordsRead(s) /\ (Throws(s) => s[1] = Blank)
  <1> DEFINE tokens == Pieces(s, Blank)
             len == Len(tokens)
             S == LongWords(tokens)
  <1>0. Blank \in Signs
    BY LinesTyped
  <1>1. tokens \in Cut(Signs) /\ Join(tokens, Blank) = s /\ Apart(tokens, Blank)
    <2>1. Undone(Signs, s, Blank)
      BY <1>0, JoinPieces
    <2> QED
      BY <2>1 DEF Undone
  <1>2. tokens \in Seq(Seq(Signs)) /\ tokens # <<>>
    BY <1>1 DEF Cut
  <1>3. SplitLine(s) = IF S = {} THEN tokens
                       ELSE Append(SubSeq(tokens, 1, LongFrom(tokens) - 1),
                                   Tail(Join(SubSeq(tokens, LongFrom(tokens), len), Blank)))
    <2>1. Split(s, Blank) = tokens
      BY DEF Split
    <2> HIDE DEF tokens
    <2> QED
      BY <1>2, <2>1 DEF SplitLine
  <1> HIDE DEF tokens
  <1>4. len \in Nat /\ len > 1 /\ DOMAIN tokens = 1..len
    <2>1. len \in Nat /\ len > 0 /\ DOMAIN tokens = 1..len
      BY <1>2, LenProperties, EmptySeq
    <2>2. len # 1
      <3> SUFFICES ASSUME len = 1 PROVE FALSE
        OBVIOUS
      <3> DEFINE x == tokens[1]
      <3>1. tokens = <<x>> /\ x \in Seq(Signs)
        BY <1>2
      <3>2. ~Has(x, Blank)
        BY <1>1, <2>1 DEF Apart
      <3> HIDE DEF x
      <3>3. Join(tokens, Blank) = x
        BY <1>0, <3>1, JoinOne
      <3> QED
        BY <1>1, <3>2, <3>3
    <2> HIDE DEF len
    <2> QED
      BY <2>1, <2>2
  <1>5. \A i \in 1..len : ~Has(tokens[i], Blank)
    BY <1>1, <1>4 DEF Apart
  <1>6. S = {i \in 1..len : i > 1 /\ BeginsLong(tokens[i])}
    BY <1>4 DEF LongWords
  <1>9. tokens[1] = <<>> => s[1] = Blank
    BY <1>0, <1>1, <1>2, <1>4, JoinEmptyHead
  <1> HIDE DEF S, len
  <1>7. CASE S = {}
    <2>1. SplitLine(s) = tokens
      BY <1>3, <1>7
    <2>2. \A i \in 2..len : ~BeginsLong(tokens[i])
      BY <1>4, <1>6, <1>7
    <2>3. /\ \A i \in 1..(len - 1) : ~Has(tokens[i], Blank)
          /\ \A i \in 2..(len - 1) : ~BeginsLong(tokens[i])
          /\ ~Has(tokens[len], Blank) /\ ~BeginsLong(tokens[len])
      <3> QED
        BY <1>4, <1>5, <2>2
    <2>4. Throws(s) => s[1] = Blank
      BY <1>2, <1>9, <2>1 DEF Throws
    <2>5. WordsRead(s)
      BY <1>1, <1>4, <2>1, <2>3 DEF WordsRead
    <2> QED
      BY <2>4, <2>5
  <1>8. CASE S # {}
    <2> DEFINE i == LongFrom(tokens)
               a == SubSeq(tokens, 1, i - 1)
               b == SubSeq(tokens, i, len)
               J == Join(b, Blank)
               rest == Tail(J)
               argv == Append(a, rest)
    <2>1. i \in S /\ \A j \in S : i <= j
      <3>1. S \subseteq Nat
        BY <1>4, <1>6
      <3>2. Min(S) \in S /\ \A j \in S : Min(S) <= j
        BY <1>8, <3>1, FirstPlace
      <3> QED
        BY <3>2 DEF LongFrom, S
    <2>2. SplitLine(s) = argv
      BY <1>3, <1>8 DEF len
    <2> HIDE DEF i
    <2>3. i \in 2..len /\ i \in Nat /\ BeginsLong(tokens[i])
      BY <1>4, <1>6, <2>1
    <2>4. /\ a \in Seq(Seq(Signs)) /\ b \in Seq(Seq(Signs)) /\ tokens = a \o b
          /\ Len(a) = i - 1 /\ \A k \in 1..(i - 1) : a[k] = tokens[k]
          /\ b # <<>> /\ b[1] = tokens[i]
      BY <1>2, <2>3, CutBefore DEF len
    <2> HIDE DEF a, b
    <2>5. J \in Seq(Signs) /\ J # <<>> /\ J[1] = ":"
      <3>1. J \in Seq(Signs)
        BY <1>0, <2>4, JoinTyped
      <3>2. Begins(b, Blank)
        BY <1>0, <2>4, JoinHead
      <3> QED
        BY <2>3, <2>4, <3>1, <3>2 DEF Begins, BeginsLong
    <2>6. Join(Append(a, J), Blank) = s
      <3>1. a # <<>>
        BY <2>3, <2>4
      <3>2. Nested(Signs, a, Blank, b)
        BY <1>0, <2>4, <3>1, JoinNested
      <3> QED
        BY <1>1, <2>4, <3>2 DEF Nested
    <2> HIDE DEF J
    <2>7. rest \in Seq(Signs) /\ <<":">> \o rest = J
      <3>1. rest \in Seq(Signs)
        BY <2>5, HeadTailProperties
      <3>2. J = <<J[1]>> \o rest
        BY <2>5
      <3> QED
        BY <2>5, <3>1, <3>2
    <2> HIDE DEF rest
    <2>8. argv \in Seq(Seq(Signs)) /\ Front(argv) = a /\ Last(argv) = rest
      BY <2>4, <2>7, FrontAppend
    <2>9. Len(argv) = i /\ \A k \in 1..(i - 1) : argv[k] = a[k]
      <3>1. Len(argv) = Len(a) + 1
        BY <2>4, <2>7, AppendProperties
      <3>2. \A k \in 1..Len(a) : argv[k] = a[k]
        BY <2>4, <2>7, AppendProperties
      <3> HIDE DEF argv
      <3> QED
        BY <2>3, <2>4, <3>1, <3>2
    <2> HIDE DEF argv
    <2>14. Throws(s) => s[1] = Blank
      <3>1. 1 \in 1..(i - 1) /\ argv # <<>>
        BY <1>4, <2>3, <2>8, <2>9
      <3>2. Head(argv) = tokens[1]
        BY <2>4, <2>8, <2>9, <3>1
      <3> QED
        BY <1>9, <2>2, <3>2 DEF Throws
    <2>10. \A k \in 1..(i - 1) : ~Has(argv[k], Blank)
      BY <1>4, <1>5, <2>3, <2>4, <2>9
    <2>11. \A k \in 2..(i - 1) : ~BeginsLong(argv[k])
      <3> SUFFICES ASSUME NEW k \in 2..(i - 1) PROVE ~BeginsLong(argv[k])
        OBVIOUS
      <3>1. k \in 1..(i - 1) /\ k \in 1..len /\ k > 1 /\ k < i
        BY <1>4, <2>3
      <3>2. argv[k] = tokens[k]
        BY <2>4, <2>9, <3>1
      <3>3. k \notin S
        BY <2>1, <2>3, <3>1
      <3> QED
        BY <1>6, <3>1, <3>2, <3>3
    <2>12. s = Join(Append(Front(argv), <<":">> \o Last(argv)), Blank)
      BY <2>6, <2>7, <2>8
    <2>13. Len(argv) = i /\ i > 1
      BY <1>4, <2>3, <2>9
    <2> HIDE DEF argv, rest, i, len
    <2>15. WordsRead(s)
      BY <2>2, <2>10, <2>11, <2>12, <2>13, Zenon DEF WordsRead
    <2> QED
      BY <2>14, <2>15
  <1> QED
    BY <1>7, <1>8

\* A line without a blank throws only if there is nothing else in it than
\* what trimmed takes away.
LEMMA TrimmedThrows ==
  ASSUME NEW s \in Lines, ~Has(s, Blank), Throws(s)
  PROVE  s[1] \in Blanks
  <1> DEFINE ink == {i \in DOMAIN s : s[i] \notin Blanks}
             t == Trimmed(s)
  <1>1. s \in Seq(Chars) /\ s # <<>> /\ Len(s) \in Nat /\ Len(s) > 0 /\ DOMAIN s = 1..Len(s)
    BY DEF Lines
  <1>2. SplitLine(s) = <<t>>
    BY DEF SplitLine, Split
  <1>3. t = <<>>
    <2>1. Head(SplitLine(s)) = <<>>
      BY DEF Throws
    <2> HIDE DEF t
    <2> QED
      BY <1>2, <2>1
  <1>4. CASE ink = {}
    BY <1>1, <1>4
  <1>5. CASE ink # {}
    <2> DEFINE a == Min(ink)
               b == Max(ink)
    <2>1. ink \in SUBSET (1..Len(s)) /\ ink \subseteq Nat
      BY <1>1
    <2>2. t = SubSeq(s, a, b)
      BY <1>5 DEF Trimmed
    <2>3. a \in ink /\ b \in ink /\ a <= b
      <3> HIDE DEF ink
      <3>1. a \in ink /\ \A y \in ink : a <= y
        BY <1>5, <2>1, FirstPlace
      <3>2. b \in ink
        BY <1>1, <1>5, <2>1, LastPosition
      <3> QED
        BY <3>1, <3>2
    <2> HIDE DEF a, b, t
    <2>4. a \in Int /\ b \in Int /\ a <= b /\ \A i \in a..b : s[i] \in Chars
      BY <1>1, <2>1, <2>3
    <2>5. Len(SubSeq(s, a, b)) = IF a <= b THEN b - a + 1 ELSE 0
      BY <2>4, SubSeqProperties
    <2>6. Len(t) > 0
      BY <2>2, <2>4, <2>5
    <2> QED
      BY <1>3, <2>6
  <1> QED
    BY <1>4, <1>5

\* A line is split into words that are the line again when they are written
\* side by side, and only one that begins with a blank ends the server
\* (splitLine, processRecvQueue).
THEOREM AlwaysWords == QueueSpec => []WordsInOrder
  <1>1. QueueInv => WordsInOrder
    <2> SUFFICES ASSUME QueueInv, NEW k \in DOMAIN lines
                 PROVE  /\ Throws(lines[k]) => lines[k][1] \in Blanks
                        /\ Has(lines[k], Blank) => WordsRead(lines[k])
      BY DEF WordsInOrder, WordsRead
    <2>1. lines \in Seq(Seq(Signs)) /\ lines \in Seq(Lines)
      BY LinesTyped DEF QueueInv
    <2>2. lines[k] \in Seq(Signs) /\ lines[k] \in Lines
      BY <2>1
    <2>3. Blank \in Blanks
      BY DEF Blank, Blanks
    <2>4. CASE Has(lines[k], Blank)
      <3>1. WordsRead(lines[k]) /\ (Throws(lines[k]) => lines[k][1] = Blank)
        BY <2>2, <2>4, SplitReads
      <3> QED
        BY <2>3, <3>1
    <2>5. CASE ~Has(lines[k], Blank)
      <3>1. Throws(lines[k]) => lines[k][1] \in Blanks
        BY <2>2, <2>5, TrimmedThrows
      <3> QED
        BY <2>5, <3>1
    <2> QED
      BY <2>4, <2>5
  <1> QED
    BY <1>1, QueueInductive, PTL

-----------------------------------------------------------------------------
(* Quotes *)

\* One more character of a value is written, behind an escape where it needs one.
Tell(s, x, esc) ==
    s \o (IF x \in MustEscape THEN <<esc, x>> ELSE <<x>>)

TellAll(b, q, c) == FoldLeft(LAMBDA s, x : Tell(s, x, c), b, q)
TellAllAt(C, q, c) == [r \in Seq(C) \X (1..Len(q)) |-> Tell(r[1], q[r[2]], c)]
TellAllWell(C, b, q, x, c) ==
    /\ TellAll(b, q, c) \in Seq(C)
    /\ TellAll(b, <<>>, c) = b
    /\ TellAll(b, Append(q, x), c) = Tell(TellAll(b, q, c), x, c)

LEMMA TellTyped ==
  ASSUME NEW C, NEW s \in Seq(C), NEW x \in C, NEW c \in C
  PROVE  Tell(s, x, c) \in Seq(C)
  <1> DEFINE t == IF x \in MustEscape THEN <<c, x>> ELSE <<x>>
  <1>1. t \in Seq(C)
    <2>1. <<c, x>> \in Seq(C) /\ <<x>> \in Seq(C)
      OBVIOUS
    <2> QED
      BY <2>1
  <1> HIDE DEF t
  <1>2. s \o t \in Seq(C)
    BY <1>1, ConcatProperties
  <1> QED
    BY <1>2 DEF Tell, t

\* Writing a value is a recursion over its characters.
LEMMA TellAllFold ==
  ASSUME NEW C, NEW c \in C, NEW b \in Seq(C), NEW q \in Seq(C)
  PROVE  FoldsTo(Seq(C), Len(q), b, TellAllAt(C, q, c), TellAll(b, q, c))
  <1> DEFINE len == Len(q)
             D == 1..len
             A == Seq(C)
             H == TellAllAt(C, q, c)
             Step(h) == [s \in SUBSET DOMAIN q |->
                           IF s = {} THEN b ELSE Tell(h[s \ {Max(s)}], q[Max(s)], c)]
             g == CHOOSE h : h = Step(h)
  <1>1. len \in Nat /\ D = DOMAIN q /\ \A i \in D : q[i] \in C
    OBVIOUS
  <1>2. H \in [A \X D -> A]
    <2>1. \A a \in A, i \in D : Tell(a, q[i], c) \in A
      BY <1>1, TellTyped
    <2> HIDE DEF A
    <2> QED
      BY <2>1 DEF TellAllAt, A
  <1>3. PICK f \in [SUBSET D -> A] : Recursion(f, len, b, H)
    <2> HIDE DEF H
    <2> QED
      BY <1>1, <1>2, FoldExists
  <1>4. \A s \in SUBSET D : s # {} => Max(s) \in D /\ Before(s) \in SUBSET D
    BY <1>1, LastPosition DEF Before
  <1> HIDE DEF A
  <1>5. f = Step(f)
    <2>1. \A s \in SUBSET D : s # {} =>
             H[f[Before(s)], Max(s)] = Tell(f[Before(s)], q[Max(s)], c)
      BY <1>3, <1>4 DEF TellAllAt, A
    <2>2. \A s \in SUBSET D :
             f[s] = IF s = {} THEN b ELSE Tell(f[Before(s)], q[Max(s)], c)
      BY <1>3, <2>1 DEF Recursion
    <2> QED
      BY <1>1, <1>3, <2>2 DEF Before
  <1>6. g = Step(g)
    BY <1>5
  <1>7. TellAll(b, q, c) = g[D]
    BY <1>1 DEF TellAll, FoldLeft, MapThenFoldSet
  <1> HIDE DEF g
  <1>8. /\ g[{}] = b
        /\ \A s \in SUBSET D : s # {} => g[s] = Tell(g[Before(s)], q[Max(s)], c)
    BY <1>1, <1>6 DEF Before
  <1>9. \A s \in SUBSET D : g[s] = f[s]
    <2> DEFINE Q == {s \in SUBSET D : g[s] = f[s]}
    <2>1. /\ f[{}] = b
          /\ \A s \in SUBSET D : s # {} => f[s] = Tell(f[Before(s)], q[Max(s)], c)
      BY <1>1, <1>5 DEF Before
    <2>2. {} \in Q
      BY <1>8, <2>1
    <2>3. \A s \in SUBSET D : s # {} /\ Before(s) \in Q => s \in Q
      <3> SUFFICES ASSUME NEW s \in SUBSET D, s # {}, Before(s) \in Q PROVE g[s] = f[s]
        OBVIOUS
      <3>1. g[Before(s)] = f[Before(s)]
        OBVIOUS
      <3> QED
        BY <1>8, <2>1, <3>1
    <2>4. SUBSET D \subseteq Q
      <3> HIDE DEF Q
      <3> QED
        BY <1>1, <2>2, <2>3, PositionInduction
    <2> QED
      BY <2>4
  <1>10. TellAll(b, q, c) = f[D]
    BY <1>7, <1>9
  <1> QED
    BY <1>3, <1>10 DEF FoldsTo, A

\* Nothing is left as it was, and one more comes last.
LEMMA TellAllMore ==
  ASSUME NEW C, NEW c \in C, NEW b \in Seq(C), NEW q \in Seq(C),
         NEW x \in C
  PROVE  TellAllWell(C, b, q, x, c)
  <1> DEFINE A == Seq(C)
             len == Len(q)
             r == Append(q, x)
             more == Len(r)
             H == TellAllAt(C, q, c)
             K == TellAllAt(C, r, c)
  <1>1. /\ len \in Nat /\ r \in Seq(C) /\ more \in Nat /\ more = len + 1 /\ r[more] = x
        /\ \A i \in 1..len : r[i] = q[i]
    <2>1. r \in Seq(C)
      BY AppendProperties
    <2>2. more = len + 1
      BY AppendProperties
    <2>3. r[len + 1] = x
      BY AppendProperties
    <2>4. \A i \in 1..len : r[i] = q[i]
      BY AppendProperties
    <2>5. len \in Nat /\ more \in Nat
      BY <2>1, LenProperties
    <2> QED
      BY <2>1, <2>2, <2>3, <2>4, <2>5
  <1> HIDE DEF r
  <1>2. 1..len \subseteq 1..more /\ more \in 1..more
    <2>1. len \in Nat /\ more = len + 1
      BY <1>1
    <2> HIDE DEF len, more
    <2> QED
      BY <2>1, OneMore
  <1>3. PICK f \in [SUBSET (1..len) -> A] : Recursion(f, len, b, H) /\ TellAll(b, q, c) = f[1..len]
    <2>1. FoldsTo(A, len, b, H, TellAll(b, q, c))
      BY TellAllFold
    <2> QED
      BY <2>1 DEF FoldsTo
  <1>4. PICK h \in [SUBSET (1..more) -> A] : Recursion(h, more, b, K) /\ TellAll(b, r, c) = h[1..more]
    <2>1. FoldsTo(A, more, b, K, TellAll(b, r, c))
      BY <1>1, TellAllFold
    <2> QED
      BY <2>1 DEF FoldsTo
  <1>5. TellAll(b, q, c) \in A
    BY <1>3
  <1>6. TellAll(b, <<>>, c) = b
    <2> DEFINE e == <<>>
    <2>1. e \in Seq(C) /\ Len(e) = 0 /\ 1..0 = {}
      OBVIOUS
    <2> HIDE DEF e
    <2>2. PICK k \in [SUBSET (1..Len(e)) -> A] :
             Recursion(k, Len(e), b, TellAllAt(C, e, c)) /\ TellAll(b, e, c) = k[1..Len(e)]
      <3>1. FoldsTo(A, Len(e), b, TellAllAt(C, e, c), TellAll(b, e, c))
        BY <2>1, TellAllFold
      <3> QED
        BY <3>1 DEF FoldsTo
    <2>3. k[{}] = b
      BY <2>2 DEF Recursion
    <2> QED
      BY <2>1, <2>2, <2>3 DEF e
  <1> HIDE DEF A
  <1>7. \A a \in A, i \in 1..len : H[a, i] = K[a, i]
    BY <1>1, <1>2 DEF TellAllAt, A
  <1>8. h[1..more] = K[f[1..len], more]
    <2>0. b \in A
      BY DEF A
    <2>1. OneLonger(A, b, H, f, len, K, h, more)
      BY <1>1, <1>3, <1>4, <1>7, <2>0 DEF OneLonger
    <2> HIDE DEF len, more, H, K
    <2>2. TakesOneMore(f, len, K, h, more)
      BY <2>1, FoldMore
    <2> QED
      BY <2>2 DEF TakesOneMore
  <1>9. K[f[1..len], more] = Tell(f[1..len], x, c)
    <2>1. f[1..len] \in A
      BY <1>3
    <2> QED
      BY <1>1, <1>2, <2>1 DEF TellAllAt, A
  <1>10. TellAll(b, r, c) = Tell(TellAll(b, q, c), x, c)
    BY <1>3, <1>4, <1>8, <1>9
  <1> QED
    BY <1>5, <1>6, <1>10 DEF TellAllWell, A, r

LEMMA SignsDiffer ==
  /\ Quote # Semicolon /\ Quote # Backslash /\ Semicolon # Backslash
  /\ Quote \in Characters /\ Semicolon \in Characters /\ Backslash \in Characters
  BY DEF Quote, Semicolon, Backslash, Characters

\* A character written, and where its last place is.
LEMMA ShownTyped ==
  ASSUME NEW x \in Characters
  PROVE  /\ Shown(x) \in Seq(Characters)
         /\ x \in MustEscape =>
              /\ Len(Shown(x)) = 2 /\ Shown(x)[1] = Backslash /\ Shown(x)[2] = x
         /\ x \notin MustEscape => Len(Shown(x)) = 1 /\ Shown(x)[1] = x
  <1>1. Backslash \in Characters
    BY SignsDiffer
  <1>2. <<Backslash, x>> \in Seq(Characters) /\ <<x>> \in Seq(Characters)
    BY <1>1
  <1>3. CASE x \in MustEscape
    BY <1>2, <1>3 DEF Shown, MustEscape
  <1>4. CASE x \notin MustEscape
    BY <1>2, <1>4 DEF Shown, MustEscape
  <1> QED
    BY <1>3, <1>4

BodyWell(s, x) ==
    /\ Body(s) \in Seq(Characters)
    /\ Body(<<>>) = <<>>
    /\ Body(Append(s, x)) = Body(s) \o Shown(x)

\* What is written of a value and of one character more.
LEMMA BodyMore ==
  ASSUME NEW s \in Seq(Characters), NEW x \in Characters
  PROVE  BodyWell(s, x)
  <1> DEFINE e == <<>>
  <1>1. \A v : Body(v) = TellAll(e, v, Backslash)
    BY DEF Body, TellAll, Tell, Shown
  <1>2. e \in Seq(Characters) /\ Backslash \in Characters
    BY SignsDiffer
  <1>3. Tell(Body(s), x, Backslash) = Body(s) \o Shown(x)
    BY DEF Tell, Shown
  <1> HIDE DEF e
  <1>4. TellAllWell(Characters, e, s, x, Backslash)
    BY <1>2, TellAllMore
  <1>5. /\ Body(s) \in Seq(Characters)
        /\ TellAll(e, <<>>, Backslash) = e
        /\ Body(Append(s, x)) = Tell(Body(s), x, Backslash)
    BY <1>1, <1>4 DEF TellAllWell
  <1>6. Body(<<>>) = e
    BY <1>1, <1>5
  <1> QED
    BY <1>3, <1>5, <1>6 DEF BodyWell, e

LEMMA BodyTyped ==
  ASSUME NEW s \in Seq(Characters)
  PROVE  Body(s) \in Seq(Characters) /\ Body(<<>>) = <<>>
  <1>1. Quote \in Characters
    BY SignsDiffer
  <1>2. BodyWell(s, Quote)
    BY <1>1, BodyMore
  <1> QED
    BY <1>2 DEF BodyWell

LEMMA CharactersConcat ==
  \A s, t, u \in Seq(Characters) : (s \o t) \o u = s \o (t \o u)
  BY ConcatAssociative

\* A text behind another.
LEMMA Behind ==
  ASSUME NEW E, NEW d \in Seq(E), NEW l \in Seq(E)
  PROVE  /\ d \o l \in Seq(E)
         /\ Len(d \o l) = Len(d) + Len(l)
         /\ \A k \in 1..Len(d) : (d \o l)[k] = d[k]
         /\ \A k \in 1..Len(l) : (d \o l)[Len(d) + k] = l[k]
  <1> DEFINE r == d \o l
             len == Len(d)
             more == Len(l)
  <1>1. r \in Seq(E)
    BY ConcatProperties
  <1>2. Len(r) = len + more
    BY ConcatProperties
  <1>3. \A k \in 1..(len + more) : r[k] = IF k <= len THEN d[k] ELSE l[k - len]
    BY ConcatProperties
  <1>4. len \in Nat /\ more \in Nat
    OBVIOUS
  <1> HIDE DEF r, len, more
  <1>5. \A k \in 1..len : r[k] = d[k]
    BY <1>3, <1>4
  <1>6. ASSUME NEW k \in 1..more PROVE r[len + k] = l[k]
    <2>1. len + k \in 1..(len + more) /\ ~(len + k <= len) /\ (len + k) - len = k
      BY <1>4
    <2> QED
      BY <1>3, <2>1
  <1> QED
    BY <1>1, <1>2, <1>5, <1>6 DEF r, len, more

Joined(p, r) == Body(p \o r) = Body(p) \o Body(r)

\* A value in two parts is written part by part.
LEMMA BodyConcat ==
  ASSUME NEW p \in Seq(Characters), NEW r \in Seq(Characters)
  PROVE  Joined(p, r)
  <1> DEFINE Q == {t \in Seq(Characters) : Joined(p, t)}
             B == Body(p)
  <1>1. B \in Seq(Characters)
    BY BodyTyped
  <1>2. \A s, t, u \in Seq(Characters) : (s \o t) \o u = s \o (t \o u)
    BY CharactersConcat
  <1>3. <<>> \in Q
    <2>1. <<>> \in Seq(Characters)
      OBVIOUS
    <2>2. Body(<<>>) = <<>>
      BY <2>1, BodyTyped
    <2>3. p \o <<>> = p /\ B \o <<>> = B
      BY <1>1, ConcatEmptySeq
    <2>4. Joined(p, <<>>)
      BY <2>2, <2>3 DEF Joined
    <2> QED
      BY <2>1, <2>4
  <1>4. ASSUME NEW t \in Seq(Characters), NEW x \in Characters, t \in Q
        PROVE  Append(t, x) \in Q
    <2> DEFINE pt == p \o t
               tx == Append(t, x)
               T == Body(t)
               w == Shown(x)
    <2>1. tx \in Seq(Characters) /\ pt \in Seq(Characters)
      BY AppendProperties, ConcatProperties
    <2>2. p \o tx = Append(pt, x)
      BY AppendConcat
    <2>3. Body(pt) = B \o T
      BY <1>4 DEF Joined
    <2> HIDE DEF pt
    <2>4. BodyWell(pt, x)
      BY <2>1, BodyMore
    <2>5. BodyWell(t, x)
      BY BodyMore
    <2>6. Body(tx) = T \o w
      BY <2>5 DEF BodyWell
    <2>7. Body(p \o tx) = (B \o T) \o w
      BY <2>2, <2>3, <2>4 DEF BodyWell
    <2>8. T \in Seq(Characters) /\ w \in Seq(Characters)
      BY BodyTyped, ShownTyped
    <2> HIDE DEF T, w, tx
    <2>9. (B \o T) \o w = B \o (T \o w)
      BY <1>1, <1>2, <2>8
    <2>10. Joined(p, tx)
      BY <2>6, <2>7, <2>9 DEF Joined
    <2> QED
      BY <2>1, <2>10 DEF tx
  <1>5. Seq(Characters) \subseteq Q
    <2> HIDE DEF Q
    <2> QED
      BY <1>3, <1>4, TextInduction
  <1> QED
    BY <1>5

\* The opening quote and what is written of a value so far.
Begun(p) == <<Quote>> \o Body(p)

Ending(after) == <<Quote, Semicolon>> \o after

\* The next character to be written, at its places.
BegunMore(p, x) ==
    /\ Begun(p) \in Seq(Characters) /\ Begun(<<>>) = <<Quote>>
    /\ Begun(Append(p, x)) = Begun(p) \o Shown(x)

LEMMA BegunTyped ==
  ASSUME NEW p \in Seq(Characters), NEW x \in Characters
  PROVE  BegunMore(p, x)
  <1> DEFINE q == <<Quote>>
             B == Body(p)
             w == Shown(x)
  <1>1. q \in Seq(Characters) /\ B \in Seq(Characters) /\ w \in Seq(Characters)
    BY SignsDiffer, BodyTyped, ShownTyped
  <1>2. \A s, t, u \in Seq(Characters) : (s \o t) \o u = s \o (t \o u)
    BY CharactersConcat
  <1>3. BodyWell(p, x)
    BY BodyMore
  <1>4. Begun(p) = q \o B
    BY DEF Begun
  <1>5. Begun(Append(p, x)) = q \o (B \o w)
    BY <1>3 DEF Begun, BodyWell
  <1>6. Begun(<<>>) = q \o <<>>
    BY <1>3 DEF Begun, BodyWell
  <1> HIDE DEF q, B, w
  <1>7. q \o B \in Seq(Characters) /\ q \o <<>> = q
    BY <1>1, ConcatProperties, ConcatEmptySeq
  <1>8. q \o (B \o w) = (q \o B) \o w
    BY <1>1, <1>2, SMTT(30)
  <1> QED
    BY <1>4, <1>5, <1>6, <1>7, <1>8 DEF BegunMore, q, w

\* What is written begins with the quote, and its last character is the last
\* of the value.
Bounded(b) ==
    /\ b \in Seq(Characters) /\ Len(b) \in Nat /\ Len(b) > 0
    /\ b[1] = Quote /\ b[Len(b)] # Backslash

LEMMA BegunBounded ==
  ASSUME NEW p \in Seq(Characters), p # <<>> => Last(p) # Backslash
  PROVE  Bounded(Begun(p))
  <1> DEFINE b == Begun(p)
             q == <<Quote>>
  <1>1. q \in Seq(Characters) /\ Len(q) = 1 /\ q[1] = Quote /\ Quote # Backslash
    BY SignsDiffer
  <1>2. CASE p = <<>>
    <2>1. BegunMore(p, Quote)
      BY SignsDiffer, BegunTyped
    <2>2. b = q
      BY <1>2, <2>1 DEF BegunMore
    <2> HIDE DEF q, b
    <2>3. b \in Seq(Characters) /\ b[1] = Quote
      BY <1>1, <2>2
    <2>4. Len(b) = 1
      BY <1>1, <2>2
    <2>5. Bounded(b)
      BY <1>1, <2>3, <2>4 DEF Bounded
    <2> QED
      BY <2>5 DEF b
  <1>3. CASE p # <<>>
    <2> DEFINE f == Front(p)
               x == Last(p)
               B == Begun(f)
               w == Shown(x)
               B2 == Body(f)
    <2>1. f \in Seq(Characters) /\ x \in Characters /\ p = Append(f, x)
      BY <1>3, FrontLast
    <2>2. x # Backslash
      BY <1>3
    <2> HIDE DEF f, x
    <2>3. B \in Seq(Characters) /\ b = B \o w
      <3>1. BegunMore(f, x)
        BY <2>1, BegunTyped
      <3> QED
        BY <2>1, <3>1 DEF BegunMore
    <2>4. w \in Seq(Characters) /\ Len(w) \in {1, 2} /\ w[Len(w)] = x
      BY <2>1, ShownTyped
    <2>5. B2 \in Seq(Characters) /\ B = q \o B2
      BY <2>1, BodyTyped DEF Begun
    <2> HIDE DEF B2, q
    <2>6. Len(B) \in Nat /\ Len(B) > 0 /\ B[1] = Quote
      <3>1. Len(B) = Len(q) + Len(B2)
        <4>1. Len(q \o B2) = Len(q) + Len(B2)
          BY <1>1, <2>5, Behind
        <4> QED
          BY <2>5, <4>1
      <3>2. \A k \in 1..Len(q) : B[k] = q[k]
        BY <1>1, <2>5, Behind
      <3>3. Len(B2) \in Nat
        BY <2>5
      <3> QED
        BY <1>1, <3>1, <3>2, <3>3
    <2> HIDE DEF B, w, b
    <2>7. b \in Seq(Characters) /\ Len(b) = Len(B) + Len(w)
      BY <2>3, <2>4, Behind
    <2>8. \A k \in 1..Len(B) : b[k] = B[k]
      BY <2>3, <2>4, Behind
    <2>9. \A k \in 1..Len(w) : b[Len(B) + k] = w[k]
      BY <2>3, <2>4, Behind
    <2>10. Len(w) \in 1..Len(w) /\ 1 \in 1..Len(B) /\ Len(b) \in Nat /\ Len(b) > 0
      <3>0. Len(w) = 1 \/ Len(w) = 2
        BY <2>4
      <3>1. Len(w) \in Nat /\ Len(w) > 0
        BY <3>0
      <3>2. Len(w) \in 1..Len(w) /\ 1 \in 1..Len(B)
        BY <2>6, <3>1
      <3>3. Len(b) \in Nat /\ Len(b) > 0
        BY <2>6, <2>7, <3>1
      <3> QED
        BY <3>2, <3>3
    <2>11. b[1] = Quote /\ b[Len(b)] = x
      BY <2>4, <2>6, <2>7, <2>8, <2>9, <2>10
    <2> QED
      BY <2>2, <2>7, <2>10, <2>11 DEF Bounded, b
  <1> QED
    BY <1>2, <1>3

\* The text around the closing quote.
AtEnd(t, b) ==
    /\ Len(t) \in Nat /\ Len(t) >= Len(b) + 2
    /\ t[1] = Quote /\ t[Len(b)] # Backslash
    /\ t[Len(b) + 1] = Quote /\ t[Len(b) + 2] = Semicolon

LEMMA EndPlaces ==
  ASSUME NEW b, Bounded(b), NEW after \in Seq(Characters)
  PROVE  AtEnd(b \o Ending(after), b)
  <1> DEFINE q == <<Quote, Semicolon>>
             l == Ending(after)
             t == b \o l
  <1>1. q \in Seq(Characters) /\ Len(q) = 2 /\ q[1] = Quote /\ q[2] = Semicolon
    <2>1. Quote \in Characters /\ Semicolon \in Characters
      BY SignsDiffer
    <2> QED
      BY <2>1
  <1>2. l = q \o after
    BY DEF Ending
  <1> HIDE DEF q, l
  <1>3. l \in Seq(Characters) /\ Len(l) = 2 + Len(after) /\ l[1] = Quote /\ l[2] = Semicolon
    <2>1. l \in Seq(Characters)
      BY <1>1, <1>2, Behind
    <2>2. Len(l) = Len(q) + Len(after)
      BY <1>1, <1>2, Behind
    <2>3. \A k \in 1..Len(q) : l[k] = q[k]
      BY <1>1, <1>2, Behind, ZenonT(30)
    <2> QED
      BY <1>1, <2>1, <2>2, <2>3
  <1>4. /\ b \in Seq(Characters) /\ Len(b) \in Nat /\ Len(b) > 0
        /\ b[1] = Quote /\ b[Len(b)] # Backslash /\ Len(after) \in Nat
    BY DEF Bounded
  <1>5. Len(t) = Len(b) + Len(l)
    BY <1>3, <1>4, Behind
  <1>6. \A k \in 1..Len(b) : t[k] = b[k]
    BY <1>3, <1>4, Behind
  <1>7. \A k \in 1..Len(l) : t[Len(b) + k] = l[k]
    BY <1>3, <1>4, Behind
  <1> HIDE DEF t
  <1>8. 1 \in 1..Len(l) /\ 2 \in 1..Len(l) /\ 1 \in 1..Len(b) /\ Len(b) \in 1..Len(b)
    BY <1>3, <1>4
  <1>9. AtEnd(t, b)
    BY <1>3, <1>4, <1>5, <1>6, <1>7, <1>8 DEF AtEnd
  <1> QED
    BY <1>9 DEF t, l

\* The text around a character of the value.
AtSign(t, b, x, next) ==
    /\ x \in MustEscape => /\ Len(t) >= Len(b) + 2 /\ Len(next) = Len(b) + 2
                        /\ t[Len(b) + 1] = Backslash /\ t[Len(b) + 2] = x
    /\ x \notin MustEscape => /\ Len(t) >= Len(b) + 1 /\ Len(next) = Len(b) + 1
                           /\ t[Len(b) + 1] = x

LEMMA SignPlaces ==
  ASSUME NEW b \in Seq(Characters), NEW x \in Characters, NEW l \in Seq(Characters)
  PROVE  AtSign((b \o Shown(x)) \o l, b, x, b \o Shown(x))
  <1> DEFINE w == Shown(x)
             bw == b \o w
             t == bw \o l
  <1>1. /\ w \in Seq(Characters)
        /\ x \in MustEscape => Len(w) = 2 /\ w[1] = Backslash /\ w[2] = x
        /\ x \notin MustEscape => Len(w) = 1 /\ w[1] = x
    BY ShownTyped
  <1> HIDE DEF w
  <1>2. bw \in Seq(Characters)
    BY <1>1, Behind
  <1>3. Len(bw) = Len(b) + Len(w)
    BY <1>1, Behind
  <1>4. \A k \in 1..Len(w) : bw[Len(b) + k] = w[k]
    BY <1>1, Behind
  <1> HIDE DEF bw
  <1>5. Len(t) = Len(bw) + Len(l)
    BY <1>2, Behind
  <1>6. \A k \in 1..Len(bw) : t[k] = bw[k]
    BY <1>2, Behind
  <1> HIDE DEF t
  <1>7. Len(b) \in Nat /\ Len(l) \in Nat
    OBVIOUS
  <1>8. CASE x \in MustEscape
    <2>0. Len(w) = 2 /\ Len(bw) = Len(b) + 2
      BY <1>1, <1>3, <1>8
    <2>1. /\ 1 \in 1..Len(w) /\ 2 \in 1..Len(w)
          /\ Len(b) + 1 \in 1..Len(bw) /\ Len(b) + 2 \in 1..Len(bw)
      BY <1>7, <2>0
    <2>2. AtSign(t, b, x, bw)
      BY <1>1, <1>3, <1>4, <1>5, <1>6, <1>7, <1>8, <2>0, <2>1 DEF AtSign
    <2> QED
      BY <2>2 DEF t, bw, w
  <1>9. CASE x \notin MustEscape
    <2>0. Len(w) = 1 /\ Len(bw) = Len(b) + 1
      BY <1>1, <1>3, <1>9
    <2>1. 1 \in 1..Len(w) /\ Len(b) + 1 \in 1..Len(bw)
      BY <1>7, <2>0
    <2>2. AtSign(t, b, x, bw)
      BY <1>1, <1>3, <1>4, <1>5, <1>6, <1>7, <1>9, <2>0, <2>1 DEF AtSign
    <2> QED
      BY <2>2 DEF t, bw, w
  <1> QED
    BY <1>8, <1>9

\* Where the scan of a text that begins with v as it was written may stand:
\* at its beginning, between two characters of v, behind the closing quote, or
\* at its end.
Inside(v) ==
    \E p, r \in Seq(Characters) :
        v = p \o r /\ val = p /\ siter = Len(Begun(p)) + 1

Reading(v) ==
    \/ closed = "none" /\ ~has_quote /\ val = <<>> /\ siter = 1
    \/ closed = "none" /\ has_quote /\ Inside(v)
    \/ closed = "none" /\ ~has_quote /\ val = v /\ siter = Len(Begun(v)) + 2
    \/ closed = "yes" /\ val = v

Careful(v) == v # <<>> => Last(v) # Backslash

QuoteTypes ==
    /\ behind \in Inputs /\ inp \in Seq(Characters)
    /\ siter \in Nat \ {0} /\ val \in Seq(Characters)
    /\ has_quote \in BOOLEAN /\ closed \in {"none", "yes", "no"}

QuoteInv ==
    /\ QuoteTypes
    /\ \E characters \in Names : inp = Passed(behind, characters)
    /\ \A v \in Values, after \in Seq(Characters) :
          Careful(v) /\ inp = Begun(v) \o Ending(after) => Reading(v)

Regrouped(q, x, y, e) == (q \o (x \o y)) \o e = (q \o x) \o (y \o e)

LEMMA Regroup ==
  ASSUME NEW q \in Seq(Characters), NEW x \in Seq(Characters),
         NEW y \in Seq(Characters), NEW e \in Seq(Characters)
  PROVE  Regrouped(q, x, y, e)
  <1> DEFINE qx == q \o x
  <1>1. qx \in Seq(Characters)
    BY ConcatProperties
  <1>2. q \o (x \o y) = qx \o y
    BY CharactersConcat
  <1> HIDE DEF qx
  <1>3. (qx \o y) \o e = qx \o (y \o e)
    BY <1>1, CharactersConcat
  <1> QED
    BY <1>2, <1>3 DEF Regrouped, qx

\* A value in two parts, in the text.
Spread(p, r, after) ==
    LET rest == Body(r) \o Ending(after)
    IN  rest \in Seq(Characters) /\ Begun(p \o r) \o Ending(after) = Begun(p) \o rest

LEMMA SpreadOut ==
  ASSUME NEW p \in Seq(Characters), NEW r \in Seq(Characters),
         NEW after \in Seq(Characters)
  PROVE  Spread(p, r, after)
  <1> DEFINE q == <<Quote>>
             x == Body(p)
             y == Body(r)
             e == Ending(after)
  <1>1. e \in Seq(Characters)
    <2>1. <<Quote, Semicolon>> \in Seq(Characters)
      BY SignsDiffer
    <2> QED
      BY <2>1, ConcatProperties DEF Ending
  <1>2. q \in Seq(Characters) /\ x \in Seq(Characters) /\ y \in Seq(Characters)
    BY SignsDiffer, BodyTyped
  <1>3. Joined(p, r)
    BY BodyConcat
  <1>4. Begun(p) = q \o x /\ Begun(p \o r) = q \o (x \o y)
    BY <1>3 DEF Joined, Begun
  <1> HIDE DEF q, x, y, e
  <1>5. y \o e \in Seq(Characters)
    BY <1>1, <1>2, ConcatProperties
  <1>6. (q \o (x \o y)) \o e = (q \o x) \o (y \o e)
    <2>1. Regrouped(q, x, y, e)
      BY <1>1, <1>2, Regroup
    <2> QED
      BY <2>1 DEF Regrouped
  <1> QED
    BY <1>4, <1>5, <1>6 DEF Spread, y, e

\* A value that a text begins with, as it was written, is read on by every step.
LEMMA ReadStep ==
  ASSUME QuoteTypes, QuoteNext, NEW v \in Seq(Characters), NEW after \in Seq(Characters),
         Careful(v), inp = Begun(v) \o Ending(after), Reading(v)
  PROVE  Reading(v)'
  <1> DEFINE b == Begun(v)
  <1>1. /\ siter \in Nat /\ has_quote \in BOOLEAN
        /\ Quote # Semicolon /\ Quote # Backslash /\ Semicolon # Backslash
    BY SignsDiffer DEF QuoteTypes
  <1>2. Bounded(b)
    BY BegunBounded DEF Careful
  <1>3. AtEnd(inp, b)
    <2> HIDE DEF b
    <2>1. AtEnd(b \o Ending(after), b)
      BY <1>2, EndPlaces
    <2> QED
      BY <2>1 DEF b
  <1>4. Len(b) \in Nat /\ Len(b) > 0
    BY <1>2 DEF Bounded
  <1>5. b' = b /\ v' = v
    OBVIOUS
  <1> HIDE DEF b
  <1>6. CASE closed = "none" /\ ~has_quote /\ val = <<>> /\ siter = 1
    <2>1. Here = Quote /\ ~Escaped /\ ~(siter > Len(inp))
      BY <1>3, <1>4, <1>6 DEF AtEnd, Here, Escaped
    <2>2. has_quote' = TRUE /\ siter' = 2 /\ val' = <<>> /\ closed' = "none"
      <3>1. TurnQuote
        BY <1>1, <1>6, <2>1 DEF QuoteNext, Escape, EndLine, Copy, EndText
      <3>2. has_quote' = TRUE /\ val' = <<>> /\ closed' = "none"
        BY <1>6, <2>1, <3>1, Zenon DEF TurnQuote
      <3>3. siter' = 2
        BY <1>6, <3>1 DEF TurnQuote
      <3> QED
        BY <3>2, <3>3
    <2>3. Len(Begun(<<>>)) = 1
      <3>1. BegunMore(v, Quote)
        BY SignsDiffer, BegunTyped
      <3>2. Len(<<Quote>>) = 1
        OBVIOUS
      <3> QED
        BY <3>1, <3>2 DEF BegunMore
    <2>4. v = <<>> \o v /\ <<>> \in Seq(Characters)
      BY ConcatEmptySeq
    <2>5. Inside(v)'
      <3> DEFINE e == <<>>
      <3>1. Len(Begun(e)) = 1 /\ v = e \o v /\ e \in Seq(Characters) /\ val' = e
        BY <2>2, <2>3, <2>4
      <3> HIDE DEF e
      <3>2. siter' = Len(Begun(e)) + 1
        BY <2>2, <3>1
      <3> QED
        BY <3>1, <3>2 DEF Inside
    <2> QED
      BY <2>2, <2>5 DEF Reading
  <1>7. CASE closed = "none" /\ ~has_quote /\ val = v /\ siter = Len(b) + 2
    <2>1. siter - 1 = Len(b) + 1
      BY <1>4, <1>7
    <2>2. Here = Semicolon /\ ~Escaped /\ ~(siter > Len(inp))
      BY <1>1, <1>3, <1>4, <1>7, <2>1 DEF AtEnd, Here, Escaped
    <2>3. closed' = "yes" /\ val' = v
      BY <1>1, <1>7, <2>2
         DEF QuoteNext, Escape, TurnQuote, EndLine, Copy, EndText
    <2> QED
      BY <2>3 DEF Reading
  <1>8. CASE closed = "yes" /\ val = v
    BY <1>8 DEF QuoteNext, Escape, TurnQuote, EndLine, Copy, EndText, Going
  <1>9. CASE closed = "none" /\ has_quote /\ Inside(v)
    <2>1. PICK p \in Seq(Characters), r \in Seq(Characters) :
             v = p \o r /\ val = p /\ siter = Len(Begun(p)) + 1
      BY <1>9 DEF Inside
    <2>2. CASE r = <<>>
      <3>1. p = v
        BY <2>1, <2>2, ConcatEmptySeq
      <3>2. siter = Len(b) + 1 /\ siter - 1 = Len(b)
        <4>1. siter = Len(b) + 1
          BY <2>1, <3>1 DEF b
        <4> QED
          BY <1>4, <4>1
      <3>3. Here = Quote /\ ~Escaped /\ ~(siter > Len(inp))
        BY <1>1, <1>3, <1>4, <3>2, SMTT(20) DEF AtEnd, Here, Escaped
      <3>4. has_quote' = FALSE /\ siter' = siter + 1 /\ val' = v /\ closed' = "none"
        BY <1>1, <1>9, <2>1, <3>1, <3>3
           DEF QuoteNext, Escape, TurnQuote, EndLine, Copy, EndText
      <3>5. siter' = Len(b) + 2
        BY <1>4, <3>2, <3>4
      <3> QED
        BY <3>4, <3>5 DEF Reading, b
    <2>3. CASE r # <<>>
      <3> DEFINE x == Head(r)
                 t == Tail(r)
                 px == Append(p, x)
                 w == Shown(x)
                 B == Begun(p)
                 L == Body(t) \o Ending(after)
      <3>1. x \in Characters /\ t \in Seq(Characters) /\ r = <<x>> \o t
        BY <2>3
      <3> HIDE DEF x, t
      <3>2. px \in Seq(Characters) /\ v = px \o t
        <4>1. <<x>> \in Seq(Characters)
          BY <3>1
        <4>2. px = p \o <<x>>
          BY <3>1, AppendIsConcat
        <4>3. (p \o <<x>>) \o t = p \o (<<x>> \o t)
          BY <3>1, <4>1, CharactersConcat
        <4> QED
          BY <2>1, <3>1, <4>2, <4>3, AppendProperties
      <3>3. BegunMore(p, x)
        BY <3>1, BegunTyped
      <3>4. B \in Seq(Characters) /\ Begun(px) = B \o w
        BY <3>3 DEF BegunMore
      <3>5. L \in Seq(Characters) /\ inp = (B \o w) \o L
        <4>1. Spread(px, t, after)
          BY <3>1, <3>2, SpreadOut
        <4> QED
          BY <3>2, <3>4, <4>1 DEF Spread
      <3>6. AtSign(inp, B, x, B \o w)
        <4> HIDE DEF B, L
        <4> QED
          BY <3>1, <3>4, <3>5, SignPlaces
      <3>7. Len(B) \in Nat /\ siter = Len(B) + 1
        BY <2>1, <3>4
      <3> HIDE DEF B, w, L
      <3>8. CASE x \in MustEscape
        <4>1. /\ Len(inp) >= Len(B) + 2 /\ Len(B \o w) = Len(B) + 2
              /\ inp[Len(B) + 1] = Backslash /\ inp[Len(B) + 2] = x
          BY <3>6, <3>8 DEF AtSign
        <4>2. Len(inp) \in Nat
          BY <1>3 DEF AtEnd
        <4>3. Here = Backslash
          BY <3>7, <4>1 DEF Here
        <4>4. siter + 1 = Len(B) + 2 /\ siter < Len(inp)
          BY <3>7, <4>1, <4>2
        <4>5. Following = x
          BY <4>1, <4>4 DEF Following
        <4>6. x \in Specials
          BY <3>8 DEF Specials, MustEscape
        <4>7. /\ val' = px /\ siter' = siter + 2
              /\ has_quote' = has_quote /\ closed' = closed
          <5>1. Escape
            <6>1. siter \in Nat /\ ~(siter > Len(inp))
              BY <1>1, <4>2, <4>4
            <6> QED
              BY <1>1, <4>3, <6>1 DEF QuoteNext, TurnQuote, EndLine, Copy, EndText
          <5> QED
            BY <2>1, <4>5, <4>6, <5>1 DEF Escape
        <4>8. siter' = Len(B \o w) + 1
          BY <3>7, <4>1, <4>7
        <4>9. Inside(v)'
          BY <3>1, <3>2, <3>4, <4>7, <4>8 DEF Inside
        <4> QED
          BY <1>9, <4>7, <4>9 DEF Reading
      <3>9. CASE x \notin MustEscape
        <4>1. /\ Len(inp) >= Len(B) + 1 /\ Len(B \o w) = Len(B) + 1
              /\ inp[Len(B) + 1] = x
          BY <3>6, <3>9 DEF AtSign
        <4>2. Len(inp) \in Nat
          BY <1>3 DEF AtEnd
        <4>3. Here = x /\ x # Backslash /\ x # Quote /\ x # Semicolon
          BY <3>7, <3>9, <4>1 DEF Here, MustEscape
        <4>4. ~(siter > Len(inp))
          BY <3>7, <4>1, <4>2
        <4>5. /\ val' = px /\ siter' = siter + 1
              /\ has_quote' = has_quote /\ closed' = closed
          BY <1>1, <1>9, <2>1, <4>3, <4>4
             DEF QuoteNext, Escape, TurnQuote, EndLine, Copy, EndText
        <4>6. siter' = Len(B \o w) + 1
          BY <3>7, <4>1, <4>5
        <4>7. Inside(v)'
          BY <3>1, <3>2, <3>4, <4>5, <4>6 DEF Inside
        <4> QED
          BY <1>9, <4>5, <4>7 DEF Reading
      <3> QED
        BY <3>8, <3>9
    <2> QED
      BY <2>2, <2>3
  <1> QED
    BY <1>6, <1>7, <1>8, <1>9 DEF Reading, b

LEMMA TypesStep ==
  ASSUME QuoteTypes, QuoteNext
  PROVE  QuoteTypes'
  <1>1. inp \in Seq(Characters) /\ Len(inp) \in Nat /\ siter \in Nat /\ siter > 0
    BY DEF QuoteTypes
  <1>2. Quote \in Characters /\ Semicolon \in Characters /\ Backslash \in Characters
    BY SignsDiffer
  <1>3. siter <= Len(inp) => Here \in Characters
    BY <1>1 DEF Here
  <1>4. CASE Escape
    <2>1. Following \in Specials => Following \in Characters
      BY <1>2 DEF Specials
    <2>2. val' \in Seq(Characters)
      BY <1>4, <2>1, AppendProperties DEF Escape, QuoteTypes
    <2>3. siter' \in Nat \ {0}
      BY <1>1, <1>4 DEF Escape
    <2> QED
      BY <1>4, <2>2, <2>3 DEF Escape, QuoteTypes
  <1>5. CASE TurnQuote
    <2>1. siter' \in Nat \ {0}
      BY <1>1, <1>5 DEF TurnQuote
    <2>2. has_quote' \in BOOLEAN
      BY <1>5, Zenon DEF TurnQuote, QuoteTypes
    <2> QED
      BY <1>5, <2>1, <2>2 DEF TurnQuote, QuoteTypes
  <1>6. CASE EndLine
    <2>1. siter' \in Nat \ {0}
      BY <1>1, <1>6 DEF EndLine
    <2>2. closed' \in {"none", "yes", "no"}
      BY <1>6 DEF EndLine, QuoteTypes
    <2> QED
      BY <1>6, <2>1, <2>2 DEF EndLine, QuoteTypes
  <1>7. CASE Copy
    <2>1. siter' \in Nat \ {0}
      BY <1>1, <1>7 DEF Copy
    <2>2. val' \in Seq(Characters)
      BY <1>3, <1>7, AppendProperties DEF Copy, Going, QuoteTypes
    <2> QED
      BY <1>7, <2>1, <2>2 DEF Copy, QuoteTypes
  <1>8. CASE EndText
    <2>1. closed' \in {"none", "yes", "no"}
      BY <1>8 DEF EndText
    <2> QED
      BY <1>8, <2>1 DEF EndText, QuoteTypes
  <1> QED
    BY <1>4, <1>5, <1>6, <1>7, <1>8 DEF QuoteNext

\* The first semicolon, and what is passed.
LEMMA PassedPlaces ==
  ASSUME NEW s \in Inputs, NEW k \in Names
  PROVE  LET e == EntryEnd(s)
             t == Passed(s, k)
         IN  /\ s \in Seq(Characters)
             /\ e \in 1..Len(s) /\ s[e] = Semicolon
             /\ \A i \in 1..Len(s) : s[i] = Semicolon => e <= i
             /\ t \in Seq(Characters) /\ Len(t) >= e /\ Len(t) <= Len(s)
             /\ \A i \in 1..Len(t) : t[i] = s[i]
  <1> DEFINE S == Semicolons(s)
             e == EntryEnd(s)
             T == {Len(s), k + e}
             len == Min(T)
             t == Passed(s, k)
  <1>1. s \in Seq(Characters) /\ Len(s) \in Nat /\ DOMAIN s = 1..Len(s) /\ k \in Nat /\ k > 0
    <2>1. s \in Seq(Characters)
      BY QuoteParams
    <2>2. k \in Nat \ {0}
      BY QuoteParams
    <2> QED
      BY <2>1, <2>2
  <1>2. S = {i \in 1..Len(s) : s[i] = Semicolon} /\ S # {} /\ S \subseteq Nat
    BY <1>1, QuoteParams DEF Semicolons
  <1>3. e \in S /\ \A i \in S : e <= i
    <2> HIDE DEF S
    <2> QED
      BY <1>2, FirstPlace DEF EntryEnd, S
  <1> HIDE DEF S, e
  <1>4. e \in 1..Len(s) /\ s[e] = Semicolon /\ \A i \in 1..Len(s) : s[i] = Semicolon => e <= i
    BY <1>2, <1>3
  <1>5. len \in T /\ \A y \in T : len <= y
    <2>1. T \subseteq Nat /\ T # {}
      BY <1>1, <1>4
    <2> HIDE DEF T
    <2> QED
      BY <2>1, FirstPlace
  <1>6. len \in 1..Len(s) /\ len >= e
    BY <1>1, <1>4, <1>5
  <1> HIDE DEF len, T
  <1>7. t = SubSeq(s, 1, len)
    BY DEF Passed, len, T, e
  <1> HIDE DEF t
  <1>8. 1 \in Int /\ len \in Int /\ 1 <= len /\ len - 1 + 1 = len /\ \A i \in 1..len : s[i] \in Characters
    BY <1>1, <1>6
  <1>9. t \in Seq(Characters)
    BY <1>7, <1>8, SubSeqProperties
  <1>10. Len(t) = len
    <2>1. Len(t) = IF 1 <= len THEN len - 1 + 1 ELSE 0
      BY <1>7, <1>8, SubSeqProperties
    <2> QED
      BY <1>8, <2>1
  <1>11. \A i \in 1..len : t[i] = s[i]
    <2>1. \A i \in 1..(len - 1 + 1) : t[i] = s[1 + i - 1]
      BY <1>7, <1>8, SubSeqProperties
    <2>2. \A i \in 1..len : 1 + i - 1 = i
      BY <1>8
    <2> QED
      BY <1>8, <2>1, <2>2
  <1> QED
    BY <1>1, <1>4, <1>6, <1>9, <1>10, <1>11 DEF e, t

\* A body has no semicolon that its value does not have.
LEMMA BodyNoSemicolon ==
  ASSUME NEW v \in Seq(Characters), \A i \in 1..Len(v) : v[i] # Semicolon
  PROVE  \A i \in 1..Len(Body(v)) : Body(v)[i] # Semicolon
  <1> DEFINE Free(s) == \A i \in 1..Len(s) : s[i] # Semicolon
             Q == {s \in Seq(Characters) : Free(s) => Free(Body(s))}
  <1>1. <<>> \in Q
    <2>1. Body(<<>>) = <<>> /\ <<>> \in Seq(Characters)
      BY BodyTyped
    <2> QED
      BY <2>1
  <1>2. ASSUME NEW s \in Seq(Characters), NEW x \in Characters, s \in Q
        PROVE  Append(s, x) \in Q
    <2> DEFINE sx == Append(s, x)
               B == Body(s)
               C == Shown(x)
    <2>1. sx \in Seq(Characters) /\ Len(sx) = Len(s) + 1 /\ sx[Len(s) + 1] = x
          /\ Len(s) \in Nat /\ \A i \in 1..Len(s) : sx[i] = s[i]
      BY AppendProperties
    <2>2. B \in Seq(Characters) /\ Body(sx) = B \o C
      BY BodyMore DEF BodyWell
    <2> SUFFICES ASSUME Free(sx) PROVE Free(Body(sx))
      BY <2>1
    <2> HIDE DEF sx
    <2>3. Free(s) /\ x # Semicolon
      BY <2>1
    <2>4. Free(B)
      BY <1>2, <2>3
    <2>5. C \in Seq(Characters) /\ Free(C)
      <3>1. C = <<x>> \/ C = <<Backslash, x>>
        BY DEF Shown
      <3>2. Backslash \in Characters /\ Backslash # Semicolon
        BY SignsDiffer
      <3>3. x \in Characters /\ x # Semicolon
        BY <2>3
      <3> HIDE DEF C
      <3>4. CASE C = <<x>>
        BY <3>3, <3>4
      <3>5. CASE C = <<Backslash, x>>
        BY <3>2, <3>3, <3>5
      <3> QED
        BY <3>1, <3>4, <3>5
    <2> HIDE DEF B, C
    <2>6. /\ Len(B \o C) = Len(B) + Len(C) /\ Len(B) \in Nat /\ Len(C) \in Nat
          /\ \A i \in 1..(Len(B) + Len(C)) : (B \o C)[i] = IF i <= Len(B) THEN B[i] ELSE C[i - Len(B)]
      BY <2>2, <2>5, ConcatProperties
    <2>7. ASSUME NEW i \in 1..(Len(B) + Len(C)) PROVE (B \o C)[i] # Semicolon
      <3>1. CASE i <= Len(B)
        BY <2>4, <2>6, <3>1
      <3>2. CASE ~(i <= Len(B))
        <4>1. i - Len(B) \in 1..Len(C)
          BY <2>6, <3>2
        <4> QED
          BY <2>5, <2>6, <3>2, <4>1
      <3> QED
        BY <3>1, <3>2
    <2> QED
      BY <2>2, <2>6, <2>7
  <1>3. Seq(Characters) \subseteq Q
    <2> HIDE DEF Q
    <2> QED
      BY <1>1, <1>2, TextInduction
  <1> QED
    BY <1>3

\* What is passed of a line that begins with a value holds the value, and the
\* line is read on behind it.
LEMMA WrittenPassed ==
  ASSUME NEW s \in Inputs, NEW t, \E k \in Names : t = Passed(s, k),
         NEW v \in Seq(Characters), Semicolons(v) = {}, IsPrefix(Written(v), s)
  PROVE  EntryEnd(s) = Len(Written(v)) /\ IsPrefix(Written(v), t)
  <1> DEFINE w == Written(v)
             b == Begun(v)
             q == <<Quote, Semicolon>>
             e == EntryEnd(s)
             len == Len(w)
  <1>1. q \in Seq(Characters) /\ Len(q) = 2 /\ q[1] = Quote /\ q[2] = Semicolon
        /\ Quote # Semicolon
    BY SignsDiffer DEF Quote, Semicolon
  <1>2. b \in Seq(Characters) /\ w = b \o q
    <2>1. BegunMore(v, Quote)
      BY SignsDiffer, BegunTyped
    <2> QED
      BY <2>1 DEF BegunMore, Written, Begun
  <1>3. \A i \in 1..Len(b) : b[i] # Semicolon
    <2> DEFINE B == Body(v)
               o == <<Quote>>
    <2>1. \A i \in 1..Len(v) : v[i] # Semicolon
      BY DEF Semicolons
    <2>2. B \in Seq(Characters) /\ \A i \in 1..Len(B) : B[i] # Semicolon
      BY <2>1, BodyTyped, BodyNoSemicolon
    <2>3. o \in Seq(Characters) /\ Len(o) = 1 /\ o[1] = Quote
      BY SignsDiffer
    <2>4. b = o \o B
      BY DEF Begun
    <2> HIDE DEF o, B, b
    <2>5. /\ Len(b) = 1 + Len(B) /\ Len(B) \in Nat
          /\ \A i \in 1..(1 + Len(B)) : b[i] = IF i <= 1 THEN o[i] ELSE B[i - 1]
      <3>1. /\ Len(b) = Len(o) + Len(B)
            /\ \A i \in 1..(Len(o) + Len(B)) : b[i] = IF i <= Len(o) THEN o[i] ELSE B[i - Len(o)]
        BY <2>2, <2>3, <2>4, ConcatProperties
      <3> QED
        BY <2>2, <2>3, <3>1
    <2>6. ASSUME NEW i \in 1..Len(b) PROVE b[i] # Semicolon
      <3>1. CASE i <= 1
        BY <1>1, <2>3, <2>5, <3>1
      <3>2. CASE ~(i <= 1)
        <4>1. i - 1 \in 1..Len(B)
          BY <2>5, <3>2
        <4> QED
          BY <2>2, <2>5, <3>2, <4>1
      <3> QED
        BY <3>1, <3>2
    <2> QED
      BY <2>6
  <1> HIDE DEF b, q, w
  <1>4. /\ len = Len(b) + 2 /\ Len(b) \in Nat /\ w \in Seq(Characters)
        /\ \A i \in 1..(Len(b) + 2) : w[i] = IF i <= Len(b) THEN b[i] ELSE q[i - Len(b)]
    <2>1. /\ w \in Seq(Characters) /\ Len(w) = Len(b) + Len(q)
          /\ \A i \in 1..(Len(b) + Len(q)) : w[i] = IF i <= Len(b) THEN b[i] ELSE q[i - Len(b)]
      BY <1>1, <1>2, ConcatProperties
    <2> QED
      BY <1>1, <1>2, <2>1
  <1>5. w[len] = Semicolon /\ \A i \in 1..(len - 1) : w[i] # Semicolon
    <2>1. len \in 1..(Len(b) + 2) /\ ~(len <= Len(b)) /\ len - Len(b) = 2
      BY <1>4
    <2>2. w[len] = Semicolon
      BY <1>1, <1>4, <2>1
    <2>3. ASSUME NEW i \in 1..(len - 1) PROVE w[i] # Semicolon
      <3>1. i \in 1..(Len(b) + 2)
        BY <1>4
      <3>2. CASE i <= Len(b)
        BY <1>3, <1>4, <3>1, <3>2
      <3>3. CASE ~(i <= Len(b))
        <4>1. i - Len(b) = 1
          BY <1>4, <3>3
        <4> QED
          BY <1>1, <1>4, <3>1, <3>3, <4>1
      <3> QED
        BY <3>2, <3>3
    <2> QED
      BY <2>2, <2>3
  <1> HIDE DEF len
  <1>6. PICK k \in Names : t = Passed(s, k)
    OBVIOUS
  <1>7. /\ s \in Seq(Characters) /\ Len(s) \in Nat
        /\ e \in 1..Len(s) /\ s[e] = Semicolon
        /\ \A i \in 1..Len(s) : s[i] = Semicolon => e <= i
        /\ t \in Seq(Characters) /\ Len(t) >= e /\ Len(t) <= Len(s) /\ Len(t) \in Nat
        /\ \A i \in 1..Len(t) : t[i] = s[i]
    BY <1>6, PassedPlaces
  <1> HIDE DEF e
  <1>8. len \in Nat /\ len >= 2 /\ len <= Len(s) /\ SubSeq(w, 1, len) = SubSeq(s, 1, len)
    BY <1>4 DEF IsPrefix, w, len
  <1>9. \A i \in 1..len : w[i] = s[i]
    <2>1. 1 \in Int /\ len \in Int /\ len - 1 + 1 = len /\ \A i \in 1..len : 1 + i - 1 = i
      BY <1>8
    <2>2. \A i \in 1..len : w[i] \in Characters /\ s[i] \in Characters
      BY <1>4, <1>7, <1>8 DEF len
    <2>3. \A i \in 1..(len - 1 + 1) : SubSeq(w, 1, len)[i] = w[1 + i - 1]
      BY <2>1, <2>2, SubSeqProperties
    <2>4. \A i \in 1..(len - 1 + 1) : SubSeq(s, 1, len)[i] = s[1 + i - 1]
      BY <2>1, <2>2, SubSeqProperties
    <2> QED
      BY <1>8, <2>1, <2>3, <2>4
  <1>10. e = len
    <2>1. s[len] = Semicolon /\ len \in 1..Len(s)
      BY <1>5, <1>8, <1>9
    <2>2. e <= len
      BY <1>7, <2>1
    <2>3. ~(e < len)
      <3> SUFFICES ASSUME e < len PROVE FALSE
        OBVIOUS
      <3>1. e \in 1..(len - 1) /\ e \in 1..len
        BY <1>7, <1>8
      <3> QED
        BY <1>5, <1>7, <1>9, <3>1
    <2> QED
      BY <1>7, <1>8, <2>2, <2>3
  <1>11. IsPrefix(w, t)
    <2>1. len <= Len(t)
      BY <1>7, <1>10
    <2>2. \A i \in 1..len : w[i] = t[i]
      BY <1>7, <1>8, <1>9, <2>1
    <2>3. SubSeq(w, 1, len) = SubSeq(t, 1, len)
      <3>1. 1 \in Int /\ len \in Int /\ len - 1 + 1 = len /\ \A i \in 1..len : 1 + i - 1 = i
        BY <1>8
      <3>2. \A i \in 1..len : w[i] \in Characters /\ t[i] \in Characters
        BY <1>4, <1>7, <1>8, <2>1, <2>2 DEF len
      <3> DEFINE x == SubSeq(w, 1, len)
                 y == SubSeq(t, 1, len)
      <3>3. x \in Seq(Characters)
        BY <3>1, <3>2, SubSeqProperties
      <3>4. y \in Seq(Characters)
        BY <3>1, <3>2, SubSeqProperties
      <3>5. Len(x) = IF 1 <= len THEN len - 1 + 1 ELSE 0
        BY <3>1, <3>2, SubSeqProperties
      <3>6. Len(y) = IF 1 <= len THEN len - 1 + 1 ELSE 0
        BY <3>1, <3>2, SubSeqProperties
      <3>7. \A i \in 1..(len - 1 + 1) : x[i] = w[1 + i - 1]
        BY <3>1, <3>2, SubSeqProperties
      <3>8. \A i \in 1..(len - 1 + 1) : y[i] = t[1 + i - 1]
        BY <3>1, <3>2, SubSeqProperties
      <3> HIDE DEF x, y
      <3>9. Len(x) = len /\ Len(y) = len /\ \A i \in 1..len : x[i] = y[i]
        BY <1>8, <2>2, <3>1, <3>5, <3>6, <3>7, <3>8
      <3>10. x = y
        BY <3>3, <3>4, <3>9, SeqEqual
      <3> QED
        BY <3>10 DEF x, y
    <2> QED
      BY <2>1, <2>3 DEF IsPrefix, len
  <1> QED
    BY <1>10, <1>11 DEF w, e, len

\* Of every value that the text begins with, as it was written, the scan has
\* read a part.
THEOREM QuoteInductive == QuoteSpec => []QuoteInv
  <1>1. QuoteInit => QuoteInv
    <2> SUFFICES ASSUME QuoteInit PROVE QuoteInv
      OBVIOUS
    <2>1. val \in Seq(Characters)
      <3>1. <<>> \in Seq(Characters)
        OBVIOUS
      <3> QED
        BY <3>1, Zenon DEF QuoteInit
    <2>2. QuoteTypes
      <3>1. has_quote \in BOOLEAN
        BY Zenon DEF QuoteInit
      <3>2. siter \in Nat \ {0} /\ behind \in Inputs /\ closed \in {"none", "yes", "no"}
        BY DEF QuoteInit
      <3>3. inp \in Seq(Characters)
        BY <3>2, PassedPlaces DEF QuoteInit
      <3> QED
        BY <2>1, <3>1, <3>2, <3>3 DEF QuoteTypes
    <2>3. \A v : Reading(v)
      BY DEF QuoteInit, Reading
    <2>4. \E characters \in Names : inp = Passed(behind, characters)
      BY DEF QuoteInit
    <2> QED
      BY <2>2, <2>3, <2>4 DEF QuoteInv
  <1>2. QuoteInv /\ [QuoteNext]_quoteVars => QuoteInv'
    <2> SUFFICES ASSUME QuoteInv, [QuoteNext]_quoteVars PROVE QuoteInv'
      OBVIOUS
    <2>1. CASE QuoteNext
      <3>1. QuoteTypes'
        BY <2>1, TypesStep DEF QuoteInv
      <3>2. inp' = inp /\ behind' = behind
        BY <2>1 DEF QuoteNext, Escape, TurnQuote, EndLine, Copy, EndText
      <3>3. ASSUME NEW v \in Values, NEW after \in Seq(Characters), Careful(v),
                   inp = Begun(v) \o Ending(after)
            PROVE  Reading(v)'
        <4>1. v \in Seq(Characters)
          BY QuoteParams
        <4>2. Reading(v) /\ QuoteTypes
          BY <3>3 DEF QuoteInv
        <4> QED
          BY <2>1, <3>3, <4>1, <4>2, ReadStep
      <3> QED
        BY <3>1, <3>2, <3>3 DEF QuoteInv
    <2>2. CASE UNCHANGED quoteVars
      BY <2>2 DEF quoteVars, QuoteInv, QuoteTypes, Reading, Inside
    <2> QED
      BY <2>1, <2>2
  <1> QED
    BY <1>1, <1>2, PTL DEF QuoteSpec

\* A value without a semicolon, written in quotes with its quotes and
\* backslashes escaped, is read as it was meant, and the line is read on behind
\* it (getQuotedContent, read).
THEOREM AlwaysAsWritten == QuoteSpec => []ValuesReadAsWritten
  <1>1. QuoteInv => ValuesReadAsWritten
    <2> SUFFICES ASSUME QuoteInv, closed # "none", NEW v \in Values, IsPrefix(Written(v), behind),
                        Semicolons(v) = {}, v # <<>> => Last(v) # Backslash
                 PROVE  val = v /\ closed = "yes" /\ EntryEnd(behind) = Len(Written(v))
      BY DEF ValuesReadAsWritten
    <2> DEFINE w == Written(v)
               q == <<Quote, Semicolon>>
               b == Begun(v)
               len == Len(w)
               after == SubSeq(inp, len + 1, Len(inp))
    <2>1. v \in Seq(Characters) /\ inp \in Seq(Characters)
      BY QuoteParams DEF QuoteInv, QuoteTypes
    <2>2. q \in Seq(Characters)
      BY SignsDiffer
    <2>3. w = b \o q /\ b \in Seq(Characters)
      <3>1. BegunMore(v, Quote)
        BY <2>1, SignsDiffer, BegunTyped
      <3> QED
        BY <3>1 DEF BegunMore, Written, Begun
    <2>13. EntryEnd(behind) = len /\ IsPrefix(w, inp)
      BY <2>1, WrittenPassed DEF QuoteInv, QuoteTypes
    <2> HIDE DEF w, q, b
    <2>4. w \in Seq(Characters)
      BY <2>2, <2>3, ConcatProperties
    <2>5. len \in Nat /\ len <= Len(inp) /\ SubSeq(w, 1, len) = SubSeq(inp, 1, len)
      BY <2>4, <2>13 DEF IsPrefix, w
    <2>6. SubSeq(w, 1, len) = w /\ SubSeq(inp, 1, Len(inp)) = inp
      BY <2>1, <2>4, SubSeqFull
    <2> HIDE DEF len
    <2>7. SubSeq(inp, 1, len) \o SubSeq(inp, len + 1, Len(inp)) = SubSeq(inp, 1, Len(inp))
      <3>1. /\ 1 \in 1..(Len(inp) + 1) /\ len \in (1 - 1)..Len(inp)
            /\ Len(inp) \in len..Len(inp)
        BY <2>1, <2>5
      <3> QED
        BY <2>1, <3>1, ConcatAdjacentSubSeq
    <2>8. after \in Seq(Characters)
      <3>1. len + 1 \in Int /\ Len(inp) \in Int
        BY <2>1, <2>5
      <3>2. \A i \in (len + 1)..Len(inp) : inp[i] \in Characters
        BY <2>1, <2>5
      <3> QED
        BY <3>1, <3>2, SubSeqProperties
    <2>9. inp = (b \o q) \o after
      BY <2>3, <2>5, <2>6, <2>7
    <2> HIDE DEF after
    <2>10. (b \o q) \o after = b \o (q \o after)
      BY <2>2, <2>3, <2>8, CharactersConcat
    <2>11. inp = Begun(v) \o Ending(after)
      BY <2>9, <2>10 DEF b, q, Ending
    <2>12. Reading(v)
      BY <2>8, <2>11 DEF QuoteInv, Careful
    <2> QED
      BY <2>12, <2>13 DEF Reading, len, w
  <1> QED
    BY <1>1, QuoteInductive, PTL

-----------------------------------------------------------------------------
(* Modules *)

StateType ==
    [modules : SUBSET Files,
     handler : [Libraries -> {"null", "live", "deleted"}],
     commands : SUBSET Libraries,
     hooks : Nat,
     history : [Nicks -> Nat],
     left : [Nicks -> Nat],
     fault : Faults]

\* What is registered is backed by a mapped library.
NotStale(st) ==
    /\ \A l \in st.commands : Mapped(st.modules, l)
    /\ st.hooks > 0 => Mapped(st.modules, "whowas")

\* One name per library.
Distinct(M) == \A f, g \in M : Library[f] = Library[g] => f = g

\* What a set of modules with distinct libraries is accompanied by: their
\* commands, a live handler each, one hook of whowas, and its history.
Exact(st) ==
    /\ \A l \in Libraries :
          /\ l \in st.commands <=> Mapped(st.modules, l)
          /\ st.handler[l] = IF Mapped(st.modules, l) THEN "live" ELSE "null"
    /\ st.hooks = IF Mapped(st.modules, "whowas") THEN 1 ELSE 0
    /\ st.history = st.left

IInv ==
    /\ todo \in Seq(Files)
    /\ aliased \in BOOLEAN
    /\ State \in StateType
    /\ NotStale(State)
    /\ ~aliased => Distinct(modules) /\ Exact(State)
    /\ fault = "deleted twice" => aliased

-----------------------------------------------------------------------------
LEMMA LibraryType == \A f \in Files : Library[f] \in Libraries
  BY DEF Libraries

LEMMA NoHistoryType == NoHistory \in [Nicks -> Nat]
  BY DEF NoHistory

LEMMA LoadedType ==
  ASSUME NEW st \in StateType, NEW f \in Files
  PROVE  Loaded(st, f) \in StateType
  BY LibraryType DEF Loaded, StateType

LEMMA UnloadedType ==
  ASSUME NEW st \in StateType, NEW f \in Files
  PROVE  Unloaded(st, f) \in StateType
  BY LibraryType, NoHistoryType
  DEF Unloaded, Unregistered, Disconnected, StateType, Faults

\* Returning changes nothing but the fault.
LEMMA ReturnedFields ==
  ASSUME NEW st \in StateType, NEW l, NEW q, q = Returned(st, l)
  PROVE  /\ q \in StateType
         /\ q.modules = st.modules
         /\ q.handler = st.handler
         /\ q.commands = st.commands
         /\ q.hooks = st.hooks
         /\ q.history = st.history
         /\ q.left = st.left
         /\ q.fault = "deleted twice" => st.fault = "deleted twice"
  <1>1. "code unmapped" \in Faults
    BY DEF Faults
  <1>2. CASE q = st
    BY <1>2
  <1>3. CASE q = [st EXCEPT !.fault = "code unmapped"]
    BY <1>1, <1>3 DEF StateType
  <1> QED
    BY <1>2, <1>3 DEF Returned

-----------------------------------------------------------------------------
(* Code that is registered is mapped. *)

LEMMA LoadedNotStale ==
  ASSUME NEW st \in StateType, NEW f \in Files, NotStale(st),
         NEW q, q = Loaded(st, f)
  PROVE  NotStale(q)
  BY DEF NotStale, Mapped, Loaded

\* The last name of a library takes its command and its hooks along; another
\* library keeps the names it had.
LEMMA UnloadedNotStale ==
  ASSUME NEW st \in StateType, NEW f \in Files, NotStale(st),
         NEW q, q = Unloaded(st, f)
  PROVE  NotStale(q)
  <1> DEFINE rest == st.modules \ {f}
  <1>1. /\ q.modules = rest
        /\ q.commands = st.commands \ {Library[f]}
        /\ q.hooks = IF Library[f] = "whowas" THEN 0 ELSE st.hooks
    BY DEF Unloaded, Unregistered, Disconnected
  <1>2. \A l : l # Library[f] /\ Mapped(st.modules, l) => Mapped(rest, l)
    BY DEF Mapped
  <1>3. \A l \in q.commands : Mapped(q.modules, l)
    BY <1>1, <1>2 DEF NotStale
  <1>4. q.hooks > 0 => Mapped(q.modules, "whowas")
    BY <1>1, <1>2 DEF NotStale
  <1> QED
    BY <1>3, <1>4 DEF NotStale

LEMMA ReturnedNotStale ==
  ASSUME NEW st \in StateType, NEW l, NotStale(st), NEW q, q = Returned(st, l)
  PROVE  NotStale(q)
  <1>1. /\ q.modules = st.modules /\ q.commands = st.commands
        /\ q.hooks = st.hooks
    BY ReturnedFields
  <1> QED
    BY <1>1 DEF NotStale

-----------------------------------------------------------------------------
(* One name per library: the tables are exact. *)

\* A library that had no name gets one, and all that goes with it.
LEMMA LoadedExact ==
  ASSUME NEW st \in StateType, NEW f \in Files, Exact(st),
         f \notin st.modules, Distinct(st.modules \cup {f}),
         NEW q, q = Loaded(st, f)
  PROVE  Exact(q)
  <1> DEFINE k == Library[f]
  <1>1. ~Mapped(st.modules, k)
    BY DEF Distinct, Mapped
  <1>2. \A l : Mapped(q.modules, l) <=> l = k \/ Mapped(st.modules, l)
    BY DEF Mapped, Loaded
  <1>3. ASSUME NEW l \in Libraries
        PROVE  /\ l \in q.commands <=> Mapped(q.modules, l)
               /\ q.handler[l] = IF Mapped(q.modules, l) THEN "live" ELSE "null"
    <2>1. q.handler[l] = IF l = k THEN "live" ELSE st.handler[l]
      BY DEF Loaded, StateType
    <2>2. l \in q.commands <=> l = k \/ l \in st.commands
      BY DEF Loaded
    <2> QED
      BY <1>2, <2>1, <2>2 DEF Exact
  <1>4. q.hooks = IF Mapped(q.modules, "whowas") THEN 1 ELSE 0
    <2>1. q.hooks = IF k = "whowas" THEN st.hooks + 1 ELSE st.hooks
      BY DEF Loaded
    <2> QED
      BY <1>1, <1>2, <2>1 DEF Exact
  <1>5. q.history = q.left
    BY DEF Exact, Loaded
  <1> QED
    BY <1>3, <1>4, <1>5 DEF Exact

\* The only name of a library goes, with its live handler.
LEMMA UnloadedExact ==
  ASSUME NEW st \in StateType, NEW f \in Files, Exact(st),
         f \in st.modules, Distinct(st.modules),
         NEW q, q = Unloaded(st, f)
  PROVE  Exact(q) /\ q.fault = st.fault
  <1> DEFINE k == Library[f]
             rest == st.modules \ {f}
  <1>1. ~Mapped(rest, k) /\ Mapped(st.modules, k) /\ k \in Libraries
    BY LibraryType DEF Distinct, Mapped
  <1>2. \A l : Mapped(rest, l) <=> l # k /\ Mapped(st.modules, l)
    BY <1>1 DEF Mapped
  <1>3. q.modules = rest
    BY DEF Unloaded
  <1>4. ASSUME NEW l \in Libraries
        PROVE  /\ l \in q.commands <=> Mapped(q.modules, l)
               /\ q.handler[l] = IF Mapped(q.modules, l) THEN "live" ELSE "null"
    <2>1. q.handler[l] = IF l = k THEN "null" ELSE st.handler[l]
      BY <1>1 DEF Unloaded, StateType
    <2>2. l \in q.commands <=> l # k /\ l \in st.commands
      BY DEF Unloaded, Unregistered
    <2> QED
      BY <1>2, <1>3, <2>1, <2>2 DEF Exact
  <1>5. q.hooks = IF Mapped(q.modules, "whowas") THEN 1 ELSE 0
    <2>1. q.hooks = IF k = "whowas" THEN 0 ELSE st.hooks
      BY DEF Unloaded, Disconnected
    <2> QED
      BY <1>1, <1>2, <1>3, <2>1 DEF Exact
  <1>6. q.history = q.left
    BY DEF Exact, Unloaded
  <1>7. q.fault = st.fault
    BY <1>1 DEF Exact, Unloaded
  <1> QED
    BY <1>4, <1>5, <1>6, <1>7 DEF Exact

LEMMA ReturnedExact ==
  ASSUME NEW st \in StateType, NEW l, Exact(st), NEW q, q = Returned(st, l)
  PROVE  Exact(q)
  <1>1. q.modules = st.modules /\ q.commands = st.commands
    BY ReturnedFields
  <1>2. q.hooks = st.hooks /\ q.handler = st.handler
    BY ReturnedFields
  <1>3. q.history = st.history /\ q.left = st.left
    BY ReturnedFields
  <1> QED
    BY <1>1, <1>2, <1>3 DEF Exact

-----------------------------------------------------------------------------
(* The invariant. *)

\* Only two names of one library can make a handler be deleted twice.
NoDoubleDelete == fault = "deleted twice" => aliased

LEMMA InvInit == Init => IInv
  <1> SUFFICES ASSUME Init PROVE IInv
    OBVIOUS
  <1>1. todo \in Seq(Files) /\ aliased \in BOOLEAN
    BY ModuleParams DEF Init
  <1>2. State \in StateType
    BY NoHistoryType DEF Init, State, StateType, Faults
  <1>3. NotStale(State)
    BY DEF Init, State, NotStale
  <1>4. Distinct(modules) /\ Exact(State)
    BY DEF Init, State, Distinct, Exact, Mapped
  <1>5. fault # "deleted twice"
    BY DEF Init
  <1> QED
    BY <1>1, <1>2, <1>3, <1>4, <1>5 DEF IInv

\* What a handler has to show of the record it ends with.
LEMMA BecomesInv ==
  ASSUME NEW st \in StateType, Becomes(st), aliased \in BOOLEAN,
         todo' \in Seq(Files), NotStale(st),
         ~aliased /\ Distinct(st.modules) => Exact(st),
         st.fault = "deleted twice" => aliased \/ ~Distinct(st.modules)
  PROVE  IInv'
  <1>1. State' = st
    BY DEF Becomes, State, StateType
  <1>2. modules' = st.modules /\ fault' = st.fault
    BY DEF Becomes
  <1>3. aliased' \in BOOLEAN
    BY DEF Becomes
  <1>4. ~aliased' <=> ~aliased /\ Distinct(st.modules)
    BY DEF Becomes, Distinct
  <1>5. State' \in StateType /\ NotStale(State')
    BY <1>1
  <1>6. ~aliased' => Distinct(modules') /\ Exact(State')
    BY <1>1, <1>2, <1>4
  <1>7. fault' = "deleted twice" => aliased'
    BY <1>2, <1>3, <1>4
  <1> QED
    BY <1>3, <1>5, <1>6, <1>7 DEF IInv

LEMMA StateFields ==
  /\ State.modules = modules /\ State.handler = handler
  /\ State.commands = commands /\ State.hooks = hooks
  /\ State.history = history /\ State.left = left /\ State.fault = fault
  BY DEF State

\* A library that is loaded, from a state in which the invariant holds.
LEMMA LoadsInv ==
  ASSUME NEW st \in StateType, NEW f \in Files, f \notin st.modules,
         Becomes(Loaded(st, f)), aliased \in BOOLEAN, todo' \in Seq(Files),
         NotStale(st), ~aliased => Exact(st), ~aliased => st.fault # "deleted twice"
  PROVE  IInv'
  <1> DEFINE q == Loaded(st, f)
  <1>1. q \in StateType
    BY LoadedType
  <1>2. NotStale(q)
    BY LoadedNotStale
  <1>3. q.modules = st.modules \cup {f} /\ q.fault = st.fault
    BY DEF Loaded
  <1>4. ~aliased /\ Distinct(q.modules) => Exact(q)
    BY <1>3, LoadedExact
  <1>5. q.fault = "deleted twice" => aliased \/ ~Distinct(q.modules)
    BY <1>3
  <1> HIDE DEF q
  <1> QED
    BY <1>1, <1>2, <1>4, <1>5, BecomesInv DEF q

\* What a module leaves when it is unloaded and the handler of k returns.
LEMMA UnloadsInv ==
  ASSUME IInv, NEW f \in Files, f \in modules, fault = "none", NEW k
  PROVE  LET q == Returned(Unloaded(State, f), k)
         IN  /\ q \in StateType
             /\ NotStale(q)
             /\ ~aliased => Exact(q) /\ q.fault # "deleted twice"
             /\ q.modules = modules \ {f}
  <1> DEFINE u == Unloaded(State, f)
             q == Returned(u, k)
  <1>1. State \in StateType /\ NotStale(State) /\ f \in State.modules
    BY StateFields DEF IInv
  <1>2. u \in StateType /\ NotStale(u)
    BY <1>1, UnloadedType, UnloadedNotStale
  <1>3. u.modules = modules \ {f}
    BY StateFields DEF Unloaded
  <1>4. ~aliased => Exact(u) /\ u.fault = "none"
    BY <1>1, StateFields, UnloadedExact DEF IInv
  <1> HIDE DEF u
  <1>5. /\ q \in StateType /\ q.modules = u.modules
        /\ q.fault = "deleted twice" => u.fault = "deleted twice"
    BY <1>2, ReturnedFields
  <1>6. NotStale(q)
    BY <1>2, ReturnedNotStale
  <1>7. ~aliased => Exact(q)
    BY <1>2, <1>4, ReturnedExact
  <1>8. ~aliased => q.fault # "deleted twice"
    BY <1>4, <1>5
  <1> QED
    BY <1>3, <1>5, <1>6, <1>7, <1>8 DEF u

LEMMA BootNextInv == IInv /\ BootNext => IInv'
  <1> SUFFICES ASSUME IInv, BootNext PROVE IInv'
    OBVIOUS
  <1> DEFINE f == Head(todo)
  <1>1. f \in Files /\ todo' \in Seq(Files)
    BY DEF IInv, BootNext
  <1>2. /\ State \in StateType /\ NotStale(State) /\ aliased \in BOOLEAN
        /\ ~aliased => Distinct(State.modules) /\ Exact(State)
        /\ State.fault = "none"
    BY StateFields DEF IInv, BootNext
  <1>3. CASE f \notin modules /\ Becomes(Loaded(State, f))
    BY <1>1, <1>2, <1>3, LoadsInv, StateFields
  <1>4. CASE Becomes(State)
    BY <1>1, <1>2, <1>4, BecomesInv
  <1> QED
    BY <1>3, <1>4 DEF BootNext

LEMMA InsmodInv == \A f \in Files : IInv /\ Insmod(f) => IInv'
  <1> SUFFICES ASSUME NEW f \in Files, IInv, Insmod(f) PROVE IInv'
    OBVIOUS
  <1>1. /\ State \in StateType /\ NotStale(State) /\ aliased \in BOOLEAN
        /\ ~aliased => Exact(State)
        /\ State.fault = "none" /\ f \notin State.modules
    BY StateFields DEF IInv, Insmod, Running
  <1>2. todo' \in Seq(Files)
    BY DEF IInv, Insmod, Running
  <1>3. Becomes(Loaded(State, f))
    BY DEF Insmod
  <1> QED
    BY <1>1, <1>2, <1>3, LoadsInv

LEMMA RmmodInv == \A f \in Files : IInv /\ Rmmod(f) => IInv'
  <1> SUFFICES ASSUME NEW f \in Files, IInv, Rmmod(f) PROVE IInv'
    OBVIOUS
  <1> DEFINE q == Returned(Unloaded(State, f), "rmmod")
  <1>1. f \in modules /\ fault = "none" /\ todo' \in Seq(Files) /\ aliased \in BOOLEAN
    BY DEF IInv, Rmmod, Running
  <1>2. /\ q \in StateType /\ NotStale(q)
        /\ ~aliased => Exact(q) /\ q.fault # "deleted twice"
    BY <1>1, UnloadsInv
  <1>3. Becomes(q)
    BY DEF Rmmod
  <1> HIDE DEF q
  <1> QED
    BY <1>1, <1>2, <1>3, BecomesInv

\* A reload that fails leaves what RMMOD leaves; one that succeeds loads the
\* same library again.
LEMMA ReloadInv == \A f \in Files : IInv /\ Reload(f) => IInv'
  <1> SUFFICES ASSUME NEW f \in Files, IInv, Reload(f) PROVE IInv'
    OBVIOUS
  <1> DEFINE q == Returned(Unloaded(State, f), "insmod")
  <1>1. f \in modules /\ fault = "none" /\ todo' \in Seq(Files) /\ aliased \in BOOLEAN
    BY DEF IInv, Reload, Running
  <1>2. /\ q \in StateType /\ NotStale(q) /\ f \notin q.modules
        /\ ~aliased => Exact(q) /\ q.fault # "deleted twice"
    BY <1>1, UnloadsInv
  <1>3. Becomes(q) \/ Becomes(Loaded(q, f))
    BY DEF Reload
  <1> HIDE DEF q
  <1>4. CASE Becomes(q)
    BY <1>1, <1>2, <1>4, BecomesInv
  <1>5. CASE Becomes(Loaded(q, f))
    BY <1>1, <1>2, <1>5, LoadsInv
  <1> QED
    BY <1>3, <1>4, <1>5

\* A user's end is entered by each connection of the hook: by one exactly
\* when WHOWAS is loaded, as long as no library has two names.
LEMMA LeaveInv == \A nick \in Nicks : IInv /\ Leave(nick) => IInv'
  <1> SUFFICES ASSUME NEW nick \in Nicks, IInv, Leave(nick) PROVE IInv'
    OBVIOUS
  <1>1. /\ modules \in SUBSET Files
        /\ handler \in [Libraries -> {"null", "live", "deleted"}]
        /\ commands \in SUBSET Libraries /\ hooks \in Nat
        /\ history \in [Nicks -> Nat] /\ left \in [Nicks -> Nat]
        /\ fault \in Faults
    BY DEF IInv, StateType, State
  <1>2. UNCHANGED <<modules, handler, commands, hooks, aliased, todo>>
    BY DEF Leave, Running
  <1>3. /\ history' = [history EXCEPT ![nick] = @ + hooks]
        /\ left' = [left EXCEPT ![nick] = IF Mapped(modules, "whowas") /\ ~aliased
                                         THEN @ + 1 ELSE @]
    BY DEF Leave
  <1>4. history' \in [Nicks -> Nat] /\ left' \in [Nicks -> Nat]
    BY <1>1, <1>3
  <1>5. fault' \in Faults /\ fault' # "deleted twice"
    BY DEF Leave, Running, Faults
  <1>6. State' \in StateType
    BY <1>1, <1>2, <1>4, <1>5 DEF State, StateType
  <1>7. NotStale(State')
    <2>1. /\ State'.commands = State.commands /\ State'.modules = State.modules
          /\ State'.hooks = State.hooks
      BY <1>2 DEF State
    <2> QED
      BY <2>1 DEF IInv, NotStale
  <1>8. ASSUME ~aliased PROVE Distinct(modules') /\ Exact(State')
    <2>1. Distinct(modules) /\ Exact(State)
      BY <1>8 DEF IInv
    <2>2. hooks = (IF Mapped(modules, "whowas") THEN 1 ELSE 0) /\ history = left
      BY <2>1, StateFields DEF Exact
    <2>3. history' = left'
      <3> DEFINE k == IF Mapped(modules, "whowas") THEN 1 ELSE 0
      <3>1. left' = [left EXCEPT ![nick] = @ + k]
        <4>1. CASE Mapped(modules, "whowas")
          BY <1>3, <1>8, <4>1
        <4>2. CASE ~Mapped(modules, "whowas")
          <5>1. left[nick] \in Nat /\ k = 0
            BY <1>1, <4>2
          <5>2. left[nick] + k = left[nick]
            BY <5>1
          <5>3. left' = [left EXCEPT ![nick] = left[nick]]
            BY <1>3, <4>2
          <5> QED
            BY <5>2, <5>3
        <4> QED
          BY <4>1, <4>2
      <3>2. history' = [left EXCEPT ![nick] = @ + k]
        BY <1>3, <2>2
      <3> QED
        BY <3>1, <3>2
    <2>4. /\ State'.commands = State.commands /\ State'.modules = State.modules
          /\ State'.hooks = State.hooks /\ State'.handler = State.handler
          /\ State'.history = State'.left
      BY <1>2, <2>3 DEF State
    <2> QED
      BY <1>2, <2>1, <2>4 DEF Exact
  <1> QED
    BY <1>2, <1>5, <1>6, <1>7, <1>8 DEF IInv

LEMMA RestartInv == IInv /\ Restart => IInv'
  <1> SUFFICES ASSUME IInv, Restart PROVE IInv'
    OBVIOUS
  <1>1. UNCHANGED <<todo, modules, handler, commands, hooks, history, aliased, left>>
    BY DEF Restart, Running
  <1>2. fault' = "code unmapped"
    BY DEF Restart
  <1>3. /\ modules \in SUBSET Files
        /\ handler \in [Libraries -> {"null", "live", "deleted"}]
        /\ commands \in SUBSET Libraries /\ hooks \in Nat
        /\ history \in [Nicks -> Nat] /\ left \in [Nicks -> Nat]
    BY DEF IInv, StateType, State
  <1>4. State' \in StateType
    BY <1>1, <1>2, <1>3 DEF State, StateType, Faults
  <1>5. /\ State'.commands = State.commands /\ State'.modules = State.modules
        /\ State'.hooks = State.hooks /\ State'.handler = State.handler
        /\ State'.history = State.history /\ State'.left = State.left
    BY <1>1 DEF State
  <1>6. NotStale(State')
    BY <1>5 DEF IInv, NotStale
  <1>7. Exact(State) => Exact(State')
    BY <1>5 DEF Exact
  <1> QED
    BY <1>1, <1>2, <1>4, <1>6, <1>7 DEF IInv

LEMMA InvNext == IInv /\ [Next]_vars => IInv'
  <1> SUFFICES ASSUME IInv, [Next]_vars PROVE IInv'
    OBVIOUS
  <1>1. CASE UNCHANGED vars
    BY <1>1 DEF IInv, vars, State, Exact, NotStale, StateType
  <1> QED
    BY <1>1, BootNextInv, InsmodInv, ReloadInv, RmmodInv, LeaveInv, RestartInv DEF Next

\* Every state is one in which what is registered is backed by mapped code and,
\* while no library has had two names, the tables are those of the modules.
THEOREM ModulesInductive == Spec => []IInv
  BY InvInit, InvNext, PTL DEF Spec

-----------------------------------------------------------------------------
\* The module list, the handlers, the command table, the hook list and the
\* history keep their types through every sequence of loads and removals.
THEOREM ModulesTypeCorrect == Spec => []TypeOK
  <1>1. IInv => TypeOK
    BY DEF IInv, TypeOK, State, StateType
  <1> QED
    BY <1>1, ModulesInductive, PTL

\* Neither a command nor a hook outlives the code it points to.
THEOREM NothingStale == Spec => []NoStaleCode
  <1>1. IInv => NoStaleCode
    BY StateFields DEF IInv, NoStaleCode, NotStale
  <1> QED
    BY <1>1, ModulesInductive, PTL

\* With one name per library the command table is what LSMOD lists, with one
\* live handler for each module.
THEOREM CommandsAreExact == Spec => []CommandsExact
  <1>1. ASSUME IInv PROVE CommandsExact
    <2> SUFFICES ASSUME ~aliased PROVE
          /\ commands = {Library[f] : f \in Lsmod}
          /\ \A l \in Libraries : handler[l] = IF l \in commands THEN "live" ELSE "null"
      BY DEF CommandsExact
    <2>1. /\ \A l \in Libraries :
                /\ l \in commands <=> Mapped(modules, l)
                /\ handler[l] = IF Mapped(modules, l) THEN "live" ELSE "null"
      BY <1>1, StateFields DEF IInv, Exact
    <2>2. commands \subseteq Libraries /\ modules \subseteq Files
      BY <1>1 DEF IInv, State, StateType
    <2>3. \A f \in modules : Library[f] \in Libraries
      BY <2>2, LibraryType
    <2> QED
      BY <2>1, <2>2, <2>3 DEF Mapped, Lsmod
  <1> QED
    BY <1>1, ModulesInductive, PTL

\* With one name per library WHOWAS names every end once.
THEOREM EndsAreRecordedOnce == Spec => []RecordedOnce
  <1>1. ASSUME IInv PROVE RecordedOnce
    <2>1. ~aliased => history = left
      BY <1>1, StateFields DEF IInv, Exact
    <2>2. left \in [Nicks -> Nat]
      BY <1>1 DEF IInv, State, StateType
    <2> QED
      BY <2>1, <2>2, ModuleParams DEF RecordedOnce, Whowas
  <1> QED
    BY <1>1, ModulesInductive, PTL

\* No handler is deleted twice unless a library was loaded under two names.
THEOREM DeletedOnce == Spec => []NoDoubleDelete
  <1>1. IInv => NoDoubleDelete
    BY DEF IInv, NoDoubleDelete
  <1> QED
    BY <1>1, ModulesInductive, PTL
=============================================================================
