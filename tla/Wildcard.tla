------------------------------- MODULE Wildcard -------------------------------
(***************************************************************************)
(* String::match, the wildcard match of bans and operator masks, round by  *)
(* round of its loop (string.hpp): two places that advance together and a  *)
(* single pair of places to go back to, behind the last star seen.         *)
(*                                                                         *)
(* A text is a sequence of characters, lower and upper case are one.  A    *)
(* round with a star is two steps, the star's and what follows it.         *)
(***************************************************************************)
EXTENDS Naturals, Sequences, FiniteSetsExt

CONSTANTS
    Masks,      \* patterns
    Subjects    \* texts they are matched against

ASSUME MatchParams == Masks \subseteq Seq(STRING) /\ Subjects \subseteq Seq(STRING)

VARIABLES
    mask, text, \* the pattern and the string
    m, n,       \* the places reached in them
    ma, na,     \* the places to go back to; ma = 0 is the end() of "nowhere"
    answer      \* "none", "yes" or "no"

matchVars == <<mask, text, m, n, ma, na, answer>>

MatchInit ==
    /\ mask \in Masks /\ text \in Subjects
    /\ m = 1 /\ n = 1
    /\ ma = 0 /\ na = 1
    /\ answer = "none"

-----------------------------------------------------------------------------
\* Behind the last character a pattern reads as a character of no text.
At(k) == IF k <= Len(mask) THEN mask[k] ELSE "nul"

\* The first place from k on that is no star.
SkipStars(k) == Min({j \in k..(Len(mask) + 1) : At(j) # "*"})

\* From the end back over question marks, but not beyond the first place.
SkipBack == Max({1} \cup {k \in DOMAIN mask : mask[k] # "?"})

Same(x, y) == x = y \/ (x = "_" /\ y = " ") \/ x = "?"

Answer(a) == answer' = a /\ UNCHANGED <<mask, text, m, n, ma, na>>

\* Mutant: the text is not taken back to where the star began.
RetryHere == n + 1

\* Mutant: the text is taken back to the same place again and again.
RetryThere == na

\* n = ++na
Retry == na + 1

GoBack ==
    /\ m' = ma
    /\ n' = Retry /\ na' = Retry
    /\ UNCHANGED <<mask, text, ma, answer>>

NoMask == mask = <<>> /\ Answer("no")

\* Mutant: the place to go back to is the star itself.
OnStar == m

BehindStar == SkipStars(m)

Star ==
    /\ At(m) = "*"
    /\ m' = SkipStars(m)
    /\ ma' = BehindStar /\ na' = n
    /\ UNCHANGED <<mask, text, n, answer>>

\* The pattern is used up.  After GoBack the code compares in the same round.
MaskEnds ==
    /\ m > Len(mask)
    /\ \/ n > Len(text) /\ Answer("yes")
       \/ n <= Len(text) /\ ma = 0 /\ Answer("no")
       \/ n <= Len(text) /\ ma # 0 /\ mask[SkipBack] = "*" /\ Answer("yes")
       \/ n <= Len(text) /\ ma # 0 /\ mask[SkipBack] # "*" /\ GoBack

TextEnds ==
    /\ m <= Len(mask) /\ At(m) # "*"
    /\ n > Len(text)
    /\ Answer(IF SkipStars(m) > Len(mask) THEN "yes" ELSE "no")

Compare ==
    /\ m <= Len(mask) /\ At(m) # "*"
    /\ n <= Len(text)
    /\ \/ /\ Same(mask[m], text[n])
          /\ m' = m + 1 /\ n' = n + 1
          /\ UNCHANGED <<mask, text, ma, na, answer>>
       \/ ~Same(mask[m], text[n]) /\ ma = 0 /\ Answer("no")
       \/ ~Same(mask[m], text[n]) /\ ma # 0 /\ GoBack

MatchNext ==
    /\ answer = "none"
    /\ \/ NoMask
       \/ mask # <<>> /\ (Star \/ MaskEnds \/ TextEnds \/ Compare)

MatchSpec == MatchInit /\ [][MatchNext]_matchVars

-----------------------------------------------------------------------------
(* Properties *)

\* The mask's character k takes the text from place x to place y.
Takes(k, x, y) ==
    IF mask[k] = "*" THEN x <= y
    ELSE x <= Len(text) /\ y = x + 1 /\ Same(mask[k], text[x])

\* What a mask means: the text can be cut so that every star stands for a
\* piece of it, every question mark for one character, "_" for itself or a
\* blank and any other character for itself; an empty mask means nothing.
Means ==
    /\ mask # <<>>
    /\ \E cut \in [1..(Len(mask) + 1) -> 1..(Len(text) + 1)] :
         /\ cut[1] = 1 /\ cut[Len(mask) + 1] = Len(text) + 1
         /\ \A k \in DOMAIN mask : Takes(k, cut[k], cut[k + 1])

\* The loop of String::match, with its one place to return to and its short
\* cut for question marks at the end, answers what the mask means.
MatchIsWildcard == answer # "none" => (answer = "yes" <=> Means)

\* When the pattern is used up and the text is not, the code goes back and
\* compares at once, without looking for a star or for either end: there is
\* a character to read in both, and it is no star (String::match).
ReadsInside ==
    answer = "none" /\ m > Len(mask) /\ n <= Len(text) /\ ma # 0
    /\ mask[SkipBack] # "*" =>
        ma <= Len(mask) /\ mask[ma] # "*" /\ na + 1 <= Len(text)

\* Every round answers, finds a later star, begins the text later or reads
\* on, in that order, and each of the three places has an end: the loop
\* without a condition ends (String::match).
Advances ==
    [][\/ answer' # "none"
       \/ ma' > ma
       \/ ma' = ma /\ na' > na
       \/ ma' = ma /\ na' = na /\ m' > m]_matchVars
=============================================================================
