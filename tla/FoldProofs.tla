----------------------------- MODULE FoldProofs -----------------------------
(***************************************************************************)
(* What FoldLeft of SequencesExt does, for any sequence.                   *)
(*                                                                         *)
(* FoldLeft(op, base, seq) is defined by a recursive function on the sets  *)
(* of positions, g[s] being the fold of the positions in s: the last one,  *)
(* Max(s), is applied to g[s \ {Max(s)}].  Facts about every op cannot be  *)
(* cited for one op, so they are stated here of functions: H[a, i] is what *)
(* the element at position i makes of a.  A module that folds an op takes  *)
(* the function of that op for H; FoldExists then gives it a solution of   *)
(* the recursion with values where H keeps them, PositionInduction shows   *)
(* that FoldLeft computes this one, and FoldMore says what one more        *)
(* element adds.                                                           *)
(***************************************************************************)
EXTENDS SequencesExt, WellFoundedInduction, TLAPS

\* What holds of zero and of each successor holds of every number.
LEMMA SetInduction ==
  ASSUME NEW S, 0 \in S, \A n \in Nat : n \in S => n + 1 \in S
  PROVE  Nat \subseteq S
  <1> DEFINE R == OpToRel(<, Nat)
             T == Nat \ S
  <1>1. IsWellFoundedOn(R, Nat)
    BY NatLessThanWellFounded
  <1>2. SUFFICES ASSUME T # {} PROVE FALSE
    OBVIOUS
  <1>3. PICK x \in T : \A y \in T : ~(<<y, x>> \in R)
    <2> HIDE DEF R
    <2> QED
      BY <1>1, <1>2, WFMin
  <1>4. x # 0 /\ x - 1 \in Nat
    OBVIOUS
  <1>5. <<x - 1, x>> \in R
    BY <1>4 DEF OpToRel
  <1>6. x - 1 \in S
    BY <1>3, <1>4, <1>5
  <1> QED
    BY <1>4, <1>6

\* A set of positions that is not empty has a last one.
LEMMA LastPosition ==
  ASSUME NEW n \in Nat, NEW s \in SUBSET (1..n), s # {}
  PROVE  Max(s) \in s /\ \A y \in s : y =< Max(s)
  <1> DEFINE Good(m) == \A t \in SUBSET (1..m) :
                            t # {} => \E x \in t : \A y \in t : x >= y
             S == {m \in Nat : Good(m)}
  <1>1. 0 \in S
    <2>1. 1..0 = {}
      OBVIOUS
    <2> QED
      BY <2>1
  <1>2. ASSUME NEW m \in Nat, m \in S PROVE m + 1 \in S
    <2>1. ASSUME NEW t \in SUBSET (1..(m + 1)), t # {}
          PROVE  \E x \in t : \A y \in t : x >= y
      <3>1. CASE m + 1 \in t
        <4>1. \A y \in t : m + 1 >= y
          OBVIOUS
        <4> QED
          BY <3>1, <4>1
      <3>2. CASE m + 1 \notin t
        <4>1. t \in SUBSET (1..m)
          BY <3>2
        <4> QED
          BY <1>2, <2>1, <4>1
      <3> QED
        BY <3>1, <3>2
    <2> QED
      BY <2>1
  <1>3. n \in S
    <2> HIDE DEF S
    <2> QED
      BY <1>1, <1>2, SetInduction
  <1>4. \E x \in s : \A y \in s : x >= y
    BY <1>3
  <1>5. Max(s) \in s /\ \A y \in s : Max(s) >= y
    BY <1>4 DEF Max
  <1>6. s \subseteq Nat
    OBVIOUS
  <1> QED
    BY <1>5, <1>6

Before(s) == s \ {Max(s)}

\* The recursion of a fold over the first n positions.
Recursion(g, n, base, H) ==
    g = [s \in SUBSET (1..n) |->
            IF s = {} THEN base ELSE H[g[Before(s)], Max(s)]]

\* What the empty set has, and a set of positions takes over from the ones
\* before its last, every set of positions has.
LEMMA PositionInduction ==
  ASSUME NEW n \in Nat, NEW Q, {} \in Q,
         \A s \in SUBSET (1..n) : s # {} /\ Before(s) \in Q => s \in Q
  PROVE  SUBSET (1..n) \subseteq Q
  <1> DEFINE S == {m \in Nat : m =< n => SUBSET (1..m) \subseteq Q}
  <1>1. 0 \in S
    <2>1. \A s \in SUBSET (1..0) : s = {}
      OBVIOUS
    <2> QED
      BY <2>1
  <1>2. ASSUME NEW m \in Nat, m \in S PROVE m + 1 \in S
    <2> SUFFICES ASSUME m + 1 =< n, NEW s \in SUBSET (1..(m + 1)) PROVE s \in Q
      OBVIOUS
    <2>1. \A t \in SUBSET (1..m) : t \in Q
      BY <1>2
    <2>2. CASE m + 1 \notin s
      <3>1. s \in SUBSET (1..m)
        BY <2>2
      <3> QED
        BY <2>1, <3>1
    <2>3. CASE m + 1 \in s
      <3>1. Max(s) \in s /\ \A y \in s : y =< Max(s)
        <4>1. m + 1 \in Nat /\ s # {}
          BY <2>3
        <4> QED
          BY <4>1, LastPosition
      <3>2. Max(s) = m + 1
        <4>1. Max(s) \in 1..(m + 1) /\ m + 1 =< Max(s)
          BY <2>3, <3>1
        <4> QED
          BY <4>1
      <3>3. Before(s) \in SUBSET (1..m)
        BY <3>2 DEF Before
      <3>4. s \in SUBSET (1..n)
        OBVIOUS
      <3> QED
        BY <2>1, <2>3, <3>3, <3>4
    <2> QED
      BY <2>2, <2>3
  <1>3. n \in S
    <2> HIDE DEF S
    <2> QED
      BY <1>1, <1>2, SetInduction
  <1> QED
    BY <1>3

\* The recursion has a solution, with values in A.
LEMMA FoldExists ==
  ASSUME NEW n \in Nat, NEW A, NEW base \in A, NEW H \in [A \X (1..n) -> A]
  PROVE  \E g \in [SUBSET (1..n) -> A] : Recursion(g, n, base, H)
  <1> DEFINE Solved(m) == \E g \in [SUBSET (1..m) -> A] : Recursion(g, m, base, H)
             S == {m \in Nat : m =< n => Solved(m)}
  <1>1. Solved(0)
    <2> DEFINE g == [s \in SUBSET (1..0) |-> base]
    <2>1. g \in [SUBSET (1..0) -> A]
      OBVIOUS
    <2>2. \A s \in SUBSET (1..0) : s = {}
      <3>1. 1..0 = {}
        OBVIOUS
      <3> QED
        BY <3>1
    <2>3. Recursion(g, 0, base, H)
      BY <2>2 DEF Recursion
    <2> HIDE DEF g
    <2> QED
      BY <2>1, <2>3
  <1>2. ASSUME NEW m \in Nat, Solved(m), m + 1 =< n PROVE Solved(m + 1)
    <2>1. PICK g \in [SUBSET (1..m) -> A] : Recursion(g, m, base, H)
      BY <1>2
    <2> DEFINE k == m + 1
               h == [s \in SUBSET (1..k) |->
                       IF k \in s THEN H[g[s \ {k}], k] ELSE g[s]]
    <2>2. k \in Nat /\ k \in 1..n
      BY <1>2
    <2>3. \A s \in SUBSET (1..k) : k \in s => s \ {k} \in SUBSET (1..m)
      OBVIOUS
    <2>4. \A s \in SUBSET (1..k) : k \notin s => s \in SUBSET (1..m)
      OBVIOUS
    <2>5. \A s \in SUBSET (1..k) : h[s] \in A
      <3> SUFFICES ASSUME NEW s \in SUBSET (1..k) PROVE h[s] \in A
        OBVIOUS
      <3>1. CASE k \in s
        BY <2>1, <2>2, <2>3, <3>1
      <3>2. CASE k \notin s
        BY <2>1, <2>4, <3>2
      <3> QED
        BY <3>1, <3>2
    <2>6. ASSUME NEW s \in SUBSET (1..k)
          PROVE  h[s] = IF s = {} THEN base ELSE H[h[Before(s)], Max(s)]
      <3>1. CASE k \in s
        <4>1. Max(s) \in s /\ \A y \in s : y =< Max(s)
          BY <2>2, <3>1, LastPosition
        <4>2. Max(s) = k
          <5>1. Max(s) \in 1..k /\ k =< Max(s)
            BY <3>1, <4>1
          <5> QED
            BY <5>1
        <4>3. Before(s) = s \ {k} /\ k \notin Before(s) /\ Before(s) \in SUBSET (1..k)
          BY <4>2 DEF Before
        <4>4. h[Before(s)] = g[s \ {k}]
          BY <4>3
        <4> QED
          BY <3>1, <4>2, <4>4
      <3>2. CASE k \notin s
        <4>1. h[s] = g[s]
          BY <3>2
        <4>2. s \in SUBSET (1..m)
          BY <2>4, <3>2
        <4>3. g[s] = IF s = {} THEN base ELSE H[g[Before(s)], Max(s)]
          BY <2>1, <4>2 DEF Recursion
        <4>4. Before(s) \in SUBSET (1..k) /\ k \notin Before(s)
          BY <3>2 DEF Before
        <4>5. h[Before(s)] = g[Before(s)]
          BY <4>4
        <4> QED
          BY <4>1, <4>3, <4>5
      <3> QED
        BY <3>1, <3>2
    <2>7. h \in [SUBSET (1..k) -> A]
      BY <2>5
    <2>8. Recursion(h, k, base, H)
      <3>1. h = [s \in SUBSET (1..k) |-> h[s]]
        OBVIOUS
      <3> HIDE DEF h
      <3> QED
        BY <2>6, <3>1 DEF Recursion
    <2> HIDE DEF h
    <2> QED
      BY <2>7, <2>8
  <1> HIDE DEF Solved
  <1>3. 0 \in S
    BY <1>1
  <1>4. ASSUME NEW m \in Nat, m \in S PROVE m + 1 \in S
    <2>1. m + 1 =< n => m =< n
      OBVIOUS
    <2> QED
      BY <1>2, <1>4, <2>1
  <1>5. n \in S
    <2> HIDE DEF S
    <2> QED
      BY <1>3, <1>4, SetInduction
  <1>6. Solved(n)
    BY <1>5
  <1> QED
    BY <1>6 DEF Solved

\* One position more.
LEMMA OneMore ==
  ASSUME NEW n \in Nat
  PROVE  /\ n + 1 \in Nat
         /\ n + 1 \in 1..(n + 1)
         /\ 1..n \subseteq 1..(n + 1)
         /\ (1..(n + 1)) \ {n + 1} = 1..n
         /\ Max(1..(n + 1)) = n + 1
  <1>1. n + 1 \in Nat /\ n + 1 \in 1..(n + 1)
    OBVIOUS
  <1>2. 1..n \subseteq 1..(n + 1)
    OBVIOUS
  <1>3. (1..(n + 1)) \ {n + 1} = 1..n
    OBVIOUS
  <1>4. Max(1..(n + 1)) = n + 1
    <2> DEFINE D == 1..(n + 1)
    <2>1. D \in SUBSET D /\ D # {}
      BY <1>1
    <2>2. Max(D) \in D /\ \A y \in D : y =< Max(D)
      BY <1>1, <2>1, LastPosition
    <2>3. n + 1 =< Max(D)
      BY <1>1, <2>2
    <2> QED
      BY <2>2, <2>3
  <1> QED
    BY <1>1, <1>2, <1>3, <1>4

\* f folds n positions by H, and h one more by K, with values in A.
OneLonger(A, base, H, f, n, K, h, m) ==
    /\ n \in Nat /\ m \in Nat /\ m = n + 1
    /\ base \in A
    /\ f \in [SUBSET (1..n) -> A] /\ Recursion(f, n, base, H)
    /\ h \in [SUBSET (1..m) -> A] /\ Recursion(h, m, base, K)
    /\ \A a \in A, i \in 1..n : H[a, i] = K[a, i]

TakesOneMore(f, n, K, h, m) == h[1..m] = K[f[1..n], m]

\* The recursion over one position more applies its element to the recursion
\* over the others.
LEMMA FoldMore ==
  ASSUME NEW A, NEW base, NEW H, NEW f, NEW n, NEW K, NEW h, NEW m,
         OneLonger(A, base, H, f, n, K, h, m)
  PROVE  TakesOneMore(f, n, K, h, m)
  <1>a. /\ n \in Nat /\ m \in Nat /\ m = n + 1
        /\ base \in A
        /\ f \in [SUBSET (1..n) -> A] /\ Recursion(f, n, base, H)
        /\ h \in [SUBSET (1..m) -> A] /\ Recursion(h, m, base, K)
        /\ \A a \in A, i \in 1..n : H[a, i] = K[a, i]
    BY DEF OneLonger
  <1> DEFINE Q == {s \in SUBSET (1..n) : h[s] = f[s]}
             D == 1..m
  <1>1. \A s \in SUBSET (1..n) :
           f[s] = IF s = {} THEN base ELSE H[f[Before(s)], Max(s)]
    BY <1>a DEF Recursion
  <1>2. \A s \in SUBSET D :
           h[s] = IF s = {} THEN base ELSE K[h[Before(s)], Max(s)]
    BY <1>a DEF Recursion
  <1>0. m \in D /\ 1..n \subseteq D /\ D \ {m} = 1..n /\ Max(D) = m
    BY <1>a, OneMore
  <1>3. SUBSET (1..n) \subseteq SUBSET D
    BY <1>0
  <1>4. {} \in Q
    BY <1>1, <1>2, <1>3
  <1>5. ASSUME NEW s \in SUBSET (1..n), s # {}, Before(s) \in Q PROVE s \in Q
    <2>1. Max(s) \in 1..n /\ Before(s) \in SUBSET (1..n)
      BY <1>a, <1>5, LastPosition DEF Before
    <2>2. h[s] = K[h[Before(s)], Max(s)]
      BY <1>2, <1>3, <1>5
    <2>3. h[Before(s)] = f[Before(s)] /\ f[Before(s)] \in A
      BY <1>a, <1>5, <2>1
    <2>4. f[s] = H[f[Before(s)], Max(s)]
      BY <1>1, <1>5
    <2> QED
      BY <1>a, <2>1, <2>2, <2>3, <2>4
  <1>6. 1..n \in Q
    <2> HIDE DEF Q
    <2> QED
      BY <1>a, <1>4, <1>5, PositionInduction
  <1>8. Before(D) = 1..n
    BY <1>0 DEF Before
  <1>9. h[D] = K[h[Before(D)], Max(D)]
    <2>1. D \in SUBSET D /\ D # {}
      BY <1>0
    <2> QED
      BY <1>2, <2>1
  <1> QED
    BY <1>0, <1>6, <1>8, <1>9 DEF TakesOneMore

\* The fold of n positions by H, with values in A, is val.
FoldsTo(A, n, base, H, val) ==
    \E f \in [SUBSET (1..n) -> A] : Recursion(f, n, base, H) /\ val = f[1..n]

LEMMA FoldsWithin ==
  ASSUME NEW A, NEW n, NEW base, NEW H, NEW val, FoldsTo(A, n, base, H, val)
  PROVE  val \in A
  BY DEF FoldsTo

\* The values a fold passes through.
Runs(p, n, A, base, H) ==
    /\ p \in [0..n -> A]
    /\ p[0] = base
    /\ \A i \in 1..n : p[i] = H[p[i - 1], i]

\* A fold passes from its base, element by element, to its result.
LEMMA FoldRun ==
  ASSUME NEW n \in Nat, NEW A, NEW base \in A, NEW H, NEW val,
         FoldsTo(A, n, base, H, val)
  PROVE  \E p : Runs(p, n, A, base, H) /\ p[n] = val
  <1> PICK f \in [SUBSET (1..n) -> A] : Recursion(f, n, base, H) /\ val = f[1..n]
    BY DEF FoldsTo
  <1> DEFINE p == [i \in 0..n |-> f[1..i]]
  <1>1. \A i \in 0..n : 1..i \in SUBSET (1..n)
    OBVIOUS
  <1>2. p \in [0..n -> A]
    BY <1>1
  <1>3. p[0] = base
    <2>1. 1..0 = {} /\ 0 \in 0..n
      OBVIOUS
    <2>2. f[{}] = base
      BY DEF Recursion
    <2> QED
      BY <2>1, <2>2
  <1>4. ASSUME NEW i \in 1..n PROVE p[i] = H[p[i - 1], i]
    <2>1. i - 1 \in Nat /\ i - 1 \in 0..n /\ i \in 0..n /\ (i - 1) + 1 = i
      OBVIOUS
    <2>2. (1..i) \ {i} = 1..(i - 1) /\ Max(1..i) = i
      <3> DEFINE k == i - 1
      <3>1. (1..(k + 1)) \ {k + 1} = 1..k /\ Max(1..(k + 1)) = k + 1
        <4>1. k \in Nat
          BY <2>1
        <4> HIDE DEF k
        <4> QED
          BY <4>1, OneMore
      <3> QED
        BY <2>1, <3>1
    <2>3. Before(1..i) = 1..(i - 1)
      BY <2>2 DEF Before
    <2>4. 1..i # {} /\ 1..i \in SUBSET (1..n)
      OBVIOUS
    <2>5. f[1..i] = H[f[Before(1..i)], Max(1..i)]
      BY <2>4 DEF Recursion
    <2>6. f[1..i] = H[f[1..(i - 1)], i]
      BY <2>2, <2>3, <2>5
    <2> QED
      BY <2>1, <2>6
  <1>5. p[n] = val
    OBVIOUS
  <1> HIDE DEF p
  <1> QED
    BY <1>2, <1>3, <1>4, <1>5 DEF Runs
=============================================================================
