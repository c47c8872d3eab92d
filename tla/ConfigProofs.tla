---------------------------- MODULE ConfigProofs ----------------------------
(***************************************************************************)
(* Proofs about Config, for any files: what the server holds of them, and  *)
(* what its readers find.                                                  *)
(*                                                                         *)
(* A read is one step, and inside it there are folds: over the assignments *)
(* of a block, the items of a file, the files that are still to be read.   *)
(* Each is turned into the run of values it passes through (EachRuns), and *)
(* the rest is induction over the steps of that run.  Its invariant is     *)
(* Good: a reader that has read the first j items rests between blocks,    *)
(* holds the entries their assignments leave, knows their sequences, and   *)
(* finds under every name as many numbers as the items have numbered       *)
(* blocks.  Included files come last and include nothing, so a read passes *)
(* through the items of all the files one after the other (DiskRead), and  *)
(* a RESTART passes through them twice (ReadTwice).                        *)
(*                                                                         *)
(* The state invariant ConfigInv says of which disk, read once or twice,   *)
(* the configuration, the listeners and the identity are; what the files   *)
(* have to be like for the theorems is said in their hypotheses, WellGiven,*)
(* FewGiven and PlainGiven.                                                *)
(***************************************************************************)
EXTENDS Config, FoldProofs, SequenceTheorems, FiniteSetTheorems

-----------------------------------------------------------------------------
(* Folds *)

\* What the folds of Config do with an element x; c is what they look at.
Each(fold, c, a, x) ==
    CASE fold = "settings"    -> Line(a, AssignLine(x))
      [] fold = "items"       -> Item(a, x)
      [] fold = "files"       -> IncludeNext(a, c)
      [] fold = "assignments" -> a \o Settings(c, x)
      [] fold = "included"    -> IF x.do = "include" THEN Append(a, x) ELSE a
      [] fold = "whole"       -> a \o (IF c[x.file] = Gone THEN <<>> ELSE c[x.file])
      [] fold = "listeners"   -> IF Complete(Listener(c[1], x)) THEN Run(a, Listener(c[1], x), c[2]) ELSE a
      [] fold = "written"     -> IF Complete(Listener(c, x)) THEN Append(a, Listener(c, x)) ELSE a

\* The recursion of a fold of q, on the sets of its positions.
EachStep(fold, c, base, q, g) ==
    [s \in SUBSET DOMAIN q |->
        IF s = {} THEN base ELSE Each(fold, c, g[s \ {Max(s)}], q[Max(s)])]

\* The fold has a solution on the first m positions.
Solves(fold, c, base, q, m, g) ==
    g = [s \in SUBSET (1..m) |->
            IF s = {} THEN base ELSE Each(fold, c, g[s \ {Max(s)}], q[Max(s)])]

\* A fold has a solution.
LEMMA EachSolved ==
  ASSUME NEW fold, NEW c, NEW base, NEW q, NEW n \in Nat, DOMAIN q = 1..n
  PROVE  \E g : g = EachStep(fold, c, base, q, g)
  <1> DEFINE S == {m \in Nat : \E g : Solves(fold, c, base, q, m, g)}
  <1>1. 0 \in S
    <2> DEFINE g == [s \in SUBSET (1..0) |-> base]
    <2>1. \A s \in SUBSET (1..0) : s = {}
      <3>1. 1..0 = {}
        OBVIOUS
      <3> QED
        BY <3>1
    <2>2. Solves(fold, c, base, q, 0, g)
      BY <2>1 DEF Solves
    <2> HIDE DEF g
    <2> QED
      BY <2>2
  <1>2. ASSUME NEW m \in Nat, m \in S PROVE m + 1 \in S
    <2>1. PICK g : Solves(fold, c, base, q, m, g)
      BY <1>2
    <2> DEFINE k == m + 1
               h == [s \in SUBSET (1..k) |->
                       IF k \in s THEN Each(fold, c, g[s \ {k}], q[k]) ELSE g[s]]
    <2>2. k \in Nat
      OBVIOUS
    <2>3. \A s \in SUBSET (1..k) : k \notin s => s \in SUBSET (1..m)
      OBVIOUS
    <2>4. ASSUME NEW s \in SUBSET (1..k)
          PROVE  h[s] = IF s = {} THEN base ELSE Each(fold, c, h[s \ {Max(s)}], q[Max(s)])
      <3>1. CASE k \in s
        <4>1. Max(s) \in s /\ \A y \in s : y =< Max(s)
          BY <2>2, <3>1, LastPosition
        <4>2. Max(s) = k
          <5>1. Max(s) \in 1..k /\ k =< Max(s)
            BY <3>1, <4>1
          <5> QED
            BY <5>1
        <4>3. k \notin s \ {k} /\ s \ {k} \in SUBSET (1..k)
          OBVIOUS
        <4>4. h[s \ {k}] = g[s \ {k}]
          BY <4>3
        <4>5. h[s] = Each(fold, c, g[s \ {k}], q[k])
          BY <3>1
        <4> HIDE DEF h, k
        <4> QED
          BY <3>1, <4>2, <4>4, <4>5
      <3>2. CASE k \notin s
        <4>1. h[s] = g[s]
          BY <3>2
        <4>2. s \in SUBSET (1..m)
          BY <2>3, <3>2
        <4>3. g[s] = IF s = {} THEN base ELSE Each(fold, c, g[s \ {Max(s)}], q[Max(s)])
          BY <2>1, <4>2 DEF Solves
        <4>4. s \ {Max(s)} \in SUBSET (1..k) /\ k \notin s \ {Max(s)}
          BY <3>2
        <4>5. h[s \ {Max(s)}] = g[s \ {Max(s)}]
          BY <4>4
        <4> HIDE DEF h
        <4> QED
          BY <4>1, <4>3, <4>5
      <3> QED
        BY <3>1, <3>2
    <2>5. h = [s \in SUBSET (1..k) |-> h[s]]
      OBVIOUS
    <2> HIDE DEF h
    <2>6. Solves(fold, c, base, q, k, h)
      BY <2>4, <2>5 DEF Solves
    <2> QED
      BY <2>6
  <1>3. n \in S
    <2> HIDE DEF S
    <2> QED
      BY <1>1, <1>2, SetInduction
  <1> QED
    BY <1>3 DEF Solves, EachStep

\* The values a fold passes through, to its result.
EachRuns(fold, c, base, q, n, val) ==
    \E p : /\ p[0] = base /\ p[n] = val
           /\ \A i \in 1..n : p[i] = Each(fold, c, p[i - 1], q[i])

\* A solution passes through its values on the first positions.
LEMMA EachRun ==
  ASSUME NEW fold, NEW c, NEW base, NEW q, NEW n \in Nat, DOMAIN q = 1..n,
         NEW g, g = EachStep(fold, c, base, q, g)
  PROVE  EachRuns(fold, c, base, q, n, g[DOMAIN q])
  <1> DEFINE p == [i \in 0..n |-> g[1..i]]
  <1>1. \A s \in SUBSET (1..n) :
           g[s] = IF s = {} THEN base ELSE Each(fold, c, g[s \ {Max(s)}], q[Max(s)])
    BY DEF EachStep
  <1>2. p[0] = base
    <2>1. 1..0 = {} /\ 0 \in 0..n /\ {} \in SUBSET (1..n)
      OBVIOUS
    <2>2. g[{}] = base
      BY <1>1, <2>1
    <2> QED
      BY <2>1, <2>2
  <1>3. ASSUME NEW i \in 1..n PROVE p[i] = Each(fold, c, p[i - 1], q[i])
    <2>1. i - 1 \in Nat /\ i - 1 \in 0..n /\ i \in 0..n /\ (i - 1) + 1 = i
      OBVIOUS
    <2>2. (1..i) \ {i} = 1..(i - 1) /\ Max(1..i) = i
      <3> DEFINE k == i - 1
      <3>1. (1..(k + 1)) \ {k + 1} = 1..k /\ Max(1..(k + 1)) = k + 1
        <4>1. k \in Nat
          BY <2>1
        <4> HIDE DEF k
        <4> QED
          BY <4>1, OneMore
      <3> QED
        BY <2>1, <3>1
    <2>3. 1..i # {} /\ 1..i \in SUBSET (1..n)
      BY SMTT(30)
    <2>4. g[1..i] = Each(fold, c, g[1..(i - 1)], q[i])
      BY <1>1, <2>2, <2>3
    <2> QED
      BY <2>1, <2>4
  <1>4. p[n] = g[DOMAIN q]
    OBVIOUS
  <1> HIDE DEF p
  <1> QED
    BY <1>2, <1>3, <1>4 DEF EachRuns

\* The folds over what is fixed.
ReadAll(d, base, q) == FoldLeft(LAMBDA r, x : IncludeNext(r, d), base, q)
Gathered(items, base, q) == FoldLeft(LAMBDA A, j : A \o Settings(items, j), base, q)
Followed(d, base, q) == FoldLeft(LAMBDA items, l : items \o (IF d[l.file] = Gone THEN <<>> ELSE d[l.file]), base, q)
SetUp(e, denied, base, q) == FoldLeft(LAMBDA ls, i : IF Complete(Listener(e, i)) THEN Run(ls, Listener(e, i), denied) ELSE ls, base, q)
Kept(m, base, q) == FoldLeft(LAMBDA w, i : IF Complete(Listener(m, i)) THEN Append(w, Listener(m, i)) ELSE w, base, q)

\* The folds of Config, each as the run of its values.
LEMMA SettingsRun ==
  ASSUME NEW base, NEW q, NEW n \in Nat, DOMAIN q = 1..n
  PROVE  EachRuns("settings", 0, base, q, n,
                  FoldLeft(LAMBDA t, x : Line(t, AssignLine(x)),
                           base, q))
  <1> DEFINE Step(h) == [s \in SUBSET DOMAIN q |->
                           IF s = {} THEN base
                           ELSE Line(h[s \ {Max(s)}], AssignLine(q[Max(s)]))]
             g == CHOOSE h : h = Step(h)
  <1>1. PICK f : f = EachStep("settings", 0, base, q, f)
    BY EachSolved
  <1>2. f = Step(f)
    BY <1>1 DEF EachStep, Each
  <1>3. g = Step(g)
    BY <1>2
  <1>4. FoldLeft(LAMBDA t, x : Line(t, AssignLine(x)),
                 base, q) = g[DOMAIN q]
    BY DEF FoldLeft, MapThenFoldSet
  <1> HIDE DEF g
  <1>5. g = EachStep("settings", 0, base, q, g)
    BY <1>3 DEF EachStep, Each
  <1> QED
    BY <1>4, <1>5, EachRun

\* The items of a file, one after the other.
LEMMA ItemsRun ==
  ASSUME NEW base, NEW q, NEW n \in Nat, DOMAIN q = 1..n
  PROVE  EachRuns("items", 0, base, q, n,
                  FoldLeft(Item,
                           base, q))
  <1> DEFINE Step(h) == [s \in SUBSET DOMAIN q |->
                           IF s = {} THEN base
                           ELSE Item(h[s \ {Max(s)}], q[Max(s)])]
             g == CHOOSE h : h = Step(h)
  <1>1. PICK f : f = EachStep("items", 0, base, q, f)
    BY EachSolved
  <1>2. f = Step(f)
    BY <1>1 DEF EachStep, Each
  <1>3. g = Step(g)
    BY <1>2
  <1>4. FoldLeft(Item,
                 base, q) = g[DOMAIN q]
    BY DEF FoldLeft, MapThenFoldSet
  <1> HIDE DEF g
  <1>5. g = EachStep("items", 0, base, q, g)
    BY <1>3 DEF EachStep, Each
  <1> QED
    BY <1>4, <1>5, EachRun

\* The files still to be read.
LEMMA FilesRun ==
  ASSUME NEW d, NEW base, NEW q, NEW n \in Nat, DOMAIN q = 1..n
  PROVE  EachRuns("files", d, base, q, n,
                  ReadAll(d, base, q))
  <1> DEFINE Step(h) == [s \in SUBSET DOMAIN q |->
                           IF s = {} THEN base
                           ELSE IncludeNext(h[s \ {Max(s)}], d)]
             g == CHOOSE h : h = Step(h)
  <1>1. PICK f : f = EachStep("files", d, base, q, f)
    BY EachSolved
  <1>2. f = Step(f)
    BY <1>1 DEF EachStep, Each
  <1>3. g = Step(g)
    BY <1>2
  <1>4. FoldLeft(LAMBDA r, x : IncludeNext(r, d),
                 base, q) = g[DOMAIN q]
    BY DEF FoldLeft, MapThenFoldSet
  <1> HIDE DEF g
  <1>5. g = EachStep("files", d, base, q, g)
    BY <1>3 DEF EachStep, Each
  <1> QED
    BY <1>4, <1>5, EachRun DEF ReadAll

\* The assignments of all the items.
LEMMA AssignmentsRun ==
  ASSUME NEW items, NEW base, NEW q, NEW n \in Nat, DOMAIN q = 1..n
  PROVE  EachRuns("assignments", items, base, q, n,
                  Gathered(items, base, q))
  <1> DEFINE Step(h) == [s \in SUBSET DOMAIN q |->
                           IF s = {} THEN base
                           ELSE h[s \ {Max(s)}] \o Settings(items, q[Max(s)])]
             g == CHOOSE h : h = Step(h)
  <1>1. PICK f : f = EachStep("assignments", items, base, q, f)
    BY EachSolved
  <1>2. f = Step(f)
    BY <1>1 DEF EachStep, Each
  <1>3. g = Step(g)
    BY <1>2
  <1>4. FoldLeft(LAMBDA A, j : A \o Settings(items, j),
                 base, q) = g[DOMAIN q]
    BY DEF FoldLeft, MapThenFoldSet
  <1> HIDE DEF g
  <1>5. g = EachStep("assignments", items, base, q, g)
    BY <1>3 DEF EachStep, Each
  <1> QED
    BY <1>4, <1>5, EachRun DEF Gathered

\* The files a document includes.
LEMMA IncludedRun ==
  ASSUME NEW base, NEW q, NEW n \in Nat, DOMAIN q = 1..n
  PROVE  EachRuns("included", 0, base, q, n,
                  FoldLeft(LAMBDA fs, item : IF item.do = "include" THEN Append(fs, item) ELSE fs,
                           base, q))
  <1> DEFINE Step(h) == [s \in SUBSET DOMAIN q |->
                           IF s = {} THEN base
                           ELSE IF q[Max(s)].do = "include"
                           THEN Append(h[s \ {Max(s)}], q[Max(s)])
                           ELSE h[s \ {Max(s)}]]
             g == CHOOSE h : h = Step(h)
  <1>1. PICK f : f = EachStep("included", 0, base, q, f)
    BY EachSolved
  <1>2. f = Step(f)
    BY <1>1 DEF EachStep, Each
  <1>3. g = Step(g)
    BY <1>2
  <1>4. FoldLeft(LAMBDA fs, item : IF item.do = "include" THEN Append(fs, item) ELSE fs,
                 base, q) = g[DOMAIN q]
    BY DEF FoldLeft, MapThenFoldSet
  <1> HIDE DEF g
  <1>5. g = EachStep("included", 0, base, q, g)
    BY <1>3 DEF EachStep, Each
  <1> QED
    BY <1>4, <1>5, EachRun

\* The documents of a disk.
LEMMA WholeRun ==
  ASSUME NEW d, NEW base, NEW q, NEW n \in Nat, DOMAIN q = 1..n
  PROVE  EachRuns("whole", d, base, q, n,
                  Followed(d, base, q))
  <1> DEFINE Step(h) == [s \in SUBSET DOMAIN q |->
                           IF s = {} THEN base
                           ELSE h[s \ {Max(s)}] \o (IF d[q[Max(s)].file] = Gone THEN <<>>
                                              ELSE d[q[Max(s)].file])]
             g == CHOOSE h : h = Step(h)
  <1>1. PICK f : f = EachStep("whole", d, base, q, f)
    BY EachSolved
  <1>2. f = Step(f)
    BY <1>1 DEF EachStep, Each
  <1>3. g = Step(g)
    BY <1>2
  <1>4. FoldLeft(LAMBDA items, l : items \o (IF d[l.file] = Gone THEN <<>> ELSE d[l.file]),
                 base, q) = g[DOMAIN q]
    BY DEF FoldLeft, MapThenFoldSet
  <1> HIDE DEF g
  <1>5. g = EachStep("whole", d, base, q, g)
    BY <1>3 DEF EachStep, Each
  <1> QED
    BY <1>4, <1>5, EachRun DEF Followed

\* The listeners a start sets up.
LEMMA ListenersRun ==
  ASSUME NEW e, NEW denied, NEW base, NEW q, NEW n \in Nat, DOMAIN q = 1..n
  PROVE  EachRuns("listeners", <<e, denied>>, base, q, n,
                  SetUp(e, denied, base, q))
  <1> DEFINE Step(h) == [s \in SUBSET DOMAIN q |->
                           IF s = {} THEN base
                           ELSE IF Complete(Listener(e, q[Max(s)]))
                           THEN Run(h[s \ {Max(s)}], Listener(e, q[Max(s)]), denied)
                           ELSE h[s \ {Max(s)}]]
             g == CHOOSE h : h = Step(h)
  <1>1. PICK f : f = EachStep("listeners", <<e, denied>>, base, q, f)
    BY EachSolved
  <1>2. f = Step(f)
    BY <1>1 DEF EachStep, Each
  <1>3. g = Step(g)
    BY <1>2
  <1>4. FoldLeft(LAMBDA ls, i : IF Complete(Listener(e, i))
                                     THEN Run(ls, Listener(e, i), denied) ELSE ls,
                 base, q) = g[DOMAIN q]
    BY DEF FoldLeft, MapThenFoldSet
  <1> HIDE DEF g
  <1>5. g = EachStep("listeners", <<e, denied>>, base, q, g)
    BY <1>3 DEF EachStep, Each
  <1> QED
    BY <1>4, <1>5, EachRun DEF SetUp

\* The listeners the files name.
LEMMA WrittenRun ==
  ASSUME NEW m, NEW base, NEW q, NEW n \in Nat, DOMAIN q = 1..n
  PROVE  EachRuns("written", m, base, q, n,
                  Kept(m, base, q))
  <1> DEFINE Step(h) == [s \in SUBSET DOMAIN q |->
                           IF s = {} THEN base
                           ELSE IF Complete(Listener(m, q[Max(s)]))
                           THEN Append(h[s \ {Max(s)}], Listener(m, q[Max(s)]))
                           ELSE h[s \ {Max(s)}]]
             g == CHOOSE h : h = Step(h)
  <1>1. PICK f : f = EachStep("written", m, base, q, f)
    BY EachSolved
  <1>2. f = Step(f)
    BY <1>1 DEF EachStep, Each
  <1>3. g = Step(g)
    BY <1>2
  <1>4. FoldLeft(LAMBDA w, i : IF Complete(Listener(m, i))
                                    THEN Append(w, Listener(m, i)) ELSE w,
                 base, q) = g[DOMAIN q]
    BY DEF FoldLeft, MapThenFoldSet
  <1> HIDE DEF g
  <1>5. g = EachStep("written", m, base, q, g)
    BY <1>3 DEF EachStep, Each
  <1> QED
    BY <1>4, <1>5, EachRun DEF Kept

\* The least of a set of numbers.
LEMMA LeastOf ==
  ASSUME NEW S \in SUBSET Nat, S # {}
  PROVE  Min(S) \in S /\ \A y \in S : Min(S) <= y
  <1> DEFINE R == OpToRel(<, Nat)
  <1>1. IsWellFoundedOn(R, Nat)
    BY NatLessThanWellFounded
  <1>2. PICK x \in S : \A y \in S : ~(<<y, x>> \in R)
    <2> HIDE DEF R
    <2> QED
      BY <1>1, WFMin
  <1>3. \A y \in S : ~(y < x)
    BY <1>2 DEF OpToRel
  <1>4. x \in S /\ \A y \in S : x <= y
    BY <1>3
  <1> QED
    BY <1>4 DEF Min

\* The first assignment to k before the i-th is the j-th.
IsFirst(A, k, i, j) ==
    \/ j = 0 /\ \A a \in 1..(i - 1) : A[a][1] # k
    \/ /\ j \in 1..(i - 1) /\ A[j][1] = k
       /\ \A a \in 1..(j - 1) : A[a][1] # k

\* FirstBefore is what its name says.
LEMMA FirstIs ==
  ASSUME NEW A, NEW k, NEW i \in Nat
  PROVE  IsFirst(A, k, i, FirstBefore(A, k, i))
  <1> DEFINE js == {j \in 1..(i - 1) : A[j][1] = k}
  <1>1. CASE js = {}
    BY <1>1 DEF FirstBefore, IsFirst
  <1>2. CASE js # {}
    <2>1. js \in SUBSET Nat
      OBVIOUS
    <2>2. Min(js) \in js /\ \A y \in js : Min(js) <= y
      <3> HIDE DEF js
      <3> QED
        BY <1>2, <2>1, LeastOf
    <2> DEFINE j == Min(js)
    <2>3. FirstBefore(A, k, i) = j
      BY <1>2 DEF FirstBefore
    <2>4. j \in 1..(i - 1) /\ A[j][1] = k
      BY <2>2
    <2>5. \A a \in 1..(j - 1) : a \in 1..(i - 1) /\ ~(j <= a)
      BY <2>4
    <2>6. \A a \in 1..(j - 1) : A[a][1] # k
      BY <2>2, <2>5
    <2> HIDE DEF j
    <2> QED
      BY <2>3, <2>4, <2>6 DEF IsFirst
  <1> QED
    BY <1>1, <1>2

\* There is one first assignment.
LEMMA FirstOnly ==
  ASSUME NEW A, NEW k, NEW i \in Nat, NEW j, IsFirst(A, k, i, j)
  PROVE  FirstBefore(A, k, i) = j
  <1> DEFINE f == FirstBefore(A, k, i)
  <1>1. IsFirst(A, k, i, f)
    BY FirstIs
  <1> HIDE DEF f
  <1>2. f = j
    BY <1>1 DEF IsFirst
  <1> QED
    BY <1>2 DEF f

\* Assignments, the first n of which are those of A, and the values they assign.
ValuesOf(A) == CHOOSE value : value = [i \in DOMAIN A |-> Value(A, value, i)]

Agree(A, B, n) == \A i \in 1..n : A[i] = B[i]

\* A value depends on the values before it.
LEMMA ValueEarlier ==
  ASSUME NEW A, NEW B, NEW n \in Nat, Agree(A, B, n), NEW f, NEW g,
         NEW i \in 1..n, \A j \in 1..(i - 1) : f[j] = g[j]
  PROVE  Value(A, f, i) = Value(B, g, i)
  <1> DEFINE k == A[i][2][2]
             j == FirstBefore(A, k, i)
  <1>1. A[i] = B[i] /\ i \in Nat
    BY DEF Agree
  <1>2. \A a \in 1..(i - 1) : A[a] = B[a]
    BY DEF Agree
  <1>3. IsFirst(A, k, i, j)
    BY <1>1, FirstIs
  <1> HIDE DEF k, j
  <1>4. IsFirst(B, k, i, j)
    <2>1. CASE j = 0 /\ \A a \in 1..(i - 1) : A[a][1] # k
      BY <1>2, <2>1 DEF IsFirst
    <2>2. CASE /\ j \in 1..(i - 1) /\ A[j][1] = k
               /\ \A a \in 1..(j - 1) : A[a][1] # k
      <3>1. \A a \in 1..(j - 1) : a \in 1..(i - 1)
        BY <1>1, <2>2
      <3> QED
        BY <1>2, <2>2, <3>1 DEF IsFirst
    <2> QED
      BY <1>3, <2>1, <2>2 DEF IsFirst
  <1>5. FirstBefore(B, k, i) = j
    BY <1>1, <1>4, FirstOnly
  <1>6. j # 0 => f[j] = g[j]
    BY <1>3 DEF IsFirst
  <1> QED
    BY <1>1, <1>5, <1>6 DEF Value, k, j

\* The values are a recursion over the assignments.
LEMMA ValuesExist ==
  ASSUME NEW A, NEW n \in Nat, DOMAIN A = 1..n
  PROVE  ValuesOf(A) = [i \in 1..n |-> Value(A, ValuesOf(A), i)]
  <1> DEFINE Solved(m) == \E f : f = [i \in 1..m |-> Value(A, f, i)]
             S == {m \in Nat : m <= n => Solved(m)}
  <1>1. 0 \in S
    <2> DEFINE f == [i \in 1..0 |-> 0]
    <2>1. f = [i \in 1..0 |-> Value(A, f, i)]
      OBVIOUS
    <2> QED
      BY <2>1
  <1>2. ASSUME NEW m \in Nat, m \in S PROVE m + 1 \in S
    <2> SUFFICES ASSUME m + 1 <= n PROVE Solved(m + 1)
      OBVIOUS
    <2>1. PICK f : f = [i \in 1..m |-> Value(A, f, i)]
      BY <1>2
    <2> DEFINE k == m + 1
               h == [i \in 1..k |-> IF i = k THEN Value(A, f, k) ELSE f[i]]
    <2>2. \A i \in 1..m : h[i] = f[i] /\ i \in 1..k /\ i # k
      OBVIOUS
    <2>3. Agree(A, A, k) /\ k \in Nat
      BY DEF Agree
    <2>4. ASSUME NEW i \in 1..k PROVE h[i] = Value(A, h, i)
      <3>1. \A j \in 1..(i - 1) : j \in 1..m
        OBVIOUS
      <3>2. \A j \in 1..(i - 1) : f[j] = h[j]
        BY <2>2, <3>1
      <3>3. Value(A, f, i) = Value(A, h, i)
        <4> HIDE DEF h, k
        <4> QED
          BY <2>3, <3>2, ValueEarlier
      <3>4. CASE i = k
        BY <3>3, <3>4
      <3>5. CASE i # k
        <4>1. i \in 1..m
          BY <3>5
        <4>2. f[i] = Value(A, f, i)
          BY <2>1, <4>1
        <4>3. h[i] = f[i]
          BY <2>2, <4>1
        <4> QED
          BY <3>3, <4>2, <4>3
      <3> QED
        BY <3>4, <3>5
    <2>5. h = [i \in 1..k |-> h[i]]
      OBVIOUS
    <2> HIDE DEF h
    <2>6. h = [i \in 1..k |-> Value(A, h, i)]
      BY <2>4, <2>5
    <2> QED
      BY <2>6
  <1> HIDE DEF Solved
  <1>3. n \in S
    <2> HIDE DEF S
    <2> QED
      BY <1>1, <1>2, SetInduction
  <1>4. Solved(n)
    BY <1>3
  <1>5. \E f : f = [i \in DOMAIN A |-> Value(A, f, i)]
    BY <1>4 DEF Solved
  <1>6. ValuesOf(A) = [i \in DOMAIN A |-> Value(A, ValuesOf(A), i)]
    BY <1>5 DEF ValuesOf
  <1> QED
    BY <1>6

\* More assignments do not change the values of those before.
LEMMA ValuesKept ==
  ASSUME NEW A, NEW n \in Nat, DOMAIN A = 1..n,
         NEW B, NEW m \in Nat, DOMAIN B = 1..m, n <= m, Agree(A, B, n)
  PROVE  \A i \in 1..n : ValuesOf(A)[i] = ValuesOf(B)[i]
  <1> DEFINE f == ValuesOf(A)
             g == ValuesOf(B)
             S == {i \in Nat : i <= n => \A j \in 1..i : f[j] = g[j]}
  <1>1. 0 \in S
    OBVIOUS
  <1>2. ASSUME NEW i \in Nat, i \in S PROVE i + 1 \in S
    <2> SUFFICES ASSUME i + 1 <= n PROVE f[i + 1] = g[i + 1]
      BY <1>2
    <2> DEFINE k == i + 1
    <2>1. k \in 1..n /\ k \in 1..m /\ k - 1 = i
      OBVIOUS
    <2>2. f[k] = Value(A, f, k)
      BY <2>1, ValuesExist
    <2>3. g[k] = Value(B, g, k)
      BY <2>1, ValuesExist
    <2>4. \A j \in 1..(k - 1) : f[j] = g[j]
      BY <1>2
    <2>5. Value(A, f, k) = Value(B, g, k)
      <3> HIDE DEF f, g, k
      <3> QED
        BY <2>1, <2>4, ValueEarlier
    <2> QED
      BY <2>2, <2>3, <2>5
  <1>3. n \in S
    <2> HIDE DEF S
    <2> QED
      BY <1>1, <1>2, SetInduction
  <1> QED
    BY <1>3

KeysOf(A) == {A[i][1] : i \in DOMAIN A}

\* What assignments leave, said of one key.
LEMMA EntryIs ==
  ASSUME NEW A, NEW n \in Nat, DOMAIN A = 1..n, Len(A) = n
  PROVE  /\ DOMAIN Entries(A) = DOMAIN DefaultEntries \cup KeysOf(A)
         /\ Entries(A) = [k \in DOMAIN Entries(A) |-> Entries(A)[k]]
         /\ \A k \in DOMAIN DefaultEntries : Entries(A)[k] = DefaultEntries[k]
         /\ \A k \in KeysOf(A) \ DOMAIN DefaultEntries :
               Entries(A)[k] = ValuesOf(A)[FirstBefore(A, k, n + 1)]
  <1> DEFINE E == [k \in DOMAIN DefaultEntries \cup KeysOf(A) |->
                     IF k \in DOMAIN DefaultEntries THEN DefaultEntries[k]
                     ELSE ValuesOf(A)[FirstBefore(A, k, n + 1)]]
  <1>1. Entries(A) = E
    BY DEF Entries, ValuesOf, KeysOf
  <1> QED
    BY <1>1

\* No default is assigned.
NoDefault(A) == \A i \in DOMAIN A : A[i][1] \notin DOMAIN DefaultEntries

\* No assignments leave the defaults.
LEMMA EntriesNone == Entries(<<>>) = DefaultEntries
  <1> DEFINE A == <<>>
  <1>1. DOMAIN A = 1..0 /\ Len(A) = 0 /\ 0 \in Nat
    OBVIOUS
  <1>2. DOMAIN A = {}
    OBVIOUS
  <1> HIDE DEF A
  <1>3. KeysOf(A) = {}
    BY <1>2 DEF KeysOf
  <1>4. /\ DOMAIN Entries(A) = DOMAIN DefaultEntries
        /\ Entries(A) = [k \in DOMAIN Entries(A) |-> Entries(A)[k]]
        /\ \A k \in DOMAIN DefaultEntries : Entries(A)[k] = DefaultEntries[k]
    BY <1>1, <1>3, EntryIs
  <1>5. DefaultEntries = [k \in DOMAIN DefaultEntries |-> DefaultEntries[k]]
    BY DEF DefaultEntries
  <1>6. Entries(A) = DefaultEntries
    BY <1>4, <1>5
  <1> QED
    BY <1>6 DEF A

\* A default has a value that is not empty.
LEMMA DefaultFound ==
  \A k \in DOMAIN DefaultEntries : DefaultEntries[k] # Empty
  BY DEF DefaultEntries, Empty, Lit

\* One assignment more adds its key with the value it has now.
LEMMA EntriesMore ==
  ASSUME NEW S, NEW A \in Seq(S), NEW x \in S, NoDefault(A),
         x[1] \notin DOMAIN DefaultEntries
  PROVE  Entries(Append(A, x)) = Add(Entries(A), x[1], Replaced(Entries(A), x[2]))
  <1> DEFINE B == Append(A, x)
             n == Len(A)
             m == n + 1
             E == Entries(A)
             D == DOMAIN DefaultEntries
             f == ValuesOf(A)
             g == ValuesOf(B)
             k == x[1]
             v == x[2]
  <1>1. n \in Nat /\ m \in Nat /\ DOMAIN A = 1..n /\ n <= m /\ m \in 1..m
    OBVIOUS
  <1>2. DOMAIN B = 1..m /\ Len(B) = m /\ B[m] = x /\ Agree(A, B, n)
    BY DEF Agree
  <1>3. \A i \in 1..n : f[i] = g[i]
    <2> HIDE DEF B, n, m, f, g
    <2> QED
      BY <1>1, <1>2, ValuesKept DEF f, g
  <1>4. \A i \in 1..n : A[i] = B[i] /\ A[i][1] \notin D
    BY <1>1, <1>2 DEF Agree, NoDefault
  <1>5. KeysOf(B) = KeysOf(A) \cup {k}
    <2> HIDE DEF B, n
    <2>1. \A y \in KeysOf(B) : y \in KeysOf(A) \cup {k}
      <3> SUFFICES ASSUME NEW i \in DOMAIN B PROVE B[i][1] \in KeysOf(A) \cup {k}
        BY DEF KeysOf
      <3>1. i = m \/ i \in 1..n
        BY <1>1, <1>2
      <3> QED
        BY <1>1, <1>2, <1>4, <3>1 DEF KeysOf
    <2>2. \A y \in KeysOf(A) : y \in KeysOf(B)
      BY <1>1, <1>2, <1>4 DEF KeysOf
    <2>3. k \in KeysOf(B)
      BY <1>1, <1>2 DEF KeysOf
    <2> QED
      BY <2>1, <2>2, <2>3
  <1>6. KeysOf(A) \cap D = {} /\ k \notin D
    BY <1>1, <1>4 DEF KeysOf
  <1>7. /\ DOMAIN E = D \cup KeysOf(A)
        /\ \A y \in D : E[y] = DefaultEntries[y]
        /\ \A y \in KeysOf(A) \ D : E[y] = f[FirstBefore(A, y, m)]
    <2> HIDE DEF n
    <2> QED
      BY <1>1, EntryIs DEF n
  <1>8. /\ DOMAIN Entries(B) = D \cup KeysOf(B)
        /\ Entries(B) = [y \in DOMAIN Entries(B) |-> Entries(B)[y]]
        /\ \A y \in D : Entries(B)[y] = DefaultEntries[y]
        /\ \A y \in KeysOf(B) \ D : Entries(B)[y] = g[FirstBefore(B, y, m + 1)]
    <2> HIDE DEF B, m, n
    <2> QED
      BY <1>1, <1>2, EntryIs
  <1> HIDE DEF B, n, E, f, g, D, k, v
  \* A key that was there keeps its first assignment.
  <1>9. ASSUME NEW y \in KeysOf(A) PROVE Entries(B)[y] = E[y]
    <2> DEFINE j == FirstBefore(A, y, m)
    <2>1. IsFirst(A, y, m, j)
      BY <1>1, FirstIs
    <2> HIDE DEF j
    <2>2. PICK i \in 1..n : A[i][1] = y
      BY <1>1 DEF KeysOf
    <2>3. j \in 1..n /\ A[j][1] = y /\ \A a \in 1..(j - 1) : A[a][1] # y
      BY <1>1, <2>1, <2>2 DEF IsFirst
    <2>4. \A a \in 1..(j - 1) : a \in 1..n
      BY <1>1, <2>3
    <2>5. IsFirst(B, y, m + 1, j)
      BY <1>1, <1>4, <2>3, <2>4 DEF IsFirst
    <2>6. FirstBefore(B, y, m + 1) = j
      BY <1>1, <2>5, FirstOnly
    <2> QED
      BY <1>3, <1>5, <1>6, <1>7, <1>8, <2>3, <2>6 DEF j
  \* A new key has the value of the new assignment.
  <1>10. ASSUME k \notin KeysOf(A) PROVE Entries(B)[k] = Replaced(E, v)
    <2>1. IsFirst(B, k, m + 1, m)
      <3>1. \A a \in 1..n : B[a][1] # k
        BY <1>1, <1>4, <1>10 DEF KeysOf
      <3> QED
        BY <1>1, <1>2, <3>1 DEF IsFirst, k
    <2>2. FirstBefore(B, k, m + 1) = m
      BY <1>1, <2>1, FirstOnly
    <2>3. Entries(B)[k] = g[m]
      BY <1>5, <1>6, <1>8, <2>2
    <2>4. g[m] = Value(B, g, m)
      BY <1>1, <1>2, ValuesExist DEF g
    <2> DEFINE j == FirstBefore(B, v[2], m)
    <2>5. Value(B, g, m) = IF v[1] = "lit" THEN v
                           ELSE IF v[2] \in D THEN DefaultEntries[v[2]]
                           ELSE IF j = 0 THEN v
                           ELSE IF g[j] = Empty THEN v ELSE g[j]
      BY <1>2 DEF Value, v, D
    <2>6. IsFirst(B, v[2], m, j)
      BY <1>1, FirstIs
    <2> HIDE DEF j
    <2>7. CASE v[1] = "lit"
      BY <2>3, <2>4, <2>5, <2>7 DEF Replaced
    <2>8. CASE v[1] # "lit" /\ v[2] \in D
      <3>1. v[2] \in DOMAIN E /\ E[v[2]] = DefaultEntries[v[2]] /\ E[v[2]] # Empty
        BY <1>7, <2>8, DefaultFound DEF D
      <3> QED
        BY <2>3, <2>4, <2>5, <2>8, <3>1 DEF Replaced, Found, VarContent, Get
    <2>9. CASE v[1] # "lit" /\ v[2] \notin D /\ j = 0
      <3>1. \A a \in 1..n : A[a][1] # v[2]
        BY <1>1, <1>4, <2>6, <2>9 DEF IsFirst
      <3>2. v[2] \notin DOMAIN E
        BY <1>1, <1>7, <2>9, <3>1 DEF KeysOf
      <3> QED
        BY <2>3, <2>4, <2>5, <2>9, <3>2 DEF Replaced, Found, VarContent, Get
    <2>10. CASE v[1] # "lit" /\ v[2] \notin D /\ j # 0
      <3>1. j \in 1..n /\ B[j][1] = v[2] /\ \A a \in 1..(j - 1) : B[a][1] # v[2]
        BY <1>1, <2>6, <2>10 DEF IsFirst
      <3>2. \A a \in 1..(j - 1) : a \in 1..n
        BY <1>1, <3>1
      <3>3. IsFirst(A, v[2], m, j)
        BY <1>1, <1>4, <3>1, <3>2 DEF IsFirst
      <3>4. FirstBefore(A, v[2], m) = j
        BY <1>1, <3>3, FirstOnly
      <3>5. v[2] \in KeysOf(A)
        BY <1>1, <1>4, <3>1 DEF KeysOf
      <3>6. v[2] \in DOMAIN E /\ E[v[2]] = g[j]
        BY <1>3, <1>7, <2>10, <3>1, <3>4, <3>5
      <3> QED
        BY <2>3, <2>4, <2>5, <2>10, <3>6 DEF Replaced, Found, VarContent, Get
    <2> QED
      BY <2>7, <2>8, <2>9, <2>10
  <1> DEFINE R == Add(E, k, Replaced(E, v))
  <1>11. /\ DOMAIN R = DOMAIN E \cup {k}
         /\ R = [y \in DOMAIN R |-> R[y]]
         /\ \A y \in DOMAIN E : R[y] = E[y]
         /\ k \notin DOMAIN E => R[k] = Replaced(E, v)
    BY DEF Add
  <1> HIDE DEF R
  <1>12. DOMAIN R = DOMAIN Entries(B)
    BY <1>5, <1>7, <1>8, <1>11
  <1>13. ASSUME NEW y \in DOMAIN R PROVE R[y] = Entries(B)[y]
    <2>1. CASE y \in KeysOf(A)
      BY <1>7, <1>9, <1>11, <2>1
    <2>2. CASE y \in D
      BY <1>7, <1>8, <1>11, <2>2
    <2>3. CASE y = k /\ k \notin KeysOf(A)
      BY <1>6, <1>7, <1>10, <1>11, <2>3
    <2> QED
      BY <1>7, <1>11, <2>1, <2>2, <2>3
  <1>14. R = Entries(B)
    BY <1>8, <1>11, <1>12, <1>13
  <1> QED
    BY <1>14 DEF R, B, E, k, v

\* Sequences of one element.
LEMMA OneElement ==
  ASSUME NEW p, NEW q
  PROVE  /\ Append(<<p>>, q) = <<p, q>>
         /\ Append(<<>>, p) = <<p>>
         /\ SubSeq(<<p, q>>, 1, 1) = <<p>>
         /\ Front(<<p>>) = <<>> /\ Last(<<p>>) = p
  <1> DEFINE S == {p, q}
  <1>1. <<p>> \in Seq(S) /\ <<p, q>> \in Seq(S) /\ <<>> \in Seq(S)
    OBVIOUS
  <1>2. Len(<<p>>) = 1 /\ Len(<<p, q>>) = 2 /\ Len(<<>>) = 0
    OBVIOUS
  <1>3. <<p>>[1] = p /\ <<p, q>>[1] = p /\ <<p, q>>[2] = q
    OBVIOUS
  <1>4. p \in S /\ q \in S
    OBVIOUS
  <1> DEFINE x == <<p>>
             y == <<p, q>>
             z == <<>>
  <1>5. Append(x, q) = y
    <2> HIDE DEF S, x, y
    <2>1. Append(x, q) \in Seq(S) /\ Len(Append(x, q)) = 2
          /\ Append(x, q)[1] = p /\ Append(x, q)[2] = q
      BY <1>1, <1>2, <1>3, <1>4 DEF x
    <2>2. \A i \in 1..2 : Append(x, q)[i] = y[i]
      BY <1>3, <2>1 DEF y
    <2> QED
      BY <1>1, <1>2, <2>1, <2>2, SeqEqual DEF y
  <1>6. Append(z, p) = x
    <2> HIDE DEF S, x, z
    <2>1. Append(z, p) \in Seq(S) /\ Len(Append(z, p)) = 1 /\ Append(z, p)[1] = p
      BY <1>1, <1>2, <1>4 DEF z
    <2>2. x \in Seq(S) /\ Len(x) = 1 /\ x[1] = p
      BY <1>1, <1>2, <1>3 DEF x
    <2>3. \A i \in 1..Len(x) : Append(z, p)[i] = x[i]
      BY <2>1, <2>2
    <2> QED
      BY <2>1, <2>2, <2>3, SeqEqual
  <1>7. SubSeq(y, 1, 1) = x
    <2> HIDE DEF S, x, y
    <2>0. \A i \in 1..1 : y[i] \in S
      BY <1>3, <1>4 DEF y
    <2>1. /\ SubSeq(y, 1, 1) \in Seq(S)
          /\ Len(SubSeq(y, 1, 1)) = 1
          /\ \A i \in 1..1 : SubSeq(y, 1, 1)[i] = y[1 + i - 1]
      BY <2>0, SubSeqProperties
    <2>2. SubSeq(y, 1, 1)[1] = p
      BY <1>3, <2>1 DEF y
    <2> QED
      <3>1. x \in Seq(S) /\ Len(x) = 1 /\ x[1] = p
        BY <1>1, <1>2, <1>3 DEF x
      <3>2. \A i \in 1..Len(x) : SubSeq(y, 1, 1)[i] = x[i]
        BY <2>2, <3>1
      <3> QED
        BY <2>1, <3>1, <3>2, SeqEqual
  <1>8. Last(x) = p
    BY <1>2, <1>3 DEF Last
  <1>9. Front(x) = z
    <2> HIDE DEF S, x, z
    <2>1. Len(x) = 1 /\ x \in Seq(S)
      BY <1>1, <1>2 DEF x
    <2>2. SubSeq(x, 1, 0) = <<>>
      BY <2>1
    <2> QED
      BY <2>1, <2>2 DEF Front, z
  <1> QED
    BY <1>5, <1>6, <1>7, <1>8, <1>9

\* The key of an assignment in the block p, a part of one name.
LEMMA KeyIs ==
  ASSUME NEW p, NEW name
  PROVE  Key(<<p>>, name) = <<p, Part(name)>>
  <1>1. <<p>> # <<>>
    OBVIOUS
  <1>2. Append(<<p>>, Part(name)) = <<p, Part(name)>>
    BY OneElement
  <1> QED
    BY <1>1, <1>2 DEF Key

\* No key of a block is that of a default.
LEMMA KeyNoDefault ==
  ASSUME NEW p, NEW name
  PROVE  Key(<<p>>, name) \notin DOMAIN DefaultEntries
  <1>1. Len(<<p, Part(name)>>) = 2
    OBVIOUS
  <1>2. \A k \in DOMAIN DefaultEntries : Len(k) = 1
    BY DEF DefaultEntries
  <1> QED
    BY <1>1, <1>2, KeyIs

\* The numbers of one key behind a name.
LEMMA NumbersOfKey ==
  ASSUME NEW e, NEW name, NEW x, NEW n, NEW k
  PROVE  LET key == Key(<<Numbered(x, n)>>, k)
             c   == <<Part(name)>>
         IN  /\ Len(key) > Len(c)
             /\ Number(SubSeq(key, 1, Len(c)), 0) = <<Numbered(x, 0)>>
             /\ key[Len(c)][2] = n
  <1> DEFINE key == <<Numbered(x, n), Part(k)>>
             c == <<Part(name)>>
  <1>1. Len(key) = 2 /\ Len(<<Part(name)>>) = 1
    OBVIOUS
  <1>2. SubSeq(key, 1, 1) = <<Numbered(x, n)>>
    BY OneElement
  <1>3. Number(<<Numbered(x, n)>>, 0) = <<Numbered(x, 0)>>
    <2> DEFINE y == Numbered(x, n)
    <2>1. y[1] = x
      BY DEF Numbered
    <2> HIDE DEF y
    <2>2. Last(<<y>>) = y /\ Front(<<y>>) = <<>>
      BY OneElement
    <2>3. Append(<<>>, Numbered(x, 0)) = <<Numbered(x, 0)>>
      BY OneElement
    <2> QED
      BY <2>1, <2>2, <2>3 DEF Number, y
  <1>4. key[1][2] = n
    BY DEF Numbered
  <1>5. Len(key) > Len(c) /\ Len(c) = 1
    BY <1>1
  <1>6. key = Key(<<Numbered(x, n)>>, k)
    BY KeyIs
  <1> HIDE DEF key, c
  <1>7. Number(SubSeq(key, 1, Len(c)), 0) = <<Numbered(x, 0)>>
    BY <1>2, <1>3, <1>5
  <1> QED
    BY <1>4, <1>5, <1>6, <1>7 DEF c

\* What a key adds to the numbers of a name.
LEMMA NumbersAdd ==
  ASSUME NEW e, NEW name, NEW x, NEW n, NEW k, NEW v
  PROVE  Numbers(Add(e, Key(<<Numbered(x, n)>>, k), v), <<Part(name)>>) =
           Numbers(e, <<Part(name)>>) \cup (IF x = name /\ n # 0 THEN {n} ELSE {})
  <1> DEFINE key == Key(<<Numbered(x, n)>>, k)
             c   == <<Part(name)>>
             a   == Add(e, key, v)
             In(y) == Len(y) > Len(c) /\ Number(SubSeq(y, 1, Len(c)), 0) = c
  <1>1. DOMAIN a = DOMAIN e \cup {key}
    BY DEF Add
  <1>2. In(key) <=> x = name
    <2>1. <<Numbered(x, 0)>> = c <=> x = name
      BY DEF Numbered, Part
    <2> QED
      BY <2>1, NumbersOfKey
  <1>3. key[Len(c)][2] = n
    BY NumbersOfKey
  <1>4. Numbers(a, c) = {y[Len(c)][2] : y \in {y \in DOMAIN a : In(y)}} \ {0}
    BY DEF Numbers
  <1>5. Numbers(e, c) = {y[Len(c)][2] : y \in {y \in DOMAIN e : In(y)}} \ {0}
    BY DEF Numbers
  <1> HIDE DEF key, c, a, In
  <1>6. {y \in DOMAIN a : In(y)} = {y \in DOMAIN e : In(y)} \cup (IF x = name THEN {key} ELSE {})
    BY <1>1, <1>2
  <1>7. CASE x = name
    BY <1>3, <1>4, <1>5, <1>6, <1>7 DEF key, c, a
  <1>8. CASE x # name
    BY <1>4, <1>5, <1>6, <1>8 DEF key, c, a
  <1> QED
    BY <1>7, <1>8

\* At first no name has a number.
LEMMA NumbersNone ==
  ASSUME NEW name
  PROVE  Numbers(DefaultEntries, <<Part(name)>>) = {}
  <1>1. \A k \in DOMAIN DefaultEntries : ~(Len(k) > Len(<<Part(name)>>))
    <2>1. Len(<<Part(name)>>) = 1
      OBVIOUS
    <2>2. \A k \in DOMAIN DefaultEntries : Len(k) = 1
      BY DEF DefaultEntries
    <2> QED
      BY <2>1, <2>2
  <1> QED
    BY <1>1 DEF Numbers

\* Numbers of one digit are in the order of their texts.
LEMMA DigitOrder ==
  ASSUME NEW i \in 1..8
  PROVE  TextBefore(i, i + 1)
  <1> DEFINE a == Digits(i)
             b == Digits(i + 1)
  <1>1. a = <<i>> /\ b = <<i + 1>>
    BY DEF Digits
  <1>2. Len(a) = 1 /\ Len(b) = 1 /\ a[1] < b[1]
    BY <1>1
  <1> HIDE DEF a, b
  <1>3. \E p \in 1..2 : /\ p <= Len(a) /\ p <= Len(b)
                        /\ \A q \in 1..(p - 1) : a[q] = b[q]
                        /\ a[p] < b[p]
    <2>1. 1 \in 1..2 /\ \A q \in 1..(1 - 1) : FALSE
      OBVIOUS
    <2> QED
      BY <1>2, <2>1
  <1> QED
    BY <1>3 DEF TextBefore, a, b

\* Up to nine blocks, their last number is found.
LEMMA LastIndexIs ==
  ASSUME NEW e, NEW category, NEW c \in 0..9, Numbers(e, category) = 1..c
  PROVE  LastIndex(e, category) = c
  <1> DEFINE used == Numbers(e, category)
             Is(n) == /\ \A i \in 1..n : i \in used /\ (i > 1 => TextBefore(i - 1, i))
                      /\ ~(n + 1 \in used /\ (n > 0 => TextBefore(n, n + 1)))
  <1>1. Cardinality(used) = c
    <2>1. c \in Int /\ 1 \in Int
      OBVIOUS
    <2>2. Cardinality(1..c) = IF 1 > c THEN 0 ELSE c - 1 + 1
      BY ONLY <2>1, FS_Interval
    <2>3. Cardinality(1..c) = c
      BY <2>2
    <2> QED
      BY <2>3
  <1>2. c \in 0..Cardinality(used)
    BY <1>1
  <1>3. \A i \in 2..c : TextBefore(i - 1, i)
    <2> SUFFICES ASSUME NEW i \in 2..c PROVE TextBefore(i - 1, i)
      OBVIOUS
    <2> DEFINE j == i - 1
    <2>1. j \in 1..8 /\ i = j + 1
      OBVIOUS
    <2> HIDE DEF j
    <2>2. TextBefore(j, j + 1)
      BY <2>1, DigitOrder
    <2> QED
      BY <2>1, <2>2 DEF j
  <1>4. Is(c)
    <2>1. \A i \in 1..c : i \in used /\ (i > 1 => TextBefore(i - 1, i))
      BY <1>3
    <2>2. c + 1 \notin used
      OBVIOUS
    <2> QED
      BY <2>1, <2>2
  <1>5. ASSUME NEW n \in 0..Cardinality(used), Is(n) PROVE n = c
    <2>1. n \in 0..c
      BY <1>1
    <2>2. CASE n < c
      <3>1. n + 1 \in used
        BY <2>1, <2>2
      <3>2. n > 0 => n \in 1..8
        BY <2>1, <2>2
      <3>3. n > 0 => TextBefore(n, n + 1)
        BY <3>2, DigitOrder
      <3> QED
        BY <1>5, <3>1, <3>3
    <2> QED
      BY <2>1, <2>2
  <1>6. LastIndex(e, category) = CHOOSE n \in 0..Cardinality(used) : Is(n)
    BY DEF LastIndex
  <1> HIDE DEF Is, used
  <1> QED
    BY <1>2, <1>4, <1>5, <1>6

Fields == {"entries", "files", "modules", "sequences", "warnings", "fate", "category", "permit"}

IsReader(r) == r = [f \in Fields |-> r[f]]

\* A reader between the lines of a block b, or between blocks.
Reads(r) == IsReader(r) /\ r.fate = "reading"
Within(r, b) == Reads(r) /\ r.category = <<b>>

\* What a line inside of a block leaves alone.
Keeps(r, t) == t.files = r.files /\ t.sequences = r.sequences /\ t.fate = r.fate

\* A warning changes nothing but their number.
LEMMA WarnedKeeps ==
  ASSUME NEW r, IsReader(r)
  PROVE  /\ IsReader(Warned(r)) /\ Keeps(r, Warned(r))
         /\ Warned(r).entries = r.entries
         /\ Warned(r).category = r.category
         /\ Warned(r).permit = r.permit
  BY DEF IsReader, Fields, Warned, Keeps

\* "{" of a block that stands in no other.
LEMMA Opens ==
  ASSUME NEW r, Reads(r), r.category = <<>>, NEW l, l.do = "open"
  PROVE  LET n == IF l.plus \/ <<Part(l.name)>> \in r.sequences
                  THEN LastIndex(r.entries, <<Part(l.name)>>) + 1 ELSE 0
             t == Line(r, l)
         IN  /\ Within(t, Numbered(l.name, n)) /\ Keeps(r, t)
             /\ t.entries = r.entries
             /\ t.permit = r.permit
  <1> DEFINE p == Part(l.name)
             c == <<p>>
             n == IF l.plus \/ c \in r.sequences THEN LastIndex(r.entries, c) + 1 ELSE 0
  <1>1. <<>> \o c = c
    <2>1. c \in Seq({p})
      OBVIOUS
    <2> HIDE DEF c
    <2> QED
      BY <2>1, ConcatEmptySeq
  <1>2. ASSUME NEW m PROVE Number(c, m) = <<Numbered(l.name, m)>>
    <2>1. Last(c) = p /\ Front(c) = <<>>
      BY OneElement
    <2>2. p[1] = l.name
      BY DEF Part
    <2>3. Append(<<>>, Numbered(l.name, m)) = <<Numbered(l.name, m)>>
      BY OneElement
    <2> HIDE DEF p, c
    <2> QED
      BY <2>1, <2>2, <2>3 DEF Number
  <1>3. p = Numbered(l.name, 0)
    BY DEF Part, Numbered
  <1>4. Line(r, l) = Open(r, l)
    BY DEF Line, Reads
  <1>5. (IF l.plus THEN c ELSE r.category \o c) = c
    BY <1>1
  <1>6. Open(r, l) = [r EXCEPT !.category = <<Numbered(l.name, n)>>]
    <2> HIDE DEF p, c
    <2>1. Open(r, l) = [r EXCEPT !.category =
                          IF l.plus \/ c \in r.sequences
                          THEN Number(c, LastIndex(r.entries, c) + 1)
                          ELSE c]
      BY <1>1 DEF Open, p, c
    <2> QED
      BY <2>1, <1>2, <1>3 DEF c
  <1> HIDE DEF n, p, c
  <1> QED
    BY <1>4, <1>6 DEF Within, Reads, IsReader, Fields, Keeps, n, c, p

\* "};" of a block that stands in no other.
LEMMA Closes ==
  ASSUME NEW r, NEW b, Within(r, b)
  PROVE  LET t == Line(r, [do |-> "close"])
         IN  /\ Reads(t) /\ Keeps(r, t)
             /\ t.category = <<>>
             /\ t.entries = r.entries
             /\ t.permit = r.permit
  <1> DEFINE c == <<b>>
  <1>1. ~(Len(c) > 1)
    OBVIOUS
  <1>2. Line(r, [do |-> "close"]) = Close(r)
    BY DEF Line, Within, Reads
  <1>3. r.category = c
    BY DEF Within
  <1> HIDE DEF c
  <1>4. Close(r) = [r EXCEPT !.category = <<>>]
    BY <1>1, <1>3 DEF Close
  <1> QED
    BY <1>2, <1>4 DEF Within, Reads, IsReader, Fields, Keeps

\* "key value;" under a condition that holds, and under one that does not.
LEMMA Assigns ==
  ASSUME NEW r, NEW b, Within(r, b), NEW x
  PROVE  LET t == Line(r, AssignLine(x))
         IN  /\ ~r.permit => t = r
             /\ r.permit = TRUE =>
                   /\ Within(t, b) /\ Keeps(r, t) /\ t.permit = TRUE
                   /\ t.entries = Add(r.entries, Key(<<b>>, x[1]), Replaced(r.entries, x[2]))
  <1> DEFINE l == AssignLine(x)
             s == IF Found(r.entries, l.val) THEN r ELSE Warned(r)
  <1>1. l.do = "assign" /\ l.key = x[1] /\ l.val = x[2]
    BY DEF AssignLine
  <1>2. Line(r, l) = IF r.permit THEN Assign(r, l) ELSE r
    BY <1>1 DEF Line, Directive, Within, Reads
  <1>3. /\ IsReader(s) /\ Keeps(r, s)
        /\ s.entries = r.entries /\ s.category = <<b>> /\ s.permit = r.permit
    BY WarnedKeeps DEF Within, Reads, Keeps
  <1>4. Assign(r, l) = [s EXCEPT !.entries =
                          Add(@, Key(r.category, x[1]), Replaced(r.entries, x[2]))]
    BY <1>1 DEF Assign
  <1>5. r.category = <<b>> /\ r.fate = "reading"
    BY DEF Within, Reads
  <1> HIDE DEF s, l
  <1>6. ASSUME r.permit = TRUE
        PROVE  LET t == Assign(r, l)
               IN  /\ Within(t, b) /\ Keeps(r, t) /\ t.permit = TRUE
                   /\ t.entries = Add(r.entries, Key(<<b>>, x[1]), Replaced(r.entries, x[2]))
    BY <1>3, <1>4, <1>5, <1>6 DEF Within, Reads, IsReader, Fields, Keeps
  <1> QED
    BY <1>2, <1>6 DEF l

\* What is appended to the end of two sequences.
LEMMA AppendConcat ==
  ASSUME NEW S, NEW p \in Seq(S), NEW q \in Seq(S), NEW e \in S
  PROVE  p \o Append(q, e) = Append(p \o q, e)
  <1> DEFINE u == <<e>>
  <1>1. u \in Seq(S) /\ p \o q \in Seq(S)
    BY ConcatProperties
  <1>2. Append(q, e) = q \o u /\ Append(p \o q, e) = (p \o q) \o u
    BY <1>1, AppendIsConcat
  <1> HIDE DEF u
  <1>3. (p \o q) \o u = p \o (q \o u)
    BY <1>1, ConcatAssociative, SMTT(30)
  <1> QED
    BY <1>2, <1>3

\* A sequence grown by the next element of another.
LEMMA GrownBy ==
  ASSUME NEW S, NEW A \in Seq(S), NEW s \in Seq(S), NEW i \in Nat, i < Len(s)
  PROVE  /\ A \o SubSeq(s, 1, i) \in Seq(S)
         /\ s[i + 1] \in S
         /\ A \o SubSeq(s, 1, i + 1) = Append(A \o SubSeq(s, 1, i), s[i + 1])
  <1> DEFINE k == i + 1
             a == SubSeq(s, 1, i)
             x == s[k]
  <1>1. /\ k \in 1..Len(s) /\ k - 1 = i /\ 1 \in 1..Len(s) + 1 /\ 1 <= k
        /\ i <= Len(s) /\ Len(s) \in Nat
    OBVIOUS
  <1>2. x \in S
    BY <1>1, ElementOfSeq
  <1>3. a \in Seq(S)
    <2>1. \A j \in 1..i : s[j] \in S
      BY <1>1, ElementOfSeq
    <2> QED
      BY <2>1, SubSeqProperties
  <1>4. SubSeq(s, 1, k) = Append(a, x)
    <2>1. SubSeq(s, 1, k) = Append(SubSeq(s, 1, k - 1), s[k])
      <3> HIDE DEF k
      <3> QED
        BY <1>1, SubSeqRecursiveSecond
    <2> QED
      BY <1>1, <2>1
  <1> HIDE DEF a, x
  <1>5. A \o Append(a, x) = Append(A \o a, x)
    BY <1>2, <1>3, AppendConcat
  <1>6. A \o a \in Seq(S)
    BY <1>3, ConcatProperties
  <1> QED
    BY <1>2, <1>4, <1>5, <1>6 DEF a, x, k

\* The entries of r are those the assignments A leave.
Holding(r, A) == r.entries = Entries(A)

\* The assignments s are the lines sets of the block b.
Settles(s, sets, b) ==
    /\ DOMAIN sets = 1..Len(s)
    /\ \A i \in 1..Len(s) : s[i] = <<Key(<<b>>, sets[i][1]), sets[i][2]>>

\* A read from r to t has numbered some keys of the name x with m.
NumbersMore(r, t, x, m, s) ==
    \A name : Numbers(t.entries, <<Part(name)>>) =
                 Numbers(r.entries, <<Part(name)>>)
                 \cup (IF x = name /\ m # 0 /\ s # <<>> THEN {m} ELSE {})

\* The lines of a block leave their assignments, one after the other.
LEMMA SetsRead ==
  ASSUME NEW S, NEW A \in Seq(S), NEW s \in Seq(S), NoDefault(A),
         NEW r, NEW x, NEW m, Within(r, Numbered(x, m)), r.permit = TRUE,
         Holding(r, A),
         NEW sets, Settles(s, sets, Numbered(x, m))
  PROVE  LET t == AssignAll(r, sets)
         IN  /\ Within(t, Numbered(x, m)) /\ Keeps(r, t) /\ t.permit = TRUE
             /\ Holding(t, A \o s) /\ NoDefault(A \o s)
             /\ NumbersMore(r, t, x, m, s)
  <1> DEFINE n == Len(s)
             b == Numbered(x, m)
             t == AssignAll(r, sets)
             B(i) == A \o SubSeq(s, 1, i)
  <1>0. /\ DOMAIN sets = 1..n
        /\ \A i \in 1..n : s[i] = <<Key(<<b>>, sets[i][1]), sets[i][2]>>
    BY DEF Settles
  <1>1. n \in Nat
    OBVIOUS
  <1>2. EachRuns("settings", 0, r, sets, n, t)
    BY <1>0, <1>1, SettingsRun DEF AssignAll
  <1> HIDE DEF t
  <1>3. PICK q : /\ q[0] = r /\ q[n] = t
                 /\ \A i \in 1..n : q[i] = Line(q[i - 1], AssignLine(sets[i]))
    BY <1>2 DEF EachRuns, Each
  <1> DEFINE Fine(i) == /\ Within(q[i], b) /\ Keeps(r, q[i]) /\ q[i].permit = TRUE
                        /\ q[i].entries = Entries(B(i)) /\ NoDefault(B(i))
                        /\ \A name : Numbers(q[i].entries, <<Part(name)>>) =
                              Numbers(r.entries, <<Part(name)>>)
                              \cup (IF x = name /\ m # 0 /\ i # 0 THEN {m} ELSE {})
             I == {i \in Nat : i <= n => Fine(i)}
  <1>4. 0 \in I
    <2>1. B(0) = A
      <3>1. SubSeq(s, 1, 0) = <<>>
        BY SubSeqEmpty
      <3> QED
        BY <3>1, ConcatEmptySeq
    <2> QED
      BY <1>3, <2>1 DEF Keeps, Holding
  <1>5. ASSUME NEW i \in Nat, i \in I PROVE i + 1 \in I
    <2> SUFFICES ASSUME i + 1 <= n PROVE Fine(i + 1)
      <3> HIDE DEF Fine
      <3> QED
        OBVIOUS
    <2> DEFINE k == i + 1
               y == s[k]
               C == B(i)
    <2>1. Fine(i) /\ i < n /\ k \in 1..n /\ k - 1 = i /\ k # 0
      <3> HIDE DEF Fine
      <3> QED
        BY <1>1, <1>5
    <2>2. C \in Seq(S) /\ y \in S /\ B(k) = Append(C, y)
      <3> HIDE DEF Fine, I
      <3> QED
        BY <2>1, GrownBy
    <2>3. y[1] = Key(<<b>>, sets[k][1]) /\ y[2] = sets[k][2]
      BY <1>0, <2>1
    <2>4. y[1] \notin DOMAIN DefaultEntries
      BY <2>3, KeyNoDefault
    <2>5. q[k] = Line(q[i], AssignLine(sets[k]))
      BY <1>3, <2>1
    <2>6. /\ Within(q[k], b) /\ Keeps(q[i], q[k]) /\ q[k].permit = TRUE
          /\ q[k].entries = Add(q[i].entries, Key(<<b>>, sets[k][1]),
                                Replaced(q[i].entries, sets[k][2]))
      <3> DEFINE z == sets[k]
                 w == q[i]
      <3>1. Within(w, b) /\ w.permit = TRUE
        BY <2>1
      <3> HIDE DEF b, B, Fine, I, z, w, k
      <3>2. /\ Within(Line(w, AssignLine(z)), b) /\ Keeps(w, Line(w, AssignLine(z)))
            /\ Line(w, AssignLine(z)).permit = TRUE
            /\ Line(w, AssignLine(z)).entries =
                  Add(w.entries, Key(<<b>>, z[1]), Replaced(w.entries, z[2]))
        BY ONLY <3>1, Assigns
      <3> QED
        BY <2>5, <3>2 DEF w, z
    <2>7. q[k].entries = Add(q[i].entries, y[1], Replaced(q[i].entries, y[2]))
      BY <2>3, <2>6
    <2>8. NoDefault(B(k)) /\ Entries(B(k)) = Add(Entries(C), y[1], Replaced(Entries(C), y[2]))
      <3>0. NoDefault(C)
        BY <2>1
      <3> HIDE DEF C, y, B, k
      <3>1. Entries(Append(C, y)) = Add(Entries(C), y[1], Replaced(Entries(C), y[2]))
        BY <2>2, <2>4, <3>0, EntriesMore
      <3>2. NoDefault(Append(C, y))
        <4> DEFINE z == Append(C, y)
        <4>1. /\ Len(z) = Len(C) + 1 /\ DOMAIN z = 1..Len(z) /\ DOMAIN C = 1..Len(C)
              /\ Len(C) \in Nat
              /\ z[Len(C) + 1] = y /\ \A j \in 1..Len(C) : z[j] = C[j]
          BY <2>2, AppendProperties
        <4> HIDE DEF z
        <4> QED
          BY <2>4, <3>0, <4>1 DEF NoDefault, z
      <3> QED
        BY <2>2, <3>1, <3>2
    <2>9. ASSUME NEW name
          PROVE  Numbers(q[k].entries, <<Part(name)>>) =
                   Numbers(r.entries, <<Part(name)>>)
                   \cup (IF x = name /\ m # 0 /\ k # 0 THEN {m} ELSE {})
      <3>1. Numbers(q[k].entries, <<Part(name)>>) =
              Numbers(q[i].entries, <<Part(name)>>) \cup (IF x = name /\ m # 0 THEN {m} ELSE {})
        <4> DEFINE e == q[i].entries
                   y1 == sets[k][1]
                   y2 == Replaced(e, sets[k][2])
        <4>1. q[k].entries = Add(e, Key(<<b>>, y1), y2)
          BY <2>6
        <4> HIDE DEF Fine, k, I, e, y1, y2
        <4>2. Numbers(Add(e, Key(<<Numbered(x, m)>>, y1), y2), <<Part(name)>>) =
                Numbers(e, <<Part(name)>>) \cup (IF x = name /\ m # 0 THEN {m} ELSE {})
          BY ONLY NumbersAdd
        <4> QED
          BY <4>1, <4>2 DEF e
      <3>2. Numbers(q[i].entries, <<Part(name)>>) =
              Numbers(r.entries, <<Part(name)>>)
              \cup (IF x = name /\ m # 0 /\ i # 0 THEN {m} ELSE {})
        BY <2>1
      <3> QED
        BY <2>1, <3>1, <3>2
    <2>10. Keeps(r, q[k])
      BY <2>1, <2>6 DEF Keeps
    <2>11. q[k].entries = Entries(B(k))
      BY <2>1, <2>7, <2>8
    <2> HIDE DEF B, b, y, C
    <2> QED
      BY <2>6, <2>8, <2>9, <2>10, <2>11
  <1> HIDE DEF Fine
  <1>6. n \in I
    <2> HIDE DEF I
    <2>1. Nat \subseteq I
      BY <1>4, <1>5, SetInduction
    <2> QED
      BY <1>1, <2>1
  <1>7. Fine(n)
    BY <1>1, <1>6
  <1>8. B(n) = A \o s
    <2>1. SubSeq(s, 1, Len(s)) = s
      BY SubSeqFull
    <2> QED
      BY <2>1
  <1>9. s # <<>> <=> n # 0
    OBVIOUS
  <1> HIDE DEF B, n
  <1>10. /\ Within(t, b) /\ Keeps(r, t) /\ t.permit = TRUE
         /\ Holding(t, A \o s) /\ NoDefault(A \o s)
    BY <1>3, <1>7, <1>8 DEF Fine, Holding
  <1>11. NumbersMore(r, t, x, m, s)
    BY <1>3, <1>7, <1>9 DEF Fine, NumbersMore
  <1> QED
    BY <1>10, <1>11 DEF t, b

\* Lines that change nothing.
LEMMA SetsSkipped ==
  ASSUME NEW r, \A y : Line(r, AssignLine(y)) = r,
         NEW sets, NEW n \in Nat, DOMAIN sets = 1..n
  PROVE  AssignAll(r, sets) = r
  <1> DEFINE t == AssignAll(r, sets)
  <1>1. EachRuns("settings", 0, r, sets, n, t)
    BY SettingsRun DEF AssignAll
  <1> HIDE DEF t
  <1>2. PICK q : /\ q[0] = r /\ q[n] = t
                 /\ \A i \in 1..n : q[i] = Line(q[i - 1], AssignLine(sets[i]))
    BY <1>1 DEF EachRuns, Each
  <1> DEFINE I == {i \in Nat : i <= n => q[i] = r}
  <1>3. 0 \in I
    BY <1>2
  <1>4. ASSUME NEW i \in Nat, i \in I PROVE i + 1 \in I
    <2> SUFFICES ASSUME i + 1 <= n PROVE q[i + 1] = r
      OBVIOUS
    <2>1. q[i] = r /\ i + 1 \in 1..n /\ (i + 1) - 1 = i
      BY <1>4
    <2> QED
      BY <1>2, <2>1
  <1>5. n \in I
    <2> HIDE DEF I
    <2>1. Nat \subseteq I
      BY <1>3, <1>4, SetInduction
    <2> QED
      BY <2>1
  <1>6. t = r
    BY <1>2, <1>5
  <1> QED
    BY <1>6 DEF t

\* A read that has ended reads no item.
LEMMA Unread ==
  ASSUME NEW r, r.fate # "reading", NEW item,
         item.do = "block" => \E n \in Nat : DOMAIN item.sets = 1..n
  PROVE  Item(r, item) = r
  <1>1. \A l : Line(r, l) = r
    BY DEF Line
  <1>2. CASE item.do # "block"
    BY <1>1, <1>2 DEF Item
  <1>3. CASE item.do = "block"
    <2>1. PICK n \in Nat : DOMAIN item.sets = 1..n
      BY <1>3
    <2>2. AssignAll(r, item.sets) = r
      BY <1>1, <2>1, SetsSkipped
    <2>3. Block(r, item) = r
      BY <1>1, <2>2 DEF Block
    <2> QED
      BY <1>1, <1>3, <2>3 DEF Item
  <1> QED
    BY <1>2, <1>3

\* A reader between blocks.
Rests(r) == Reads(r) /\ r.category = <<>>

\* A block under a condition that does not hold.
LEMMA BlockSkipped ==
  ASSUME NEW r, Rests(r), r.permit = FALSE, NEW b, NEW n \in Nat, DOMAIN b.sets = 1..n
  PROVE  LET t == Block(r, b)
         IN  Rests(t) /\ Keeps(r, t) /\ t.entries = r.entries
  <1> DEFINE l == [do |-> "open", name |-> b.name, plus |-> b.plus]
             u == Line(r, l)
             m == IF l.plus \/ <<Part(l.name)>> \in r.sequences
                  THEN LastIndex(r.entries, <<Part(l.name)>>) + 1 ELSE 0
             c == Numbered(l.name, m)
  <1>1. Within(u, c) /\ Keeps(r, u) /\ u.entries = r.entries /\ u.permit = r.permit
    <2>1. l.do = "open" /\ Reads(r) /\ r.category = <<>>
      BY DEF Rests
    <2> HIDE DEF l
    <2> QED
      BY <2>1, Opens
  <1> HIDE DEF u, c
  <1>2. \A y : Line(u, AssignLine(y)) = u
    BY <1>1, Assigns
  <1>3. AssignAll(u, b.sets) = u
    BY <1>2, SetsSkipped
  <1> DEFINE t == Line(u, [do |-> "close"])
  <1>4. Block(r, b) = t
    BY <1>3 DEF Block, u
  <1>5. /\ Reads(t) /\ Keeps(u, t)
        /\ t.category = <<>>
        /\ t.entries = u.entries
    BY <1>1, Closes
  <1> HIDE DEF t
  <1> QED
    BY <1>1, <1>4, <1>5 DEF Rests, Keeps

\* The number the next block of a name gets.
NextNumber(r, name, plus) ==
    IF plus \/ <<Part(name)>> \in r.sequences THEN LastIndex(r.entries, <<Part(name)>>) + 1 ELSE 0

\* Any other block.
LEMMA BlockRead ==
  ASSUME NEW S, NEW A \in Seq(S), NEW s \in Seq(S), NoDefault(A),
         NEW r, Rests(r), r.permit = TRUE, Holding(r, A),
         NEW b, NEW m, m = NextNumber(r, b.name, b.plus),
         Settles(s, b.sets, Numbered(b.name, m))
  PROVE  LET t == Block(r, b)
         IN  /\ Rests(t) /\ Keeps(r, t) /\ t.permit = TRUE
             /\ Holding(t, A \o s) /\ NoDefault(A \o s)
             /\ NumbersMore(r, t, b.name, m, s)
  <1> DEFINE l == [do |-> "open", name |-> b.name, plus |-> b.plus]
             u == Line(r, l)
             x == b.name
             c == Numbered(x, m)
  <1>1. Within(u, c) /\ Keeps(r, u) /\ u.entries = r.entries /\ u.permit = r.permit
    <2>1. l.do = "open" /\ l.name = x /\ l.plus = b.plus /\ Reads(r) /\ r.category = <<>>
      BY DEF Rests
    <2> HIDE DEF l
    <2>2. Numbered(l.name, IF l.plus \/ <<Part(l.name)>> \in r.sequences
                           THEN LastIndex(r.entries, <<Part(l.name)>>) + 1 ELSE 0) = c
      BY <2>1 DEF NextNumber
    <2> HIDE DEF c
    <2> QED
      BY <2>1, <2>2, Opens
  <1> HIDE DEF u, x
  <1> DEFINE w == AssignAll(u, b.sets)
             sets == b.sets
  <1>2. /\ Within(w, c) /\ Keeps(u, w) /\ w.permit = TRUE
        /\ Holding(w, A \o s) /\ NoDefault(A \o s)
        /\ NumbersMore(u, w, x, m, s)
    <2>1. Within(u, Numbered(x, m)) /\ u.permit = TRUE /\ Holding(u, A)
      BY <1>1 DEF Holding
    <2>2. Settles(s, sets, Numbered(x, m))
      BY DEF x
    <2> HIDE DEF sets
    <2> DEFINE z == AssignAll(u, sets)
    <2>4. /\ Within(z, Numbered(x, m)) /\ Keeps(u, z) /\ z.permit = TRUE
          /\ Holding(z, A \o s) /\ NoDefault(A \o s)
          /\ NumbersMore(u, z, x, m, s)
      BY <2>1, <2>2, SetsRead
    <2> QED
      BY <2>4 DEF sets
  <1> DEFINE t == Line(w, [do |-> "close"])
  <1>3. Block(r, b) = t
    BY DEF Block, u
  <1> HIDE DEF w, c
  <1>4. /\ Reads(t) /\ Keeps(w, t)
        /\ t.category = <<>>
        /\ t.entries = w.entries
        /\ t.permit = w.permit
    BY <1>2, Closes
  <1> HIDE DEF t
  <1>5. Rests(t) /\ Keeps(r, t) /\ t.permit = TRUE /\ Holding(t, A \o s)
    BY <1>1, <1>2, <1>4 DEF Rests, Keeps, Holding
  <1>6. NumbersMore(r, t, b.name, m, s)
    BY <1>1, <1>2, <1>4 DEF x, NumbersMore
  <1> QED
    BY <1>2, <1>3, <1>5, <1>6

\* What a value about literals and defaults says does not change.
LEMMA PlainReplaced ==
  ASSUME NEW A, NEW n \in Nat, DOMAIN A = 1..n, Len(A) = n, NEW v, Plain(v)
  PROVE  Replaced(Entries(A), v) = Replaced(DefaultEntries, v)
  <1>1. /\ DOMAIN DefaultEntries \subseteq DOMAIN Entries(A)
        /\ \A k \in DOMAIN DefaultEntries : Entries(A)[k] = DefaultEntries[k]
    BY EntryIs
  <1>2. CASE v[1] = "lit"
    BY <1>2 DEF Replaced
  <1>3. CASE v[1] # "lit"
    <2>1. v[2] \in DOMAIN DefaultEntries
      BY <1>3 DEF Plain
    <2>2. VarContent(Entries(A), v[2]) = VarContent(DefaultEntries, v[2])
      BY <1>1, <2>1 DEF VarContent, Get
    <2> QED
      BY <1>3, <2>2 DEF Replaced, Found
  <1> QED
    BY <1>2, <1>3

\* A comparison is true or false.
LEMMA ComparesTruth ==
  ASSUME NEW op \in {"==", "!=", "<=", ">=", "<", ">"}, NEW a, NEW b
  PROVE  Compares(op, a, b) \in BOOLEAN
  <1>1. CASE op = "=="
    BY <1>1 DEF Compares
  <1>2. CASE op = "!="
    BY <1>2 DEF Compares
  <1>3. CASE op = "<="
    BY <1>3 DEF Compares
  <1>4. CASE op = ">="
    BY <1>4 DEF Compares
  <1>5. CASE op = "<"
    BY <1>5 DEF Compares
  <1>6. CASE op = ">"
    BY <1>6 DEF Compares
  <1> QED
    BY <1>1, <1>2, <1>3, <1>4, <1>5, <1>6

\* "If" before a block, and "endif" behind it.
LEMMA IfRead ==
  ASSUME NEW A, NEW n \in Nat, DOMAIN A = 1..n, Len(A) = n,
         NEW r, Rests(r), Holding(r, A),
         NEW cond, cond # Always, PlainCondition(cond)
  PROVE  LET t == Line(r, IfLine(cond))
         IN  /\ Rests(t) /\ Keeps(r, t) /\ t.entries = r.entries
             /\ t.permit = Holds(cond) /\ Holds(cond) \in BOOLEAN
  <1> DEFINE l == IfLine(cond)
  <1>1. l.do = "if" /\ l.left = cond[1] /\ l.op = cond[2] /\ l.right = cond[3]
    BY DEF IfLine
  <1>2. /\ cond[2] \in {"==", "!=", "<=", ">=", "<", ">"}
        /\ Plain(cond[1]) /\ Plain(cond[3])
    BY DEF PlainCondition
  <1>3. /\ Replaced(r.entries, cond[1]) = Replaced(DefaultEntries, cond[1])
        /\ Replaced(r.entries, cond[3]) = Replaced(DefaultEntries, cond[3])
    BY <1>2, PlainReplaced DEF Holding
  <1> DEFINE c == Compares(cond[2], Replaced(DefaultEntries, cond[1]),
                                    Replaced(DefaultEntries, cond[3]))
  <1>4. c \in BOOLEAN
    BY <1>2, ComparesTruth
  <1>5. Line(r, l) = If(r, l)
    BY <1>1 DEF Line, Rests, Reads
  <1>6. If(r, l) = [r EXCEPT !.permit = c]
    <2>1. l.op \in {"==", "!=", "<=", ">=", "<", ">"}
      BY <1>1, <1>2
    <2> HIDE DEF l
    <2> QED
      BY <1>1, <1>3, <2>1 DEF If
  <1>7. Holds(cond) <=> c
    BY DEF Holds
  <1>8. Holds(cond) \in BOOLEAN
    BY DEF Holds
  <1> HIDE DEF c, l
  <1>9. Holds(cond) = c
    BY <1>4, <1>7, <1>8
  <1>10. /\ Rests(If(r, l)) /\ Keeps(r, If(r, l)) /\ If(r, l).entries = r.entries
         /\ If(r, l).permit = c
    BY <1>6 DEF Rests, Reads, IsReader, Fields, Keeps
  <1> QED
    BY <1>4, <1>5, <1>9, <1>10 DEF l

\* "endif" behind a block.
LEMMA EndifRead ==
  ASSUME NEW r, Rests(r)
  PROVE  LET t == Line(r, [do |-> "endif"])
         IN  /\ Rests(t) /\ Keeps(r, t) /\ t.entries = r.entries
             /\ t.permit = TRUE
  <1>1. Line(r, [do |-> "endif"]) = [r EXCEPT !.permit = TRUE]
    BY DEF Line, Rests, Reads, Endif
  <1> QED
    BY <1>1 DEF Rests, Reads, IsReader, Fields, Keeps

\* A block with its condition leaves its assignments, or nothing.
LEMMA BlockItem ==
  ASSUME NEW S, NEW A \in Seq(S), NEW s \in Seq(S), NoDefault(A),
         NEW r, Rests(r), r.permit = TRUE, Holding(r, A),
         NEW b, b.do = "block", PlainCondition(b.cond),
         NEW n \in Nat, DOMAIN b.sets = 1..n,
         NEW m, m = NextNumber(r, b.name, b.plus),
         Holds(b.cond) => Settles(s, b.sets, Numbered(b.name, m)),
         ~Holds(b.cond) => s = <<>>
  PROVE  LET t == Item(r, b)
         IN  /\ Rests(t) /\ Keeps(r, t) /\ t.permit = TRUE
             /\ Holding(t, A \o s) /\ NoDefault(A \o s)
             /\ NumbersMore(r, t, b.name, m, s)
  <1>1. CASE b.cond = Always
    <2>1. Item(r, b) = Block(r, b)
      BY <1>1 DEF Item
    <2>2. Settles(s, b.sets, Numbered(b.name, m))
      BY <1>1 DEF Holds
    <2> DEFINE t == Block(r, b)
    <2>3. /\ Rests(t) /\ Keeps(r, t) /\ t.permit = TRUE
          /\ Holding(t, A \o s) /\ NoDefault(A \o s)
          /\ NumbersMore(r, t, b.name, m, s)
      BY <2>2, BlockRead
    <2> QED
      BY <2>1, <2>3
  <1>2. CASE b.cond # Always
    <2> DEFINE u == Line(r, IfLine(b.cond))
               v == Block(u, b)
               t == Line(v, [do |-> "endif"])
               k == Len(A)
    <2>1. k \in Nat /\ DOMAIN A = 1..k
      OBVIOUS
    <2>2. /\ Rests(u) /\ Keeps(r, u) /\ u.entries = r.entries
          /\ u.permit = Holds(b.cond) /\ Holds(b.cond) \in BOOLEAN
      BY <1>2, <2>1, IfRead
    <2>3. Item(r, b) = t
      BY <1>2 DEF Item
    <2> HIDE DEF u
    <2>4. m = NextNumber(u, b.name, b.plus)
      BY <2>2 DEF NextNumber, Keeps
    <2>5. Holding(u, A)
      BY <2>2 DEF Holding
    <2>6. /\ Rests(v) /\ Keeps(u, v)
          /\ Holding(v, A \o s) /\ NoDefault(A \o s)
          /\ NumbersMore(u, v, b.name, m, s)
      <3>1. CASE Holds(b.cond)
        <4>1. u.permit = TRUE
          BY <2>2, <3>1
        <4> QED
          BY <2>2, <2>4, <2>5, <3>1, <4>1, BlockRead
      <3>2. CASE ~Holds(b.cond)
        <4>1. u.permit = FALSE
          BY <2>2, <3>2
        <4>2. Rests(v) /\ Keeps(u, v) /\ v.entries = u.entries
          BY <2>2, <4>1, BlockSkipped
        <4>3. A \o s = A
          BY <3>2, ConcatEmptySeq
        <4> QED
          BY <2>5, <3>2, <4>2, <4>3 DEF Holding, NumbersMore
      <3> QED
        BY <3>1, <3>2
    <2> HIDE DEF v
    <2>7. Rests(t) /\ Keeps(v, t) /\ t.entries = v.entries /\ t.permit = TRUE
      BY <2>6, EndifRead
    <2> HIDE DEF t
    <2>8. Keeps(r, t)
      BY <2>2, <2>6, <2>7 DEF Keeps
    <2>9. Holding(t, A \o s)
      BY <2>6, <2>7 DEF Holding
    <2>10. NumbersMore(r, t, b.name, m, s)
      BY <2>2, <2>6, <2>7 DEF NumbersMore
    <2> QED
      BY <2>3, <2>6, <2>7, <2>8, <2>9, <2>10
  <1> QED
    BY <1>1, <1>2

-----------------------------------------------------------------------------
(* Counting blocks *)

Counter(items, name, j) ==
    {i \in 1..j : Counts(items, i) /\ IsNumbered(items, i) /\ items[i].name = name}

\* The numbered blocks of a name, as a finite set.
LEMMA CountedIs ==
  ASSUME NEW items, NEW name, NEW j \in Nat
  PROVE  /\ Counted(items, name, j) = Cardinality(Counter(items, name, j))
         /\ IsFiniteSet(Counter(items, name, j))
         /\ Counted(items, name, j) \in Nat
  <1>1. IsFiniteSet(1..j)
    BY FS_Interval
  <1>2. Counter(items, name, j) \subseteq 1..j
    BY DEF Counter
  <1>3. IsFiniteSet(Counter(items, name, j))
    BY <1>1, <1>2, FS_Subset
  <1> QED
    BY <1>3, FS_CardinalityType DEF Counted, Counter

\* One item more.
LEMMA CountedMore ==
  ASSUME NEW items, NEW name, NEW j \in Nat \ {0}
  PROVE  Counted(items, name, j) =
            Counted(items, name, j - 1)
            + (IF Counts(items, j) /\ IsNumbered(items, j) /\ items[j].name = name THEN 1 ELSE 0)
  <1> DEFINE i == j - 1
             C == Counter(items, name, i)
             D == Counter(items, name, j)
             P(k) == Counts(items, k) /\ IsNumbered(items, k) /\ items[k].name = name
  <1>1. i \in Nat /\ j \in Nat /\ j \notin 1..i /\ 1..j = 1..i \cup {j}
    OBVIOUS
  <1>2. D = C \cup (IF P(j) THEN {j} ELSE {}) /\ j \notin C
    <2>1. C = {k \in 1..i : P(k)} /\ D = {k \in 1..j : P(k)}
      BY DEF Counter
    <2> HIDE DEF P, C, D, i
    <2> QED
      BY <1>1, <2>1
  <1>3. /\ Counted(items, name, i) = Cardinality(C) /\ Counted(items, name, j) = Cardinality(D)
        /\ IsFiniteSet(C) /\ Counted(items, name, i) \in Nat
    <2> HIDE DEF i
    <2> QED
      BY <1>1, CountedIs
  <1> HIDE DEF C, D
  <1>4. Cardinality(C \cup {j}) = Cardinality(C) + 1
    BY <1>2, <1>3, FS_AddElement
  <1>5. CASE P(j)
    BY <1>2, <1>3, <1>4, <1>5
  <1>6. CASE ~P(j)
    <2>1. D = C
      BY <1>2, <1>6
    <2> QED
      BY <1>3, <1>6, <2>1
  <1> QED
    BY <1>5, <1>6

\* Later items have seen no fewer blocks.
LEMMA CountedAscends ==
  ASSUME NEW items, NEW name, NEW i \in Nat, NEW j \in Nat, i <= j
  PROVE  Counted(items, name, i) <= Counted(items, name, j)
  <1>1. Counter(items, name, i) \subseteq Counter(items, name, j)
    BY DEF Counter
  <1> QED
    BY <1>1, CountedIs, FS_Subset

\* Before the first item there is no block.
LEMMA CountedNone ==
  ASSUME NEW items, NEW name
  PROVE  Counted(items, name, 0) = 0
  <1>1. Counter(items, name, 0) = {}
    BY DEF Counter
  <1> QED
    BY <1>1, CountedIs, FS_EmptySet

\* Items as the files hold them.
AreItems(items) ==
    /\ \E n \in Nat : DOMAIN items = 1..n
    /\ \A j \in DOMAIN items :
          /\ items[j].do = "block" => items[j].sets \in Seq(Range(items[j].sets))
          /\ items[j].do = "sequence" => items[j].path \in Seq(Range(items[j].path))

PlainItem(item) ==
    \/ item.do \in Between
    \/ item.do = "block" /\ PlainCondition(item.cond)

\* All the assignments of items.
AllSettings(items) == UNION {Range(Settings(items, j)) : j \in DOMAIN items}

\* The name of a sequence among the first j items.
Known(items, name, j) ==
    \/ <<Part(name)>> \in DefaultSequences
    \/ \E i \in 1..j : items[i].do = "sequence" /\ items[i].path = <<Part(name)>>

\* A reader that has read the first j items, whose assignments are A.
Good(items, A, j, r) ==
    /\ IsReader(r)
    /\ r.fate = "reading" =>
          /\ r.category = <<>> /\ r.permit = TRUE
          /\ Holding(r, A)
          /\ \A name : <<Part(name)>> \in r.sequences <=> Known(items, name, j)
          /\ \A name : Numbers(r.entries, <<Part(name)>>) = 1..Counted(items, name, j)

\* What an item does to the list of included files.
FilesAfter(r, item) ==
    IF r.fate = "reading" /\ item.do = "include" THEN Append(r.files, item) ELSE r.files

\* The assignments of an item.
LEMMA SettingsTyped ==
  ASSUME NEW items, AreItems(items), NEW j \in DOMAIN items
  PROVE  /\ Settings(items, j) \in Seq(AllSettings(items))
         /\ ~Counts(items, j) => Settings(items, j) = <<>>
         /\ Counts(items, j) =>
               /\ DOMAIN items[j].sets = 1..Len(Settings(items, j))
               /\ \A i \in 1..Len(Settings(items, j)) :
                     Settings(items, j)[i] =
                        <<Key(Place(items, j), items[j].sets[i][1]), items[j].sets[i][2]>>
               /\ Settings(items, j) # <<>>
  <1> DEFINE S == AllSettings(items)
             s == Settings(items, j)
             sets == items[j].sets
  <1>1. CASE ~Counts(items, j)
    <2>1. s = <<>>
      BY <1>1 DEF Settings
    <2> QED
      BY <1>1, <2>1
  <1>2. CASE Counts(items, j)
    <2>1. sets \in Seq(Range(sets)) /\ sets # <<>>
      BY <1>2 DEF Counts, AreItems
    <2>2. Len(sets) \in Nat /\ DOMAIN sets = 1..Len(sets) /\ Len(sets) # 0
      BY <2>1
    <2>3. s = [i \in 1..Len(sets) |-> <<Key(Place(items, j), sets[i][1]), sets[i][2]>>]
      BY <1>2, <2>2 DEF Settings
    <2> DEFINE n == Len(sets)
    <2> HIDE DEF n, sets
    <2>4. \A i \in 1..n : s[i] = <<Key(Place(items, j), sets[i][1]), sets[i][2]>>
      BY <2>3 DEF n
    <2>5. DOMAIN s = 1..n
      BY <2>3 DEF n
    <2>6. \A i \in 1..n : s[i] \in S
      <3>1. \A i \in 1..n : s[i] \in Range(s)
        BY <2>5 DEF Range
      <3>2. Range(s) \in {Range(Settings(items, i)) : i \in DOMAIN items}
        OBVIOUS
      <3> HIDE DEF s
      <3> QED
        BY <3>1, <3>2 DEF AllSettings
    <2>7. s = [i \in 1..n |-> s[i]]
      BY <2>3, <2>4 DEF n
    <2> HIDE DEF s, S
    <2>8. s \in Seq(S)
      <3>1. [i \in 1..n |-> s[i]] \in Seq(S)
        BY <2>2, <2>6, IsASeq DEF n
      <3> QED
        BY <2>7, <3>1
    <2>9. Len(s) = n
      BY <2>2, <2>5, <2>8 DEF n
    <2>10. s # <<>>
      BY <2>2, <2>9 DEF n
    <2> QED
      BY <1>2, <2>2, <2>4, <2>8, <2>9, <2>10 DEF s, S, sets, n
  <1> QED
    BY <1>1, <1>2

\* A block of at most ten of its name gets the number it is meant to have.
LEMMA BlockGood ==
  ASSUME NEW S, NEW A \in Seq(S), NoDefault(A),
         NEW items, AreItems(items), NEW j \in DOMAIN items,
         Settings(items, j) \in Seq(S),
         items[j].do = "block", PlainItem(items[j]),
         Total(items, items[j].name) <= 10,
         NEW r, Good(items, A, j - 1, r), r.fate = "reading"
  PROVE  LET t == Item(r, items[j])
         IN  /\ Good(items, A \o Settings(items, j), j, t)
             /\ NoDefault(A \o Settings(items, j))
             /\ t.files = r.files
  <1> DEFINE b == items[j]
             x == b.name
             s == Settings(items, j)
             m == NextNumber(r, x, b.plus)
             t == Item(r, b)
             i == j - 1
  <1>1. PICK n \in Nat : DOMAIN items = 1..n
    BY DEF AreItems
  <1>2. j \in 1..n /\ i \in Nat /\ j \in Nat \ {0}
    BY <1>1
  <1>3. /\ Rests(r) /\ r.permit = TRUE /\ Holding(r, A)
        /\ \A name : <<Part(name)>> \in r.sequences <=> Known(items, name, i)
        /\ \A name : Numbers(r.entries, <<Part(name)>>) = 1..Counted(items, name, i)
    BY DEF Good, Rests, Reads
  <1>4. PlainCondition(b.cond)
    BY DEF PlainItem, Between
  <1>5. b.sets \in Seq(Range(b.sets))
    BY DEF AreItems
  <1>6. Len(b.sets) \in Nat /\ DOMAIN b.sets = 1..Len(b.sets)
    BY <1>5
  <1>7. Counts(items, j) <=> b.sets # <<>> /\ Holds(b.cond)
    BY DEF Counts
  <1>8. IsNumbered(items, j) <=> b.plus \/ <<Part(x)>> \in r.sequences
    <2>1. Known(items, x, i) <=> \/ <<Part(x)>> \in DefaultSequences
                                 \/ \E k \in 1..(j - 1) : /\ items[k].do = "sequence"
                                                          /\ items[k].path = <<Part(items[j].name)>>
      BY DEF Known
    <2> QED
      BY <1>3, <2>1 DEF IsNumbered
  <1>9. Counted(items, x, i) \in Nat
    BY <1>2, CountedIs
  <1>10. ASSUME Counts(items, j) PROVE Place(items, j) = <<Numbered(x, m)>>
    <2>1. CASE IsNumbered(items, j)
      <3>1. Counted(items, x, j) = Counted(items, x, i) + 1
        BY <1>2, <1>10, <2>1, CountedMore
      <3>2. Counted(items, x, j) <= Total(items, x) /\ Total(items, x) <= 10
        <4>1. Len(items) = n
          <5>1. \A k \in Nat : DOMAIN items = 1..k => k = n
            BY <1>1
          <5> QED
            BY <1>1
        <4> QED
          BY <1>1, <1>2, <4>1, CountedAscends DEF Total
      <3>3. Counted(items, x, i) \in 0..9
        <4> DEFINE c == Counted(items, x, i)
                   d == Counted(items, x, j)
                   e == Total(items, x)
        <4>1. e \in Nat
          <5>1. Len(items) \in Nat
            BY <1>1
          <5> QED
            BY <5>1, CountedIs DEF Total
        <4>2. c \in Nat /\ d = c + 1 /\ d <= e /\ e <= 10
          BY <1>9, <3>1, <3>2
        <4> HIDE DEF c, d, e
        <4>3. c \in 0..9
          BY <4>1, <4>2
        <4> QED
          BY <4>3 DEF c
      <3>4. LastIndex(r.entries, <<Part(x)>>) = Counted(items, x, i)
        BY <1>3, <3>3, LastIndexIs
      <3>5. m = Counted(items, x, j)
        BY <1>8, <2>1, <3>1, <3>4 DEF NextNumber
      <3> QED
        BY <2>1, <3>5 DEF Place
    <2>2. CASE ~IsNumbered(items, j)
      <3>1. m = 0
        BY <1>8, <2>2 DEF NextNumber
      <3> QED
        BY <2>2, <3>1 DEF Place, Part, Numbered
    <2> QED
      BY <2>1, <2>2
  <1>11. Holds(b.cond) => Settles(s, b.sets, Numbered(x, m))
    <2>1. CASE Counts(items, j)
      <3>1. /\ DOMAIN b.sets = 1..Len(s)
            /\ \A k \in 1..Len(s) :
                  s[k] = <<Key(Place(items, j), b.sets[k][1]), b.sets[k][2]>>
        BY <2>1, SettingsTyped
      <3> HIDE DEF s, m, b, x
      <3>2. Place(items, j) = <<Numbered(x, m)>>
        BY <1>10, <2>1
      <3> QED
        BY <3>1, <3>2 DEF Settles
    <2>2. CASE ~Counts(items, j) /\ b.sets = <<>>
      <3>1. s = <<>>
        BY <2>2 DEF Settings
      <3>2. Len(s) = 0 /\ DOMAIN b.sets = 1..0
        BY <2>2, <3>1
      <3> HIDE DEF s, m, b, x
      <3> QED
        BY <3>2 DEF Settles
    <2> QED
      BY <1>7, <2>1, <2>2
  <1>12. ~Holds(b.cond) => s = <<>>
    BY <1>7 DEF Settings
  <1> HIDE DEF b, x, m, s, t
  <1>13. /\ Rests(t) /\ Keeps(r, t) /\ t.permit = TRUE
         /\ Holding(t, A \o s) /\ NoDefault(A \o s)
         /\ NumbersMore(r, t, x, m, s)
    <2>1. b.do = "block"
      BY DEF b
    <2>2. s \in Seq(S)
      BY DEF s
    <2>3. m = NextNumber(r, b.name, b.plus) /\ x = b.name
      BY DEF m, x
    <2> DEFINE k == Len(b.sets)
               u == Item(r, b)
    <2>4. k \in Nat /\ DOMAIN b.sets = 1..k
      BY <1>6
    <2> HIDE DEF k
    <2>5. /\ Rests(u) /\ Keeps(r, u) /\ u.permit = TRUE
          /\ Holding(u, A \o s) /\ NoDefault(A \o s)
          /\ NumbersMore(r, u, b.name, m, s)
      BY <1>3, <1>4, <1>11, <1>12, <2>1, <2>2, <2>3, <2>4, BlockItem
    <2> QED
      BY <2>3, <2>5 DEF t
  <1>14. \A name : <<Part(name)>> \in t.sequences <=> Known(items, name, j)
    <2>1. ASSUME NEW name PROVE Known(items, name, j) <=> Known(items, name, i)
      BY <1>2, SMTT(30) DEF Known
    <2> QED
      BY <1>3, <1>13, <2>1 DEF Keeps
  <1>15. ASSUME NEW name
         PROVE  Numbers(t.entries, <<Part(name)>>) = 1..Counted(items, name, j)
    <2>1. s # <<>> <=> Counts(items, j)
      BY SettingsTyped DEF s
    <2>2. Numbers(t.entries, <<Part(name)>>) =
            1..Counted(items, name, i) \cup (IF x = name /\ m # 0 /\ s # <<>> THEN {m} ELSE {})
      BY <1>3, <1>13 DEF NumbersMore
    <2>3. Counted(items, name, i) \in Nat
      BY <1>2, CountedIs
    <2>4. Counted(items, name, j) =
            Counted(items, name, i)
            + (IF Counts(items, j) /\ IsNumbered(items, j) /\ x = name THEN 1 ELSE 0)
      BY <1>2, CountedMore DEF x, b
    <2>5. CASE Counts(items, j) /\ x = name
      <3>1. Place(items, j) = <<Numbered(x, m)>>
        BY <1>10, <2>5
      <3>2. CASE IsNumbered(items, j)
        <4>1. m = Counted(items, name, j)
          BY <2>5, <3>1, <3>2 DEF Place, Numbered, x, b
        <4>2. m = Counted(items, name, i) + 1
          BY <2>4, <2>5, <3>2, <4>1
        <4>3. s # <<>> /\ m # 0
          BY <2>1, <2>3, <2>5, <4>2
        <4> QED
          <5> DEFINE c == Counted(items, name, i)
                     N == Numbers(t.entries, <<Part(name)>>)
          <5>1. N = 1..c \cup {m}
            BY <2>2, <2>5, <4>3
          <5>2. c \in Nat /\ m = c + 1
            BY <2>3, <4>2
          <5> HIDE DEF c, N
          <5>3. N = 1..m
            BY <5>1, <5>2
          <5> QED
            BY <4>1, <5>3 DEF N
      <3>3. CASE ~IsNumbered(items, j)
        <4>1. m = 0
          BY <1>8, <3>3 DEF NextNumber, m
        <4> QED
          BY <2>2, <2>3, <2>4, <3>3, <4>1
      <3> QED
        BY <3>2, <3>3
    <2>6. CASE ~(Counts(items, j) /\ x = name)
      <3>1. Numbers(t.entries, <<Part(name)>>) = 1..Counted(items, name, i)
        BY <2>1, <2>2, <2>6
      <3>2. Counted(items, name, j) = Counted(items, name, i)
        BY <2>3, <2>4, <2>6
      <3> QED
        BY <3>1, <3>2
    <2> QED
      BY <2>5, <2>6
  <1>16. Good(items, A \o s, j, t) /\ t.files = r.files
    BY <1>13, <1>14, <1>15 DEF Good, Rests, Reads, Keeps
  <1> QED
    BY <1>13, <1>16 DEF s, t, b

\* A directive between blocks.
LEMMA BetweenGood ==
  ASSUME NEW S, NEW A \in Seq(S), NoDefault(A),
         NEW items, AreItems(items), NEW j \in DOMAIN items,
         items[j].do \in Between,
         NEW r, Good(items, A, j - 1, r), r.fate = "reading"
  PROVE  LET t == Item(r, items[j])
         IN  /\ Good(items, A, j, t) /\ Settings(items, j) = <<>>
             /\ t.files = FilesAfter(r, items[j])
  <1> DEFINE l == items[j]
             t == Item(r, l)
             i == j - 1
  <1>1. PICK n \in Nat : DOMAIN items = 1..n
    BY DEF AreItems
  <1>2. j \in 1..n /\ i \in Nat /\ j \in Nat \ {0} /\ i + 1 = j
    BY <1>1
  <1>3. /\ IsReader(r) /\ r.category = <<>> /\ r.permit = TRUE /\ Holding(r, A)
        /\ \A name : <<Part(name)>> \in r.sequences <=> Known(items, name, i)
        /\ \A name : Numbers(r.entries, <<Part(name)>>) = 1..Counted(items, name, i)
    BY DEF Good
  <1>4. l.do \notin {"block", "open", "close", "if", "endif"}
    BY DEF Between
  <1>5. t = Directive(r, l)
    <2>1. t = Line(r, l)
      BY <1>4 DEF Item
    <2>2. r.permit /\ r.fate = "reading"
      BY <1>3
    <2> QED
      BY <1>4, <2>1, <2>2 DEF Line
  <1>6. ~Counts(items, j)
    BY <1>4 DEF Counts
  <1>7. \A name : Counted(items, name, j) = Counted(items, name, i)
    BY <1>2, <1>6, CountedMore, CountedIs
  <1>8. ASSUME NEW name
        PROVE  Known(items, name, j) <=>
                  Known(items, name, i) \/ (l.do = "sequence" /\ l.path = <<Part(name)>>)
    <2>1. 1..j = 1..i \cup {j}
      BY <1>2
    <2> DEFINE P(k) == items[k].do = "sequence" /\ items[k].path = <<Part(name)>>
    <2> HIDE DEF i, P
    <2>2. (\E k \in 1..j : P(k)) <=> (\E k \in 1..i : P(k)) \/ P(j)
      BY <2>1
    <2> DEFINE D == <<Part(name)>> \in DefaultSequences
    <2>3. Known(items, name, j) <=> D \/ \E k \in 1..j : P(k)
      BY DEF Known, P
    <2>4. Known(items, name, i) <=> D \/ \E k \in 1..i : P(k)
      BY DEF Known, P
    <2>5. P(j) <=> l.do = "sequence" /\ l.path = <<Part(name)>>
      BY DEF P
    <2> HIDE DEF D, l
    <2> QED
      BY <2>2, <2>3, <2>4, <2>5
  <1>9. l.do = "sequence" => <<>> \o l.path = l.path
    BY ConcatEmptySeq DEF AreItems
  <1>10. Settings(items, j) = <<>>
    BY <1>6 DEF Settings
  <1> HIDE DEF l, t, i
  \* What directives leave alone.
  <1> DEFINE Still(u) == /\ IsReader(u) /\ u.category = <<>> /\ u.permit = TRUE
                         /\ u.entries = r.entries
  <1>11. ASSUME Still(t), t.fate = "reading" =>
                  \A name : <<Part(name)>> \in t.sequences <=>
                               \/ <<Part(name)>> \in r.sequences
                               \/ l.do = "sequence" /\ l.path = <<Part(name)>>
         PROVE  Good(items, A, j, t)
    <2>1. ASSUME t.fate = "reading"
          PROVE  \A name : <<Part(name)>> \in t.sequences <=> Known(items, name, j)
      <3> SUFFICES ASSUME NEW name
                   PROVE  <<Part(name)>> \in t.sequences <=> Known(items, name, j)
        OBVIOUS
      <3>1. <<Part(name)>> \in t.sequences <=>
               \/ <<Part(name)>> \in r.sequences
               \/ l.do = "sequence" /\ l.path = <<Part(name)>>
        BY <1>11, <2>1
      <3>2. <<Part(name)>> \in r.sequences <=> Known(items, name, i)
        BY <1>3
      <3>3. Known(items, name, j) <=>
               Known(items, name, i) \/ (l.do = "sequence" /\ l.path = <<Part(name)>>)
        BY <1>8
      <3> QED
        BY <3>1, <3>2, <3>3
    <2>2. \A name : Numbers(t.entries, <<Part(name)>>) = 1..Counted(items, name, j)
      BY <1>3, <1>7, <1>11
    <2>3. Holding(t, A)
      BY <1>3, <1>11 DEF Holding
    <2> QED
      BY <1>11, <2>1, <2>2, <2>3 DEF Good
  <1>12. CASE l.do = "include"
    <2>1. t = [r EXCEPT !.files = Append(@, l)]
      BY <1>5, <1>12 DEF Directive
    <2>2. Still(t) /\ t.sequences = r.sequences /\ t.files = Append(r.files, l)
      BY <1>3, <2>1 DEF IsReader, Fields
    <2>3. Good(items, A, j, t)
      BY <1>11, <1>12, <2>2
    <2> QED
      BY <1>10, <1>12, <2>2, <2>3 DEF FilesAfter, l, t
  <1>13. CASE l.do = "load"
    <2>1. t = [r EXCEPT !.modules = Append(@, l.module)]
      BY <1>5, <1>13 DEF Directive
    <2>2. Still(t) /\ t.sequences = r.sequences /\ t.files = r.files
      BY <1>3, <2>1 DEF IsReader, Fields
    <2>3. Good(items, A, j, t)
      BY <1>11, <1>13, <2>2
    <2> QED
      BY <1>10, <1>13, <2>2, <2>3 DEF FilesAfter, l, t
  <1>14. CASE l.do = "sequence"
    <2>1. t = [r EXCEPT !.sequences = @ \cup {r.category \o l.path}]
      BY <1>5, <1>14 DEF Directive
    <2>2. t = [r EXCEPT !.sequences = @ \cup {l.path}]
      BY <1>3, <1>9, <1>14, <2>1
    <2>3. Still(t) /\ t.sequences = r.sequences \cup {l.path} /\ t.files = r.files
      BY <1>3, <2>2 DEF IsReader, Fields
    <2>4. Good(items, A, j, t)
      BY <1>11, <1>14, <2>3
    <2> QED
      BY <1>10, <1>14, <2>3, <2>4 DEF FilesAfter, l, t
  <1>15. CASE l.do = "throw"
    <2>1. t = [r EXCEPT !.fate = "exited"]
      BY <1>5, <1>15 DEF Directive
    <2>2. Still(t) /\ t.fate # "reading" /\ t.files = r.files
      BY <1>3, <2>1 DEF IsReader, Fields
    <2>3. Good(items, A, j, t)
      BY <1>11, <2>2
    <2> QED
      BY <1>10, <1>15, <2>2, <2>3 DEF FilesAfter, l, t
  <1>16. CASE l.do = "unclosed"
    <2>1. t = Warned(r)
      BY <1>5, <1>16 DEF Directive
    <2>2. Still(t) /\ t.sequences = r.sequences /\ t.files = r.files
      BY <1>3, <2>1, WarnedKeeps DEF Keeps
    <2>3. Good(items, A, j, t)
      BY <1>11, <1>16, <2>2
    <2> QED
      BY <1>10, <1>16, <2>2, <2>3 DEF FilesAfter, l, t
  <1>17. CASE l.do = "assignUnclosed"
    <2>1. t = [Warned(r) EXCEPT !.fate = "spinning"]
      BY <1>5, <1>17 DEF Directive
    <2> DEFINE u == Warned(r)
    <2>2. /\ IsReader(u) /\ Keeps(r, u) /\ u.entries = r.entries
          /\ u.category = <<>> /\ u.permit = TRUE
      BY <1>3, WarnedKeeps
    <2> HIDE DEF u
    <2>3. Still(t) /\ t.fate # "reading" /\ t.files = r.files
      BY <2>1, <2>2 DEF IsReader, Fields, Keeps, u
    <2>4. Good(items, A, j, t)
      BY <1>11, <2>3
    <2> QED
      BY <1>10, <1>17, <2>3, <2>4 DEF FilesAfter, l, t
  <1> QED
    BY <1>12, <1>13, <1>14, <1>15, <1>16, <1>17 DEF Between, l

\* Every item.
LEMMA ItemGood ==
  ASSUME NEW S, NEW A \in Seq(S), NoDefault(A),
         NEW items, AreItems(items), NEW j \in DOMAIN items,
         Settings(items, j) \in Seq(S), PlainItem(items[j]),
         items[j].do = "block" => Total(items, items[j].name) <= 10,
         NEW r, Good(items, A, j - 1, r)
  PROVE  LET t == Item(r, items[j])
         IN  /\ Good(items, A \o Settings(items, j), j, t)
             /\ t.files = FilesAfter(r, items[j])
  <1> DEFINE t == Item(r, items[j])
  <1>1. CASE r.fate # "reading"
    <2>1. items[j].do = "block" => \E n \in Nat : DOMAIN items[j].sets = 1..n
      <3> SUFFICES ASSUME items[j].do = "block" PROVE \E n \in Nat : DOMAIN items[j].sets = 1..n
        OBVIOUS
      <3>1. items[j].sets \in Seq(Range(items[j].sets))
        BY DEF AreItems
      <3>2. /\ Len(items[j].sets) \in Nat
            /\ DOMAIN items[j].sets = 1..Len(items[j].sets)
        BY <3>1
      <3> QED
        BY <3>2
    <2>2. t = r
      BY <1>1, <2>1, Unread
    <2> QED
      BY <1>1, <2>2 DEF Good, FilesAfter
  <1>2. CASE r.fate = "reading" /\ items[j].do = "block"
    <2>1. /\ Good(items, A \o Settings(items, j), j, t)
          /\ t.files = r.files
      BY <1>2, BlockGood
    <2> QED
      BY <1>2, <2>1 DEF FilesAfter
  <1>3. CASE r.fate = "reading" /\ items[j].do \in Between
    <2>1. /\ Good(items, A, j, t) /\ Settings(items, j) = <<>>
          /\ t.files = FilesAfter(r, items[j])
      BY <1>3, BetweenGood
    <2>2. A \o <<>> = A
      BY ConcatEmptySeq
    <2> QED
      BY <2>1, <2>2
  <1> QED
    BY <1>1, <1>2, <1>3 DEF PlainItem

\* The assignments of the first items, for every number of them.
Steps(items, n, p) ==
    /\ p[0] = <<>> /\ p[n] = Assignments(items)
    /\ \A j \in 1..n : p[j] = p[j - 1] \o Settings(items, j)

\* The assignments of the items are joined one by one.
LEMMA PrefixesExist ==
  ASSUME NEW items, NEW n \in Nat, DOMAIN items = 1..n
  PROVE  \E p : Steps(items, n, p)
  <1> DEFINE q == [j \in DOMAIN items |-> j]
             A == Assignments(items)
  <1>1. DOMAIN q = 1..n /\ \A j \in 1..n : q[j] = j
    OBVIOUS
  <1>2. EachRuns("assignments", items, <<>>, q, n, A)
    <2>1. EachRuns("assignments", items, <<>>, q, n, Gathered(items, <<>>, q))
      <3> HIDE DEF q
      <3> QED
        BY <1>1, AssignmentsRun
    <2> QED
      BY <2>1 DEF Assignments, Gathered
  <1> HIDE DEF q, A
  <1>3. PICK p : /\ p[0] = <<>> /\ p[n] = A
                 /\ \A j \in 1..n : p[j] = p[j - 1] \o Settings(items, q[j])
    BY <1>2 DEF EachRuns, Each
  <1> QED
    BY <1>1, <1>3 DEF Steps, A

\* No item assigns a default.
LEMMA SettingsNoDefault ==
  ASSUME NEW items, AreItems(items), NEW j \in DOMAIN items
  PROVE  NoDefault(Settings(items, j))
  <1> DEFINE s == Settings(items, j)
  <1>1. CASE ~Counts(items, j)
    <2>1. s = <<>>
      BY <1>1, SettingsTyped
    <2>2. DOMAIN s = {}
      BY <2>1
    <2> HIDE DEF s
    <2> QED
      BY <2>2 DEF NoDefault, s
  <1>2. CASE Counts(items, j)
    <2>1. s \in Seq(AllSettings(items))
      BY SettingsTyped
    <2>2. \A i \in 1..Len(s) :
             s[i] = <<Key(Place(items, j), items[j].sets[i][1]), items[j].sets[i][2]>>
      BY <1>2, SettingsTyped
    <2> HIDE DEF s
    <2>3. PICK x : Place(items, j) = <<x>>
      BY DEF Place
    <2>4. ASSUME NEW i \in DOMAIN s PROVE s[i][1] \notin DOMAIN DefaultEntries
      <3>1. s[i][1] = Key(<<x>>, items[j].sets[i][1])
        BY <2>1, <2>2, <2>3
      <3> QED
        BY <3>1, KeyNoDefault
    <2> QED
      BY <2>4 DEF NoDefault, s
  <1> QED
    BY <1>1, <1>2

\* Nor do two that assign none, together.
LEMMA NoDefaultConcat ==
  ASSUME NEW S, NEW A \in Seq(S), NEW B \in Seq(S), NoDefault(A), NoDefault(B)
  PROVE  NoDefault(A \o B)
  <1> DEFINE C == A \o B
             a == Len(A)
             b == Len(B)
  <1>1. /\ C \in Seq(S) /\ Len(C) = a + b
        /\ \A i \in 1..(a + b) : C[i] = IF i <= a THEN A[i] ELSE B[i - a]
    BY ConcatProperties
  <1>2. a \in Nat /\ b \in Nat /\ DOMAIN A = 1..a /\ DOMAIN B = 1..b
    OBVIOUS
  <1> HIDE DEF C, a, b
  <1>3. ASSUME NEW i \in DOMAIN C PROVE C[i][1] \notin DOMAIN DefaultEntries
    <2>1. i \in 1..(a + b)
      BY <1>1
    <2>2. CASE i <= a
      <3>1. i \in DOMAIN A /\ C[i] = A[i]
        BY <1>1, <1>2, <2>1, <2>2
      <3> QED
        BY <3>1 DEF NoDefault
    <2>3. CASE i > a
      <3>1. i - a \in DOMAIN B /\ C[i] = B[i - a]
        BY <1>1, <1>2, <2>1, <2>3
      <3> QED
        BY <3>1 DEF NoDefault
    <2> QED
      BY <1>2, <2>1, <2>2, <2>3
  <1> QED
    BY <1>3 DEF NoDefault, C

\* No prefix assigns a default.
LEMMA PrefixesFine ==
  ASSUME NEW items, AreItems(items), NEW n \in Nat, DOMAIN items = 1..n,
         NEW p, Steps(items, n, p)
  PROVE  \A j \in 0..n : p[j] \in Seq(AllSettings(items)) /\ NoDefault(p[j])
  <1> DEFINE S == AllSettings(items)
             Fine(j) == p[j] \in Seq(S) /\ NoDefault(p[j])
             I == {j \in Nat : j <= n => Fine(j)}
  <1> HIDE DEF S
  <1>1. 0 \in I
    <2>1. p[0] = <<>>
      BY DEF Steps
    <2>2. DOMAIN <<>> = {} /\ <<>> \in Seq(S)
      OBVIOUS
    <2> QED
      BY <2>1, <2>2 DEF NoDefault
  <1>2. ASSUME NEW j \in Nat, j \in I PROVE j + 1 \in I
    <2> SUFFICES ASSUME j + 1 <= n PROVE Fine(j + 1)
      <3> HIDE DEF Fine
      <3> QED
        OBVIOUS
    <2> DEFINE k == j + 1
    <2>1. k \in 1..n /\ k - 1 = j /\ j <= n
      OBVIOUS
    <2>2. Fine(j)
      <3> HIDE DEF Fine
      <3> QED
        BY <1>2, <2>1
    <2>3. p[k] = p[j] \o Settings(items, k)
      BY <2>1 DEF Steps
    <2>4. Settings(items, k) \in Seq(S) /\ NoDefault(Settings(items, k))
      BY <2>1, SettingsTyped, SettingsNoDefault DEF S
    <2> HIDE DEF k
    <2>5. p[j] \o Settings(items, k) \in Seq(S)
      BY <2>2, <2>4, ConcatProperties
    <2>6. NoDefault(p[j] \o Settings(items, k))
      BY <2>2, <2>4, NoDefaultConcat
    <2> QED
      BY <2>3, <2>5, <2>6 DEF k
  <1>3. Nat \subseteq I
    <2> HIDE DEF I
    <2> QED
      BY <1>1, <1>2, SetInduction
  <1> HIDE DEF Fine
  <1>4. \A j \in 0..n : Fine(j)
    BY <1>3
  <1> QED
    BY <1>4 DEF Fine, S

-----------------------------------------------------------------------------
(* Reading a file *)

\* The files named by the time a document is read.
IncludedFrom(files, document) ==
    FoldLeft(LAMBDA fs, item : IF item.do = "include" THEN Append(fs, item) ELSE fs,
             files, document)

\* The document stands in items behind the first k.
StandsAt(document, len, items, n, k) ==
    /\ len \in Nat /\ k \in Nat /\ k + len <= n
    /\ DOMAIN document = 1..len
    /\ \A i \in 1..len : document[i] = items[k + i]

\* Items that can all be read.
ReadsWell(items, n) ==
    /\ n \in Nat /\ DOMAIN items = 1..n /\ AreItems(items)
    /\ \A j \in 1..n : PlainItem(items[j])
    /\ AtMostTen(items)

\* A file is read item by item, from where it stands.
LEMMA FileRead ==
  ASSUME NEW items, NEW n, ReadsWell(items, n), NEW p, Steps(items, n, p),
         NEW document, NEW len, NEW k, StandsAt(document, len, items, n, k),
         NEW c, Good(items, p[k], k, c)
  PROVE  LET t == ReadFile(c, document)
         IN  /\ Good(items, p[k + len], k + len, t)
             /\ t.fate = "reading" => t.files = IncludedFrom(c.files, document)
  <1> DEFINE S == AllSettings(items)
             e == FoldLeft(Item, c, document)
             d == IncludedFrom(c.files, document)
  <1>1. /\ n \in Nat /\ DOMAIN items = 1..n /\ AreItems(items)
        /\ \A j \in 1..n : PlainItem(items[j])
        /\ \A j \in 1..n : items[j].do = "block" => Total(items, items[j].name) <= 10
    BY DEF ReadsWell, AtMostTen
  <1>2. /\ len \in Nat /\ k \in Nat /\ k + len <= n
        /\ DOMAIN document = 1..len
        /\ \A i \in 1..len : document[i] = items[k + i]
    BY DEF StandsAt
  <1>3. EachRuns("items", 0, c, document, len, e)
    BY <1>2, ItemsRun
  <1>4. EachRuns("included", 0, c.files, document, len, d)
    BY <1>2, IncludedRun DEF IncludedFrom
  <1> HIDE DEF e, d
  <1>5. PICK q : /\ q[0] = c /\ q[len] = e
                 /\ \A i \in 1..len : q[i] = Item(q[i - 1], document[i])
    BY <1>3 DEF EachRuns, Each
  <1>6. PICK f : /\ f[0] = c.files /\ f[len] = d
                 /\ \A i \in 1..len : f[i] = IF document[i].do = "include"
                                             THEN Append(f[i - 1], document[i]) ELSE f[i - 1]
    BY <1>4 DEF EachRuns, Each
  <1>7. \A j \in 0..n : p[j] \in Seq(S) /\ NoDefault(p[j])
    BY <1>1, PrefixesFine
  <1> DEFINE Fine(i) == /\ Good(items, p[k + i], k + i, q[i])
                        /\ q[i].fate = "reading" => q[i].files = f[i]
             I == {i \in Nat : i <= len => Fine(i)}
  <1>8. 0 \in I
    BY <1>2, <1>5, <1>6
  <1>9. ASSUME NEW i \in Nat, i \in I PROVE i + 1 \in I
    <2> SUFFICES ASSUME i + 1 <= len PROVE Fine(i + 1)
      <3> HIDE DEF Fine
      <3> QED
        OBVIOUS
    <2> DEFINE m == i + 1
               j == k + m
               t == Item(q[i], items[j])
    <2>1. /\ m \in 1..len /\ m - 1 = i /\ i <= len
          /\ j \in 1..n /\ j \in DOMAIN items /\ j - 1 = k + i /\ j - 1 \in 0..n
      <3>1. n \in Nat /\ k \in Nat /\ len \in Nat /\ k + len <= n /\ i \in Nat /\ i + 1 <= len
        BY <1>1, <1>2
      <3>2. m \in 1..len /\ m - 1 = i /\ i <= len
        BY <3>1
      <3>3. j \in 1..n /\ j - 1 = k + i /\ j - 1 \in 0..n
        BY <3>1
      <3> QED
        BY <1>1, <3>2, <3>3
    <2>2. Fine(i)
      <3> HIDE DEF Fine
      <3> QED
        BY <1>9, <2>1
    <2>3. q[m] = t /\ document[m] = items[j]
      BY <1>2, <1>5, <2>1
    <2>4. p[j] = p[j - 1] \o Settings(items, j)
      BY <2>1 DEF Steps
    <2>5. Settings(items, j) \in Seq(S)
      BY <1>1, <2>1, SettingsTyped
    <2>6. p[j - 1] \in Seq(S) /\ NoDefault(p[j - 1]) /\ Good(items, p[j - 1], j - 1, q[i])
      BY <1>7, <2>1, <2>2
    <2>7. PlainItem(items[j]) /\ (items[j].do = "block" => Total(items, items[j].name) <= 10)
      BY <1>1, <2>1
    <2>8. /\ Good(items, p[j - 1] \o Settings(items, j), j, t)
          /\ t.files = FilesAfter(q[i], items[j])
      <3> DEFINE A == p[j - 1]
                 r == q[i]
      <3>1. A \in Seq(S) /\ NoDefault(A) /\ Good(items, A, j - 1, r)
        BY <2>6
      <3> HIDE DEF A, r, S, j, m
      <3>2. /\ Good(items, A \o Settings(items, j), j, Item(r, items[j]))
            /\ Item(r, items[j]).files = FilesAfter(r, items[j])
        BY <1>1, <2>1, <2>5, <2>7, <3>1, ItemGood
      <3> QED
        BY <3>2 DEF A, r
    <2>9. ASSUME q[m].fate = "reading" PROVE q[m].files = f[m]
      <3>1. q[i].fate = "reading"
        <4> SUFFICES ASSUME q[i].fate # "reading" PROVE FALSE
          OBVIOUS
        <4>1. items[j].do = "block" => \E l \in Nat : DOMAIN items[j].sets = 1..l
          <5> SUFFICES ASSUME items[j].do = "block"
                       PROVE  \E l \in Nat : DOMAIN items[j].sets = 1..l
            OBVIOUS
          <5>1. items[j].sets \in Seq(Range(items[j].sets))
            BY <1>1, <2>1 DEF AreItems
          <5>2. /\ Len(items[j].sets) \in Nat
                /\ DOMAIN items[j].sets = 1..Len(items[j].sets)
            BY <5>1
          <5> QED
            BY <5>2
        <4>2. t = q[i]
          BY <4>1, Unread
        <4> QED
          BY <2>3, <2>9, <4>2
      <3>2. q[i].files = f[i]
        BY <2>2, <3>1
      <3> QED
        BY <1>6, <2>1, <2>3, <2>8, <3>1, <3>2 DEF FilesAfter
    <2> QED
      BY <2>3, <2>4, <2>8, <2>9
  <1>10. Fine(len)
    <2>1. Nat \subseteq I
      <3> HIDE DEF I
      <3> QED
        BY <1>8, <1>9, SetInduction
    <2> HIDE DEF Fine
    <2> QED
      BY <1>2, <2>1
  <1> HIDE DEF I
  <1>11. Good(items, p[k + len], k + len, e) /\ (e.fate = "reading" => e.files = d)
    BY <1>5, <1>6, <1>10
  <1> DEFINE g == IF e.category = <<>> THEN e ELSE Warned(e)
             t == [g EXCEPT !.category = <<>>, !.permit = TRUE]
  <1>12. ReadFile(c, document) = t
    BY DEF ReadFile, EndOfFile, e
  <1>13. IsReader(e)
    BY <1>11 DEF Good
  <1>14. IsReader(g) /\ g.fate = e.fate
    BY <1>13, WarnedKeeps DEF Keeps
  <1>15. e.fate = "reading" => g = e
    BY <1>11 DEF Good
  <1> HIDE DEF g
  <1>16. /\ IsReader(t) /\ t.fate = g.fate /\ t.files = g.files /\ t.entries = g.entries
         /\ t.sequences = g.sequences /\ t.category = <<>> /\ t.permit = TRUE
    BY <1>14 DEF IsReader, Fields
  <1> HIDE DEF t
  <1>17. Good(items, p[k + len], k + len, t)
    BY <1>11, <1>14, <1>15, <1>16 DEF Good, Holding
  <1>18. t.fate = "reading" => t.files = d
    BY <1>11, <1>14, <1>15, <1>16
  <1> QED
    BY <1>12, <1>17, <1>18 DEF d

\* A disk whose files are sequences of items, the first of them readable.
Stuff(d) == UNION {Range(d[f]) : f \in Files}

DiskFine(d) ==
    /\ \A f \in Files : d[f] \in Seq(Stuff(d))
    /\ \A item \in Stuff(d) :
          /\ item.do = "block" => item.sets \in Seq(Range(item.sets))
          /\ item.do = "sequence" => item.path \in Seq(Range(item.path))
    /\ Readable(d) /\ WellWritten(d)

\* What FilesOK says of the disks is enough to read them.
LEMMA DisksFine ==
  ASSUME NEW d \in Disks \cup Edits, Readable(d), WellWritten(d)
  PROVE  DiskFine(d)
  <1>1. \A f \in Files : d[f] \in Seq(Range(d[f]))
    BY FilesOK
  <1>2. ASSUME NEW f \in Files PROVE d[f] \in Seq(Stuff(d))
    <2>1. Range(d[f]) \subseteq Stuff(d)
      BY DEF Stuff
    <2> QED
      BY <1>1, <2>1
  <1>3. ASSUME NEW item \in Stuff(d)
        PROVE  /\ item.do = "block" => item.sets \in Seq(Range(item.sets))
               /\ item.do = "sequence" => item.path \in Seq(Range(item.path))
    <2>1. PICK f \in Files : item \in Range(d[f])
      BY DEF Stuff
    <2> QED
      BY <2>1, FilesOK
  <1> QED
    BY <1>2, <1>3 DEF DiskFine

\* The files a document names, and one that names none.
LEMMA IncludedIs ==
  ASSUME NEW S, NEW document \in Seq(S), NEW files \in Seq(S)
  PROVE  /\ IncludedFrom(files, document) \in Seq(S)
         /\ (\A item \in Range(document) : item.do # "include") =>
               IncludedFrom(files, document) = files
  <1> DEFINE len == Len(document)
             d == IncludedFrom(files, document)
  <1>1. /\ len \in Nat /\ DOMAIN document = 1..len
        /\ \A i \in 1..len : document[i] \in S
    OBVIOUS
  <1>2. EachRuns("included", 0, files, document, len, d)
    BY <1>1, IncludedRun DEF IncludedFrom
  <1> HIDE DEF d, len
  <1>3. PICK f : /\ f[0] = files /\ f[len] = d
                 /\ \A i \in 1..len : f[i] = IF document[i].do = "include"
                                             THEN Append(f[i - 1], document[i]) ELSE f[i - 1]
    BY <1>2 DEF EachRuns, Each
  <1> DEFINE None == \A item \in Range(document) : item.do # "include"
             I == {i \in Nat : i <= len => f[i] \in Seq(S) /\ (None => f[i] = files)}
  <1>4. None => \A i \in 1..len : document[i].do # "include"
    BY <1>1 DEF Range
  <1> HIDE DEF None
  <1>5. 0 \in I
    BY <1>3
  <1>6. ASSUME NEW i \in Nat, i \in I PROVE i + 1 \in I
    <2> SUFFICES ASSUME i + 1 <= len
                 PROVE  f[i + 1] \in Seq(S) /\ (None => f[i + 1] = files)
      OBVIOUS
    <2> DEFINE m == i + 1
    <2>1. m \in 1..len /\ m - 1 = i /\ f[i] \in Seq(S) /\ (None => f[i] = files)
      BY <1>1, <1>6
    <2>2. f[m] = IF document[m].do = "include" THEN Append(f[i], document[m]) ELSE f[i]
      BY <1>3, <2>1
    <2>3. document[m] \in S
      BY <1>1, <2>1
    <2> HIDE DEF m
    <2>4. f[m] \in Seq(S)
      BY <2>1, <2>2, <2>3, AppendProperties
    <2> QED
      BY <1>4, <2>1, <2>2, <2>4 DEF m
  <1>7. len \in I
    <2> HIDE DEF I
    <2>1. Nat \subseteq I
      BY <1>5, <1>6, SetInduction
    <2> QED
      BY <1>1, <2>1
  <1> QED
    BY <1>1, <1>3, <1>7 DEF d, None

\* The documents of a disk, one after the other.
Document(d, l) == IF d[l.file] = Gone THEN <<>> ELSE d[l.file]

Joins(d, l, w) ==
    /\ w[0] = d[Main] /\ w[Len(l)] = Whole(d)
    /\ \A i \in 1..Len(l) : w[i] = w[i - 1] \o Document(d, l[i])

\* The documents are joined one by one.
LEMMA JoinsExist ==
  ASSUME NEW d, DiskFine(d)
  PROVE  LET l == Included(d[Main])
         IN  /\ l \in Seq(Stuff(d))
             /\ \E w : Joins(d, l, w)
             /\ \A i \in 1..Len(l) : l[i].file \in Files
  <1> DEFINE l == Included(d[Main])
             S == Stuff(d)
  <1>1. d[Main] \in Seq(S)
    BY FilesOK DEF DiskFine
  <1>2. l = IncludedFrom(<<>>, d[Main])
    BY DEF Included, IncludedFrom
  <1>3. l \in Seq(S)
    <2>1. <<>> \in Seq(S)
      OBVIOUS
    <2> HIDE DEF l, S
    <2> QED
      BY <1>1, <1>2, <2>1, IncludedIs
  <1> DEFINE n == Len(l)
  <1>4. n \in Nat /\ DOMAIN l = 1..n
    BY <1>3
  <1>5. EachRuns("whole", d, d[Main], l, n, Followed(d, d[Main], l))
    <2> HIDE DEF l, n
    <2> QED
      BY <1>4, WholeRun
  <1>6. Whole(d) = Followed(d, d[Main], l)
    BY DEF Whole, Followed
  <1>7. PICK w : /\ w[0] = d[Main] /\ w[n] = Whole(d)
                 /\ \A i \in 1..n : w[i] = w[i - 1] \o Document(d, l[i])
    BY <1>5, <1>6 DEF EachRuns, Each, Document
  <1>8. Joins(d, l, w)
    BY <1>7 DEF Joins
  <1>9. \A i \in 1..Len(l) : l[i].file \in Files
    <2>1. \A x \in Range(l) : x.file \in Files
      BY DEF DiskFine, WellWritten
    <2> HIDE DEF l
    <2> QED
      BY <1>4, <2>1 DEF Range
  <1> QED
    BY <1>3, <1>8, <1>9

\* What is joined is a beginning of the whole.
LEMMA JoinsFine ==
  ASSUME NEW d, DiskFine(d), NEW l \in Seq(Stuff(d)),
         \A i \in 1..Len(l) : l[i].file \in Files,
         NEW w, Joins(d, l, w)
  PROVE  /\ \A i \in 0..Len(l) : w[i] \in Seq(Stuff(d))
         /\ \A i \in 1..Len(l) : Document(d, l[i]) \in Seq(Stuff(d))
         /\ \A i \in 0..Len(l) :
               /\ Len(w[i]) <= Len(Whole(d))
               /\ \A j \in 1..Len(w[i]) : Whole(d)[j] = w[i][j]
  <1> DEFINE S == Stuff(d)
             n == Len(l)
  <1>1. n \in Nat /\ DOMAIN l = 1..n
    OBVIOUS
  <1>2. ASSUME NEW i \in 1..n PROVE Document(d, l[i]) \in Seq(S)
    <2>1. d[l[i].file] \in Seq(S) /\ <<>> \in Seq(S)
      BY DEF DiskFine
    <2> QED
      BY <2>1 DEF Document
  <1>3. d[Main] \in Seq(S)
    BY FilesOK DEF DiskFine
  <1>4. /\ w[0] = d[Main] /\ w[n] = Whole(d)
        /\ \A i \in 1..n : w[i] = w[i - 1] \o Document(d, l[i])
    BY DEF Joins
  <1> HIDE DEF n, S
  <1> DEFINE I == {i \in Nat : i <= n => w[i] \in Seq(S)}
  <1>5. 0 \in I
    BY <1>3, <1>4
  <1>6. ASSUME NEW i \in Nat, i \in I PROVE i + 1 \in I
    <2> SUFFICES ASSUME i + 1 <= n PROVE w[i + 1] \in Seq(S)
      OBVIOUS
    <2> DEFINE m == i + 1
    <2>1. m \in 1..n /\ m - 1 = i /\ w[i] \in Seq(S)
      BY <1>1, <1>6
    <2>2. w[m] = w[i] \o Document(d, l[m]) /\ Document(d, l[m]) \in Seq(S)
      BY <1>2, <1>4, <2>1
    <2>3. w[m] \in Seq(S)
      BY <2>1, <2>2, ConcatProperties
    <2> QED
      BY <2>3
  <1>7. \A i \in 0..n : w[i] \in Seq(S)
    <2>1. Nat \subseteq I
      <3> HIDE DEF I
      <3> QED
        BY <1>5, <1>6, SetInduction
    <2> QED
      BY <1>1, <2>1
  <1> HIDE DEF I
  <1>8. ASSUME NEW i \in 0..n
        PROVE  /\ Len(w[i]) <= Len(Whole(d))
               /\ \A j \in 1..Len(w[i]) : Whole(d)[j] = w[i][j]
    <2> DEFINE Fine(m) == /\ Len(w[i]) <= Len(w[i + m])
                          /\ \A j \in 1..Len(w[i]) : w[i + m][j] = w[i][j]
               J == {m \in Nat : i + m <= n => Fine(m)}
    <2>0. i \in Nat /\ Len(w[i]) \in Nat
      BY <1>1, <1>7
    <2>1. 0 \in J
      BY <2>0
    <2>2. ASSUME NEW m \in Nat, m \in J PROVE m + 1 \in J
      <3> SUFFICES ASSUME i + (m + 1) <= n PROVE Fine(m + 1)
        <4> HIDE DEF Fine
        <4> QED
          OBVIOUS
      <3> DEFINE a == i + m
                 b == i + (m + 1)
      <3>1. a \in 0..n /\ b \in 1..n /\ b - 1 = a /\ i + m <= n
        BY <1>1, <2>0
      <3>2. Fine(m)
        <4> HIDE DEF Fine
        <4> QED
          BY <2>2, <3>1
      <3>3. w[b] = w[a] \o Document(d, l[b])
        BY <1>4, <3>1
      <3>4. w[a] \in Seq(S) /\ Document(d, l[b]) \in Seq(S)
        BY <1>2, <1>7, <3>1
      <3> DEFINE x == w[a]
                 y == Document(d, l[b])
      <3>5. /\ Len(x \o y) = Len(x) + Len(y) /\ Len(x) \in Nat /\ Len(y) \in Nat
            /\ \A j \in 1..(Len(x) + Len(y)) :
                  (x \o y)[j] = IF j <= Len(x) THEN x[j] ELSE y[j - Len(x)]
        <4>1. x \in Seq(S) /\ y \in Seq(S)
          BY <3>4
        <4> HIDE DEF x, y
        <4> QED
          BY <4>1, ConcatProperties
      <3>6. Len(w[i]) <= Len(x) /\ \A j \in 1..Len(w[i]) : x[j] = w[i][j]
        BY <3>2
      <3>7. w[b] = x \o y
        BY <3>3
      <3> HIDE DEF x, y, a, b
      <3>8. Len(w[i]) <= Len(w[b]) /\ \A j \in 1..Len(w[i]) : w[b][j] = w[i][j]
        BY <2>0, <3>5, <3>6, <3>7
      <3> QED
        BY <3>8 DEF b
    <2>3. Nat \subseteq J
      <3> HIDE DEF J
      <3> QED
        BY <2>1, <2>2, SetInduction
    <2>4. n - i \in Nat /\ i + (n - i) = n
      BY <1>1, <2>0
    <2> HIDE DEF Fine
    <2>5. Fine(n - i)
      BY <1>1, <2>3, <2>4
    <2> QED
      BY <1>4, <2>4, <2>5 DEF Fine
  <1> QED
    BY <1>2, <1>7, <1>8 DEF n, S

\* The next file of c is l, and files are the others.
NextFile(c, l, files) ==
    c.files # <<>> /\ Head(c.files) = l /\ Tail(c.files) = files

\* A file named by an include is read where it stands in items.
LEMMA NextRead ==
  ASSUME NEW items, NEW n, ReadsWell(items, n), NEW p, Steps(items, n, p),
         NEW d, DiskFine(d), NEW l \in Range(Included(d[Main])), l.file \in Files,
         NEW len, NEW k, StandsAt(Document(d, l), len, items, n, k),
         NEW c, Good(items, p[k], k, c), c.fate = "reading",
         NEW S, NEW files \in Seq(S), NextFile(c, l, files)
  PROVE  LET t == IncludeNext(c, d)
         IN  /\ Good(items, p[k + len], k + len, t)
             /\ t.fate = "reading" => t.files = files
  <1> DEFINE rest == [c EXCEPT !.files = Tail(@)]
             t == IncludeNext(c, d)
  <1>0. IsReader(c)
    BY DEF Good
  <1>1. /\ IsReader(rest) /\ rest.files = files /\ rest.fate = "reading"
        /\ rest.entries = c.entries /\ rest.sequences = c.sequences
        /\ rest.category = c.category /\ rest.permit = c.permit
    BY <1>0 DEF IsReader, Fields, NextFile
  <1>2. Good(items, p[k], k, rest)
    <2> HIDE DEF rest
    <2> QED
      BY <1>1 DEF Good, Holding
  <1>3. t = IF d[l.file] # Gone THEN ReadFile(rest, d[l.file])
            ELSE IF l.required THEN [rest EXCEPT !.fate = "exited"] ELSE rest
    BY DEF IncludeNext, NextFile
  <1>4. CASE d[l.file] # Gone
    <2> DEFINE doc == d[l.file]
    <2>1. Document(d, l) = doc
      BY <1>4 DEF Document
    <2>2. doc \in Seq(Stuff(d))
      BY DEF DiskFine
    <2>3. \A item \in Range(doc) : item.do # "include"
      BY <1>4 DEF DiskFine, WellWritten
    <2> HIDE DEF rest, doc, t
    <2>4. /\ Good(items, p[k + len], k + len, ReadFile(rest, doc))
          /\ ReadFile(rest, doc).fate = "reading" =>
                ReadFile(rest, doc).files = IncludedFrom(rest.files, doc)
      BY <1>2, <2>1, FileRead
    <2>5. IncludedFrom(files, doc) = files
      <3> DEFINE U == S \cup Stuff(d)
      <3>1. files \in Seq(U) /\ doc \in Seq(U)
        BY <2>2
      <3> HIDE DEF U
      <3> QED
        BY <2>3, <3>1, IncludedIs
    <2>6. t = ReadFile(rest, doc)
      BY <1>3, <1>4 DEF doc
    <2> QED
      BY <1>1, <2>4, <2>5, <2>6 DEF t
  <1>5. CASE d[l.file] = Gone
    <2>1. Document(d, l) = <<>>
      BY <1>5 DEF Document
    <2>2. len = 0 /\ k + len = k
      <3>1. len \in Nat /\ k \in Nat /\ DOMAIN Document(d, l) = 1..len
        BY DEF StandsAt
      <3>2. DOMAIN Document(d, l) = {}
        BY <2>1
      <3> QED
        BY <3>1, <3>2
    <2>3. CASE l.required
      <3> DEFINE u == [rest EXCEPT !.fate = "exited"]
      <3>1. t = u
        BY <1>3, <1>5, <2>3
      <3> HIDE DEF rest, t
      <3>2. IsReader(u) /\ u.fate = "exited"
        BY <1>1 DEF IsReader, Fields
      <3> HIDE DEF u
      <3> QED
        BY <3>1, <3>2 DEF Good, t
    <2>4. CASE ~l.required
      <3>1. t = rest
        BY <1>3, <1>5, <2>4
      <3> HIDE DEF rest, t
      <3> QED
        BY <1>1, <1>2, <2>2, <3>1 DEF t
    <2> QED
      BY <2>3, <2>4
  <1> QED
    BY <1>4, <1>5

\* Places behind the first a of a whole that stands behind k places.
LEMMA Behind ==
  ASSUME NEW a \in Nat, NEW len \in Nat, NEW k \in Nat, NEW whole \in Nat, NEW n \in Nat,
         a + len <= whole, k + whole <= n
  PROVE  /\ k + a \in Nat /\ (k + a) + len <= n
         /\ \A y \in 1..len : /\ a + y \in 1..(a + len) /\ a + y \in 1..whole
                              /\ k + (a + y) = (k + a) + y
  OBVIOUS

\* A read of a disk reads all of its documents, one after the other.
LEMMA DiskRead ==
  ASSUME NEW items, NEW n, ReadsWell(items, n), NEW p, Steps(items, n, p),
         NEW d, DiskFine(d), NEW k, NEW whole, whole = Len(Whole(d)),
         StandsAt(Whole(d), whole, items, n, k),
         NEW c, Good(items, p[k], k, c), c.fate = "reading", c.files = <<>>
  PROVE  LET t == Read(c, d)
         IN  /\ Good(items, p[k + whole], k + whole, t)
             /\ t.fate = "reading" => t.files = <<>>
  <1> DEFINE l == Included(d[Main])
             S == Stuff(d)
             m == Len(l)
             q == [i \in 1..MaxIncludes |-> i]
  <1>1. /\ l \in Seq(S)
        /\ \A i \in 1..m : l[i].file \in Files
    BY JoinsExist
  <1>2. PICK w : Joins(d, l, w)
    BY JoinsExist
  <1>3. m \in Nat /\ DOMAIN l = 1..m
    BY <1>1
  <1>4. m <= MaxIncludes /\ MaxIncludes \in Nat
    BY FilesOK DEF DiskFine, WellWritten
  <1>5. /\ \A i \in 0..m : w[i] \in Seq(S)
        /\ \A i \in 1..m : Document(d, l[i]) \in Seq(S)
        /\ \A i \in 0..m :
              /\ Len(w[i]) <= whole
              /\ \A j \in 1..Len(w[i]) : Whole(d)[j] = w[i][j]
    <2> HIDE DEF l, m, S
    <2>1. /\ l \in Seq(Stuff(d)) /\ m = Len(l)
          /\ \A i \in 1..Len(l) : l[i].file \in Files
      BY <1>1 DEF l, S, m
    <2>2. \A i \in 0..Len(l) : w[i] \in Seq(Stuff(d))
      BY <1>2, <2>1, JoinsFine
    <2>3. \A i \in 1..Len(l) : Document(d, l[i]) \in Seq(Stuff(d))
      BY <1>2, <2>1, JoinsFine
    <2>4. \A i \in 0..Len(l) :
             /\ Len(w[i]) <= Len(Whole(d))
             /\ \A j \in 1..Len(w[i]) : Whole(d)[j] = w[i][j]
      BY <1>2, <2>1, JoinsFine
    <2> QED
      BY <2>1, <2>2, <2>3, <2>4 DEF S
  <1>6. /\ w[0] = d[Main] /\ w[m] = Whole(d)
        /\ \A i \in 1..m : w[i] = w[i - 1] \o Document(d, l[i])
    BY <1>2 DEF Joins
  <1>7. /\ whole \in Nat /\ k \in Nat /\ k + whole <= n /\ n \in Nat
        /\ DOMAIN Whole(d) = 1..whole
        /\ \A i \in 1..whole : Whole(d)[i] = items[k + i]
    BY DEF StandsAt, ReadsWell
  \* The first document.
  <1> DEFINE u == ReadFile(c, d[Main])
             z == Len(w[0])
  <1>8. Good(items, p[k + z], k + z, u) /\ (u.fate = "reading" => u.files = l)
    <2>1. d[Main] \in Seq(S) /\ 0 \in 0..m
      BY <1>3, <1>5, <1>6
    <2>2. z \in Nat /\ z <= whole /\ DOMAIN d[Main] = 1..z
      BY <1>5, <1>6, <2>1
    <2>3. \A i \in 1..z : i \in 1..whole /\ d[Main][i] = Whole(d)[i]
      BY <1>5, <1>6, <1>7, <2>1, <2>2
    <2> HIDE DEF z, l, m
    <2>4. StandsAt(d[Main], z, items, n, k)
      BY <1>7, <2>2, <2>3 DEF StandsAt
    <2>5. /\ Good(items, p[k + z], k + z, u)
          /\ u.fate = "reading" => u.files = IncludedFrom(c.files, d[Main])
      BY <2>4, FileRead
    <2>6. IncludedFrom(<<>>, d[Main]) = l
      BY DEF IncludedFrom, Included, l
    <2> QED
      BY <2>5, <2>6
  <1> HIDE DEF u
  \* The documents it includes.
  <1> DEFINE e == ReadAll(d, u, q)
  <1>9. DOMAIN q = 1..MaxIncludes /\ \A i \in 1..MaxIncludes : q[i] = i
    OBVIOUS
  <1> HIDE DEF q
  <1>10. EachRuns("files", d, u, q, MaxIncludes, e)
    BY <1>4, <1>9, FilesRun
  <1> HIDE DEF e
  <1>11. PICK v : /\ v[0] = u /\ v[MaxIncludes] = e
                  /\ \A i \in 1..MaxIncludes : v[i] = IncludeNext(v[i - 1], d)
    BY <1>10 DEF EachRuns, Each
  <1> DEFINE at(i) == k + Len(w[i])
             Fine(i) == /\ Good(items, p[at(i)], at(i), v[i])
                        /\ v[i].fate = "reading" => v[i].files = SubSeq(l, i + 1, m)
             I == {i \in Nat : i <= m => Fine(i)}
  <1>12. 0 \in I
    <2>1. SubSeq(l, 1, m) = l
      <3> HIDE DEF l, S
      <3> QED
        BY <1>1, SubSeqFull
    <2> HIDE DEF l
    <2> QED
      BY <1>3, <1>8, <1>11, <2>1
  <1> HIDE DEF l, S
  <1>13. ASSUME NEW i \in Nat, i \in I PROVE i + 1 \in I
    <2> SUFFICES ASSUME i + 1 <= m PROVE Fine(i + 1)
      <3> HIDE DEF Fine
      <3> QED
        OBVIOUS
    <2> DEFINE j == i + 1
               r == v[i]
               t == IncludeNext(r, d)
               x == l[j]
    <2>1. j \in 1..m /\ j - 1 = i /\ i <= m /\ i \in 0..m /\ j \in 0..m /\ j \in 1..MaxIncludes
      BY <1>3, <1>4
    <2>2. Fine(i)
      <3> HIDE DEF Fine
      <3> QED
        BY <1>13, <2>1
    <2>3. v[j] = t
      BY <1>11, <2>1
    <2> DEFINE doc == Document(d, x)
               len == Len(doc)
               a == w[i]
    <2>4. w[j] = a \o doc /\ a \in Seq(S) /\ doc \in Seq(S)
      BY <1>5, <1>6, <2>1
    <2>5. /\ Len(w[j]) = Len(a) + len /\ Len(a) \in Nat /\ len \in Nat
          /\ \A y \in 1..len : w[j][Len(a) + y] = doc[y]
      <3> DEFINE b == a \o doc
      <3>1. /\ Len(b) = Len(a) + Len(doc) /\ Len(a) \in Nat /\ Len(doc) \in Nat
            /\ \A y \in 1..(Len(a) + Len(doc)) :
                 b[y] = IF y <= Len(a) THEN a[y] ELSE doc[y - Len(a)]
        <4>1. a \in Seq(S) /\ doc \in Seq(S)
          BY <2>4
        <4> HIDE DEF a, doc
        <4> QED
          BY <4>1, ConcatProperties
      <3> HIDE DEF b, doc, a
      <3>2. ASSUME NEW y \in 1..len PROVE b[Len(a) + y] = doc[y]
        <4>1. /\ Len(a) + y \in 1..(Len(a) + Len(doc)) /\ ~(Len(a) + y <= Len(a))
              /\ (Len(a) + y) - Len(a) = y
          BY <3>1
        <4> QED
          BY <3>1, <4>1
      <3> QED
        BY <2>4, <3>1, <3>2 DEF b
    <2>b. k \in Nat /\ whole \in Nat /\ n \in Nat /\ k + whole <= n
      BY <1>7
    <2>6. at(j) = at(i) + len
      <3> HIDE DEF len, doc, Fine, I, r, t, x, j
      <3> QED
        BY <2>b, <2>5
    <2>7. StandsAt(doc, len, items, n, at(i))
      <3>1. DOMAIN doc = 1..len
        BY <2>4
      <3>2. Len(w[j]) <= whole
        BY <1>5, <2>1
      <3>3. ASSUME NEW y \in 1..len PROVE doc[y] = items[at(i) + y]
        <4> DEFINE o == Len(a) + y
        <4>1. o \in 1..Len(w[j]) /\ o \in 1..whole /\ k + o = at(i) + y
          <5>1. Len(a) \in Nat /\ Len(w[j]) = Len(a) + len /\ len \in Nat /\ at(i) = k + Len(a)
            BY <2>5
          <5> HIDE DEF len, doc, Fine, I, r, t, x, j, at, a
          <5> DEFINE la == Len(a)
          <5>2. la \in Nat /\ len \in Nat /\ la + len <= whole /\ k + whole <= n
            BY <2>b, <3>2, <5>1
          <5> HIDE DEF la
          <5>3. la + y \in 1..(la + len) /\ la + y \in 1..whole /\ k + (la + y) = (k + la) + y
            BY ONLY <2>b, <3>3, <5>2, Behind
          <5> QED
            BY <5>1, <5>3 DEF la
        <4>2. doc[y] = w[j][o]
          BY <2>5
        <4>3. w[j][o] = Whole(d)[o]
          BY <1>5, <2>1, <4>1
        <4>4. Whole(d)[o] = items[k + o]
          BY <1>7, <4>1
        <4> QED
          BY <4>1, <4>2, <4>3, <4>4
      <3>4. at(i) \in Nat /\ at(i) + len <= n
        <4> DEFINE la == Len(a)
        <4>1. la \in Nat /\ len \in Nat /\ la + len = Len(w[j]) /\ at(i) = k + la
          BY <2>5
        <4> HIDE DEF len, doc, Fine, I, r, t, x, j, at, la
        <4>2. la + len <= whole
          BY <3>2, <4>1
        <4> QED
          BY <2>b, <4>1, <4>2, Behind
      <3> HIDE DEF doc, len, at
      <3> QED
        BY <2>5, <3>1, <3>3, <3>4 DEF StandsAt
    <2>8. CASE r.fate # "reading"
      <3>1. t = r
        BY <2>8 DEF IncludeNext
      <3>2. IsReader(r)
        BY <2>2 DEF Good
      <3> HIDE DEF t, r
      <3> QED
        BY <2>3, <2>8, <3>1, <3>2 DEF Good
    <2>9. CASE r.fate = "reading"
      <3>1. r.files = SubSeq(l, j, m)
        BY <2>2, <2>9
      <3>2. Head(r.files) = x /\ Tail(r.files) = SubSeq(l, j + 1, m)
        <4>1. l \in Seq(S) /\ j \in 1..Len(l) /\ m \in j..Len(l) /\ m = Len(l)
          BY <1>1, <1>3, <2>1
        <4> HIDE DEF j, m, r
        <4> QED
          BY <3>1, <4>1, HeadTailOfSubSeq
      <3>3. SubSeq(l, j + 1, m) \in Seq(S) /\ r.files # <<>>
        <4>1. \A y \in 1..m : l[y] \in S
          BY <1>1
        <4>2. \A y \in j..m : l[y] \in S
          BY <2>1, <4>1
        <4>3. \A y \in (j + 1)..m : l[y] \in S
          BY <2>1, <4>1
        <4>4. j \in Int /\ j + 1 \in Int /\ m \in Int /\ j <= m
          BY <1>3, <2>1
        <4> HIDE DEF j, m, r
        <4>5. SubSeq(l, j + 1, m) \in Seq(S)
          BY <4>3, <4>4, SubSeqProperties
        <4>6. Len(SubSeq(l, j, m)) = m - j + 1
          BY <4>2, <4>4, SubSeqProperties
        <4>7. Len(SubSeq(l, j, m)) # 0
          BY <4>4, <4>6
        <4>8. SubSeq(l, j, m) # <<>>
          <5> DEFINE y == SubSeq(l, j, m)
          <5>1. Len(y) # 0
            BY <4>7
          <5> HIDE DEF y
          <5>2. y # <<>>
            BY <5>1
          <5> QED
            BY <5>2 DEF y
        <4> QED
          BY <3>1, <4>5, <4>8
      <3>4. x \in Range(Included(d[Main])) /\ x.file \in Files
        BY <1>1, <1>3, <2>1 DEF Range, l
      <3> DEFINE g == at(i)
                 files == SubSeq(l, j + 1, m)
      <3>5. Good(items, p[g], g, r) /\ StandsAt(Document(d, x), len, items, n, g)
        BY <2>2, <2>7
      <3> HIDE DEF g, files, r, x, t, len
      <3>6. /\ Good(items, p[g + len], g + len, IncludeNext(r, d))
            /\ IncludeNext(r, d).fate = "reading" => IncludeNext(r, d).files = files
        <4>1. NextFile(r, x, files) /\ files \in Seq(S) /\ r.fate = "reading"
          BY <2>9, <3>2, <3>3 DEF NextFile, files
        <4> QED
          BY <3>4, <3>5, <4>1, NextRead
      <3>7. g + len = at(j)
        BY <2>6 DEF g
      <3> QED
        BY <2>3, <3>6, <3>7 DEF files, t
    <2> QED
      BY <2>8, <2>9
  <1>14. Fine(m)
    <2>1. Nat \subseteq I
      <3> HIDE DEF I
      <3> QED
        BY <1>12, <1>13, SetInduction
    <2> HIDE DEF Fine
    <2> QED
      BY <1>3, <2>1
  <1>15. /\ Good(items, p[k + whole], k + whole, v[m])
         /\ v[m].fate = "reading" => v[m].files = <<>>
    <2>1. SubSeq(l, m + 1, m) = <<>>
      BY <1>3, SubSeqEmpty
    <2>2. at(m) = k + whole
      BY <1>6
    <2> HIDE DEF at, m
    <2> QED
      BY <1>14, <2>1, <2>2
  <1> HIDE DEF Fine, I
  \* No file is left to read.
  <1> DEFINE J == {i \in Nat : m + i <= MaxIncludes => v[m + i] = v[m]}
  <1>16. 0 \in J
    BY <1>3
  <1>17. ASSUME NEW i \in Nat, i \in J PROVE i + 1 \in J
    <2> SUFFICES ASSUME m + (i + 1) <= MaxIncludes PROVE v[m + (i + 1)] = v[m]
      OBVIOUS
    <2> DEFINE j == m + (i + 1)
    <2>1. j \in 1..MaxIncludes /\ j - 1 = m + i /\ m + i <= MaxIncludes
      BY <1>3, <1>4
    <2>2. v[m + i] = v[m]
      BY <1>17, <2>1
    <2>3. v[j] = IncludeNext(v[m], d)
      BY <1>11, <2>1, <2>2
    <2>4. IncludeNext(v[m], d) = v[m]
      BY <1>15 DEF IncludeNext
    <2> QED
      BY <2>3, <2>4
  <1>18. e = v[m]
    <2>1. Nat \subseteq J
      <3> HIDE DEF J
      <3> QED
        BY <1>16, <1>17, SetInduction
    <2> DEFINE i == MaxIncludes - m
    <2>2. i \in Nat /\ m + i = MaxIncludes
      BY <1>3, <1>4
    <2> HIDE DEF i
    <2>3. v[m + i] = v[m]
      <3>1. i \in J
        BY <2>1, <2>2
      <3>2. m + i <= MaxIncludes
        BY <1>4, <2>2
      <3> QED
        BY <3>1, <3>2
    <2> QED
      BY <1>11, <2>2, <2>3
  <1>19. ReadIncluded(u, d) = e
    <2>1. e = FoldLeft(LAMBDA r, y : IncludeNext(r, d), u, [i \in 1..MaxIncludes |-> i])
      BY DEF e, ReadAll, q
    <2>2. ~(e.files # <<>> /\ e.fate = "reading")
      BY <1>15, <1>18
    <2> HIDE DEF e
    <2> QED
      BY <2>1, <2>2 DEF ReadIncluded, StackLimit
  <1>20. Read(c, d) = e
    BY <1>19 DEF Read, DiskFine, u
  <1> QED
    BY <1>15, <1>18, <1>20

\* A document of plain items makes a whole of plain items.
LEMMA WholePlain ==
  ASSUME NEW d, DiskFine(d)
  PROVE  /\ Whole(d) \in Seq(Stuff(d))
         /\ \A j \in 1..Len(Whole(d)) : PlainItem(Whole(d)[j])
  <1> DEFINE l == Included(d[Main])
             S == {x \in Stuff(d) : PlainItem(x)}
             n == Len(l)
  <1>1. /\ l \in Seq(Stuff(d))
        /\ \A i \in 1..n : l[i].file \in Files
    BY JoinsExist
  <1>2. PICK w : Joins(d, l, w)
    BY JoinsExist
  <1>3. n \in Nat /\ DOMAIN l = 1..n
    BY <1>1
  <1>4. ASSUME NEW f \in Files, WrittenPlainly(d[f]) PROVE d[f] \in Seq(S)
    <2>1. d[f] \in Seq(Stuff(d))
      BY DEF DiskFine
    <2>2. \A i \in 1..Len(d[f]) : d[f][i] \in Range(d[f]) /\ d[f][i] \in Stuff(d)
      BY <2>1 DEF Range
    <2>3. \A i \in 1..Len(d[f]) : d[f][i] \in S
      BY <1>4, <2>2 DEF WrittenPlainly, PlainItem
    <2> HIDE DEF S
    <2> QED
      BY <2>1, <2>3
  <1>5. d[Main] \in Seq(S)
    BY <1>4, FilesOK DEF DiskFine, WellWritten
  <1>6. ASSUME NEW i \in 1..n PROVE Document(d, l[i]) \in Seq(S)
    <2>1. CASE d[l[i].file] = Gone
      BY <2>1 DEF Document
    <2>2. CASE d[l[i].file] # Gone
      <3>1. l[i] \in Range(l) /\ l[i].file \in Files
        BY <1>1, <1>3 DEF Range
      <3>2. WrittenPlainly(d[l[i].file])
        BY <2>2, <3>1 DEF DiskFine, WellWritten
      <3> QED
        BY <1>4, <2>2, <3>1, <3>2 DEF Document
    <2> QED
      BY <2>1, <2>2
  <1>7. /\ w[0] = d[Main] /\ w[n] = Whole(d)
        /\ \A i \in 1..n : w[i] = w[i - 1] \o Document(d, l[i])
    BY <1>2 DEF Joins
  <1> HIDE DEF S, n
  <1> DEFINE I == {i \in Nat : i <= n => w[i] \in Seq(S)}
  <1>8. 0 \in I
    BY <1>5, <1>7
  <1>9. ASSUME NEW i \in Nat, i \in I PROVE i + 1 \in I
    <2> SUFFICES ASSUME i + 1 <= n PROVE w[i + 1] \in Seq(S)
      OBVIOUS
    <2> DEFINE m == i + 1
    <2>1. m \in 1..n /\ m - 1 = i /\ w[i] \in Seq(S)
      BY <1>3, <1>9
    <2>2. w[m] = w[i] \o Document(d, l[m]) /\ Document(d, l[m]) \in Seq(S)
      BY <1>6, <1>7, <2>1
    <2>3. w[m] \in Seq(S)
      BY <2>1, <2>2, ConcatProperties
    <2> QED
      BY <2>3
  <1>10. Whole(d) \in Seq(S)
    <2>1. Nat \subseteq I
      <3> HIDE DEF I
      <3> QED
        BY <1>8, <1>9, SetInduction
    <2> QED
      BY <1>3, <1>7, <2>1
  <1>11. \A j \in 1..Len(Whole(d)) : Whole(d)[j] \in S
    BY <1>10
  <1>12. \A j \in 1..Len(Whole(d)) : Whole(d)[j] \in Stuff(d) /\ PlainItem(Whole(d)[j])
    BY <1>11 DEF S
  <1>13. Whole(d) \in Seq(Stuff(d))
    BY <1>10, <1>12
  <1> QED
    BY <1>12, <1>13

\* Plain items can all be read.
LEMMA WholeReads ==
  ASSUME NEW d, DiskFine(d), NEW items \in Seq(Stuff(d)),
         \A j \in 1..Len(items) : PlainItem(items[j]), AtMostTen(items)
  PROVE  ReadsWell(items, Len(items))
  <1>1. Len(items) \in Nat /\ DOMAIN items = 1..Len(items)
    OBVIOUS
  <1>2. \A j \in 1..Len(items) : items[j] \in Stuff(d)
    OBVIOUS
  <1>3. AreItems(items)
    BY <1>1, <1>2 DEF AreItems, DiskFine
  <1> QED
    BY <1>1, <1>3 DEF ReadsWell

\* A reader before its first file.
LEMMA StartGood ==
  ASSUME NEW items
  PROVE  Good(items, <<>>, 0, NewConfig) /\ NewConfig.fate = "reading" /\ NewConfig.files = <<>>
  <1>1. /\ IsReader(NewConfig) /\ NewConfig.fate = "reading" /\ NewConfig.files = <<>>
        /\ NewConfig.category = <<>> /\ NewConfig.permit = TRUE
        /\ NewConfig.entries = DefaultEntries /\ NewConfig.sequences = DefaultSequences
    BY DEF NewConfig, IsReader, Fields
  <1>2. Holding(NewConfig, <<>>)
    BY <1>1, EntriesNone DEF Holding
  <1>3. ASSUME NEW name
        PROVE  /\ <<Part(name)>> \in NewConfig.sequences <=> Known(items, name, 0)
               /\ Numbers(NewConfig.entries, <<Part(name)>>) = 1..Counted(items, name, 0)
    <2>1. 1..0 = {}
      OBVIOUS
    <2>2. Known(items, name, 0) <=> <<Part(name)>> \in DefaultSequences
      BY <2>1 DEF Known
    <2> QED
      BY <1>1, <2>1, <2>2, NumbersNone, CountedNone
  <1> QED
    BY <1>1, <1>2, <1>3 DEF Good

Once(d) == Read(NewConfig, d)
Twice(d) == Read(Once(d), d)

\* What a read leaves behind is what the documents mean.
LEMMA ReadOnce ==
  ASSUME NEW d, DiskFine(d), AtMostTen(Whole(d)), Once(d).fate = "reading"
  PROVE  /\ Once(d).entries = Meaning(Whole(d))
         /\ \A name : Numbers(Once(d).entries, <<Part(name)>>) = 1..Total(Whole(d), name)
  <1> DEFINE items == Whole(d)
             n == Len(items)
             t == Once(d)
  <1>1. items \in Seq(Stuff(d)) /\ \A j \in 1..n : PlainItem(items[j])
    BY WholePlain
  <1>2. n \in Nat /\ DOMAIN items = 1..n
    BY <1>1
  <1>3. ReadsWell(items, n)
    BY <1>1, WholeReads
  <1>4. PICK p : Steps(items, n, p)
    BY <1>2, PrefixesExist
  <1>5. p[0] = <<>> /\ p[n] = Assignments(items)
    BY <1>4 DEF Steps
  <1>6. StandsAt(Whole(d), n, items, n, 0)
    <2>1. \A i \in 1..n : items[i] = items[0 + i]
      BY <1>2
    <2>2. 0 \in Nat /\ 0 + n <= n
      BY <1>2
    <2> HIDE DEF n
    <2> QED
      BY <1>2, <2>1, <2>2 DEF StandsAt
  <1>7. Good(items, p[0], 0, NewConfig) /\ NewConfig.fate = "reading" /\ NewConfig.files = <<>>
    BY <1>5, StartGood
  <1>8. n = Len(Whole(d)) /\ 0 + n = n
    BY <1>2
  <1> HIDE DEF items, n
  <1>9. Good(items, p[0 + n], 0 + n, Read(NewConfig, d))
    BY <1>3, <1>4, <1>6, <1>7, <1>8, DiskRead
  <1>10. Good(items, p[n], n, t)
    BY <1>8, <1>9 DEF Once
  <1>11. t.entries = Entries(p[n]) /\ \A name : Numbers(t.entries, <<Part(name)>>) = 1..Counted(items, name, n)
    BY <1>10 DEF Good, Holding
  <1> QED
    BY <1>5, <1>11 DEF Meaning, Total, items, n

\* The documents of d twice, as a RESTART reads them.
Again(d) == Whole(d) \o Whole(d)

\* What the two reads of a RESTART leave behind.
LEMMA ReadTwice ==
  ASSUME NEW d, DiskFine(d), AtMostTen(Again(d)),
         Once(d).fate = "reading", Twice(d).fate = "reading",
         NEW n, n = Len(Whole(d)),
         NEW p, Steps(Again(d), n + n, p)
  PROVE  /\ Once(d).entries = Entries(p[n])
         /\ Twice(d).entries = Entries(p[n + n])
         /\ Numbers(Twice(d).entries, <<Part("Listener")>>) =
               1..Counted(Again(d), "Listener", n + n)
         /\ Numbers(Twice(d).entries, <<Part("Operator")>>) =
               1..Counted(Again(d), "Operator", n + n)
  <1> DEFINE W == Whole(d)
             items == Again(d)
             S == Stuff(d)
             m == n + n
  <1>1. W \in Seq(S) /\ \A j \in 1..n : PlainItem(W[j])
    BY WholePlain
  <1>2. n \in Nat /\ DOMAIN W = 1..n /\ m \in Nat
    BY <1>1
  <1>3. /\ items \in Seq(S) /\ Len(items) = m /\ DOMAIN items = 1..m
        /\ \A j \in 1..m : items[j] = IF j <= n THEN W[j] ELSE W[j - n]
    <2> HIDE DEF S, W
    <2>1. items = W \o W /\ Len(W) = n
      BY DEF Again, W
    <2>2. /\ W \o W \in Seq(S) /\ Len(W \o W) = Len(W) + Len(W)
          /\ \A j \in 1..(Len(W) + Len(W)) :
                (W \o W)[j] = IF j <= Len(W) THEN W[j] ELSE W[j - Len(W)]
      BY <1>1, ConcatProperties
    <2> HIDE DEF items
    <2> QED
      BY <2>1, <2>2
  <1>4. \A j \in 1..m : PlainItem(items[j])
    <2>1. \A j \in 1..m : j <= n => j \in 1..n
      BY <1>2
    <2>2. \A j \in 1..m : ~(j <= n) => j - n \in 1..n
      BY <1>2
    <2> HIDE DEF m, items, W
    <2> QED
      BY <1>1, <1>3, <2>1, <2>2
  <1>5. ReadsWell(items, m)
    <2> HIDE DEF items, S
    <2>1. ReadsWell(items, Len(items))
      BY <1>3, <1>4, WholeReads DEF S, items
    <2> QED
      BY <1>3, <2>1
  <1>6. p[0] = <<>>
    BY DEF Steps
  <1>7. StandsAt(W, n, items, m, 0) /\ StandsAt(W, n, items, m, n)
    <2>1. \A i \in 1..n : /\ i \in 1..m /\ i <= n /\ 0 + i = i
                          /\ n + i \in 1..m /\ ~(n + i <= n) /\ (n + i) - n = i
      BY <1>2
    <2>2. \A i \in 1..n : W[i] = items[0 + i] /\ W[i] = items[n + i]
      BY <1>3, <2>1
    <2>3. 0 + n <= m /\ n + n <= m /\ 0 \in Nat
      BY <1>2
    <2> HIDE DEF W, items, m
    <2> QED
      BY <1>2, <2>2, <2>3 DEF StandsAt
  <1>8. Good(items, p[0], 0, NewConfig) /\ NewConfig.fate = "reading" /\ NewConfig.files = <<>>
    BY <1>6, StartGood
  <1>9. 0 + n = n /\ Steps(items, m, p) /\ StandsAt(Whole(d), n, items, m, 0)
        /\ StandsAt(Whole(d), n, items, m, n)
    BY <1>2, <1>7
  <1> HIDE DEF items, m
  <1>10. /\ Good(items, p[0 + n], 0 + n, Read(NewConfig, d))
         /\ Read(NewConfig, d).fate = "reading" => Read(NewConfig, d).files = <<>>
    BY <1>5, <1>8, <1>9, DiskRead
  <1> DEFINE c == Once(d)
  <1>11. Good(items, p[n], n, c) /\ c.fate = "reading" /\ c.files = <<>>
    BY <1>9, <1>10 DEF Once
  <1> HIDE DEF c
  <1>12. Good(items, p[n + n], n + n, Read(c, d))
    BY <1>5, <1>9, <1>11, DiskRead
  <1>13. Good(items, p[n + n], n + n, Twice(d))
    BY <1>12 DEF Twice, c
  <1> QED
    BY <1>11, <1>13 DEF Good, Holding, items, c

\* What the server holds after it has read d once, or once more in a RESTART.
ReadOf(d, again) == IF again THEN Twice(d) ELSE Once(d)

WasRead(d, again, c) ==
    /\ c = ReadOf(d, again) /\ c.fate = "reading"
    /\ again => Readable(d) /\ Once(d).fate = "reading"

ConfigInv ==
    /\ disk \in Disks \cup Edits /\ given \in Disks \cup Edits /\ booted \in Disks \cup Edits
    /\ server = "off" => config = NewConfig /\ doubled = {}
    /\ server = "up" =>
          /\ WasRead(given, "config" \in doubled, config)
          /\ Readable(booted)
          /\ \E c : /\ WasRead(booted, "listeners" \in doubled, c)
                    /\ listeners = SetupListener(c.entries, refused)
                    /\ me = ServerEntry(c.entries) /\ Identified(me)

\* A server that has started with c holds what c says.
LEMMA Started ==
  ASSUME NEW c, Start(c), server' = "up"
  PROVE  /\ c.fate = "reading" /\ Readable(disk) /\ config' = c
         /\ listeners' = SetupListener(c.entries, refused')
         /\ me' = ServerEntry(c.entries) /\ Identified(me')
  <1>1. Becomes(c) = "up" /\ me' = ServerEntry(c.entries)
    BY DEF Start
  <1>2. Readable(disk) /\ c.fate = "reading" /\ Identified(ServerEntry(c.entries))
    BY <1>1 DEF Becomes, After
  <1> QED
    BY <1>1, <1>2 DEF Start

\* What is read is always one disk, once or twice, from nothing.
THEOREM ConfigInductive == Spec => []ConfigInv
  <1>1. Init => ConfigInv
    BY DEF Init, ConfigInv
  <1>2. ConfigInv /\ [Next]_vars => ConfigInv'
    <2> SUFFICES ASSUME ConfigInv, [Next]_vars PROVE ConfigInv'
      OBVIOUS
    <2>1. CASE CheckConfig
      <3>1. server' # "up" /\ server' # "off"
        BY <2>1 DEF CheckConfig
      <3> QED
        BY <2>1, <3>1 DEF ConfigInv, CheckConfig
    <2>2. CASE Boot
      <3>1. config = NewConfig /\ doubled = {} /\ doubled' = {} /\ Start(Once(disk))
        BY <2>2 DEF Boot, ConfigInv, Once
      <3>2. /\ disk' \in Disks \cup Edits /\ given' \in Disks \cup Edits
            /\ booted' \in Disks \cup Edits /\ given' = disk /\ booted' = disk /\ disk' = disk
        BY <3>1 DEF Start, ConfigInv
      <3>3. server' # "off"
        BY <3>1 DEF Start, Becomes, After
      <3>4. ASSUME server' = "up"
            PROVE  /\ WasRead(given', FALSE, config') /\ Readable(booted')
                   /\ WasRead(booted', FALSE, config')
                   /\ listeners' = SetupListener(config'.entries, refused')
                   /\ me' = ServerEntry(config'.entries) /\ Identified(me')
        BY <3>1, <3>2, <3>4, Started DEF WasRead, ReadOf
      <3>5. ("config" \in doubled') = FALSE /\ ("listeners" \in doubled') = FALSE
        BY <3>1
      <3>6. server' = "up" => /\ WasRead(given', "config" \in doubled', config')
                              /\ WasRead(booted', "listeners" \in doubled', config')
        BY <3>4, <3>5
      <3> QED
        BY <3>2, <3>3, <3>4, <3>6 DEF ConfigInv
    <2>3. CASE Rehash
      <3>1. /\ config' = Once(disk) /\ server' = After(config') /\ given' = disk /\ server = "up"
            /\ "config" \notin doubled'
            /\ "listeners" \in doubled' <=> "listeners" \in doubled
            /\ disk' = disk /\ listeners' = listeners /\ me' = me /\ booted' = booted
            /\ refused' = refused
        BY <2>3 DEF Rehash, Once, Cleared
      <3>2. server' # "off" /\ (server' = "up" => config'.fate = "reading")
        BY <3>1 DEF After
      <3>3. server' = "up" => WasRead(given', FALSE, config')
        BY <3>1, <3>2 DEF WasRead, ReadOf
      <3>4. Readable(booted') <=> Readable(booted)
        BY <3>1
      <3>5. \E c : /\ WasRead(booted', "listeners" \in doubled', c)
                   /\ listeners' = SetupListener(c.entries, refused')
                   /\ me' = ServerEntry(c.entries) /\ Identified(me')
        <4>1. PICK c : /\ WasRead(booted, "listeners" \in doubled, c)
                       /\ listeners = SetupListener(c.entries, refused)
                       /\ me = ServerEntry(c.entries) /\ Identified(me)
          BY <3>1 DEF ConfigInv
        <4>2. WasRead(booted', "listeners" \in doubled', c)
          BY <3>1, <4>1 DEF WasRead, ReadOf
        <4> QED
          BY <3>1, <4>1, <4>2
      <3>6. ("config" \in doubled') = FALSE
        BY <3>1
      <3>7. Readable(booted')
        BY <3>1, <3>4 DEF ConfigInv
      <3>8. server' = "up" => WasRead(given', "config" \in doubled', config')
        BY <3>3, <3>6
      <3>9. /\ disk' \in Disks \cup Edits /\ given' \in Disks \cup Edits
            /\ booted' \in Disks \cup Edits
        BY <3>1 DEF ConfigInv
      <3> QED
        BY <3>2, <3>5, <3>7, <3>8, <3>9 DEF ConfigInv
    <2>4. CASE Restart
      <3> DEFINE c == IF Once(disk).fate = "reading" THEN Twice(disk) ELSE Once(disk)
      <3>1. Start(c) /\ doubled' = {"config", "listeners"}
        BY <2>4 DEF Restart, Once, Twice, Cleared
      <3>2. given' = disk /\ booted' = disk /\ disk' = disk
        BY <3>1 DEF Start
      <3>3. server' # "off"
        BY <3>1 DEF Start, Becomes, After
      <3>4. ASSUME server' = "up"
            PROVE  /\ WasRead(given', TRUE, config') /\ Readable(booted')
                   /\ WasRead(booted', TRUE, config')
                   /\ listeners' = SetupListener(config'.entries, refused')
                   /\ me' = ServerEntry(config'.entries) /\ Identified(me')
        <4>1. /\ c.fate = "reading" /\ Readable(disk) /\ config' = c
              /\ listeners' = SetupListener(c.entries, refused')
              /\ me' = ServerEntry(c.entries) /\ Identified(me')
          BY <3>1, <3>4, Started
        <4>2. Once(disk).fate = "reading" /\ c = Twice(disk)
          BY <4>1
        <4> HIDE DEF c
        <4> QED
          BY <3>2, <4>1, <4>2 DEF WasRead, ReadOf
      <3>5. "config" \in doubled' /\ "listeners" \in doubled'
        BY <3>1
      <3> QED
        BY <3>2, <3>3, <3>4, <3>5 DEF ConfigInv
    <2>5. CASE Edit
      BY <2>5 DEF ConfigInv, Edit
    <2>6. CASE UNCHANGED vars
      BY <2>6 DEF ConfigInv, vars
    <2> QED
      BY <2>1, <2>2, <2>3, <2>4, <2>5, <2>6 DEF Next
  <1> QED
    BY <1>1, <1>2, PTL DEF Spec

\* The disks a run meets are written plainly, with ten blocks of a name.
WellGiven == \A d \in Disks \cup Edits : Readable(d) => WellWritten(d) /\ AtMostTen(Whole(d))

\* The configuration holds what the files say, for any files of plain
\* conditions with at most ten numbered blocks of a name.
THEOREM AlwaysEntries == WellGiven => (Spec => []EntriesAsWritten)
  <1> SUFFICES ASSUME WellGiven PROVE Spec => []EntriesAsWritten
    OBVIOUS
  <1>1. ASSUME ConfigInv, server = "up", Readable(given), "config" \notin doubled
        PROVE  config.entries = Meaning(Whole(given))
    <2>1. given \in Disks \cup Edits /\ config = Once(given) /\ Once(given).fate = "reading"
      BY <1>1 DEF ConfigInv, WasRead, ReadOf
    <2>2. DiskFine(given) /\ AtMostTen(Whole(given))
      BY <1>1, <2>1, DisksFine DEF WellGiven
    <2> QED
      BY <2>1, <2>2, ReadOnce
  <1>2. ConfigInv => EntriesAsWritten
    BY <1>1 DEF EntriesAsWritten
  <1> QED
    BY <1>2, ConfigInductive, PTL

-----------------------------------------------------------------------------
(* What more assignments do *)

\* What is behind n assignments A, and in them.
LEMMA ConcatPlaces ==
  ASSUME NEW S, NEW A \in Seq(S), NEW s \in Seq(S)
  PROVE  LET B == A \o s
             n == Len(A)
         IN  /\ B \in Seq(S) /\ n \in Nat /\ Len(B) = n + Len(s) /\ n + Len(s) \in Nat
             /\ DOMAIN A = 1..n /\ DOMAIN B = 1..(n + Len(s)) /\ n <= n + Len(s)
             /\ DOMAIN s = 1..Len(s)
             /\ Agree(A, B, n)
             /\ \A a \in 1..Len(s) : n + a \in 1..(n + Len(s)) /\ B[n + a] = s[a]
  <1> DEFINE B == A \o s
             n == Len(A)
             m == Len(s)
  <1>1. n \in Nat /\ m \in Nat /\ DOMAIN A = 1..n /\ DOMAIN s = 1..m
    OBVIOUS
  <1>2. /\ B \in Seq(S) /\ Len(B) = n + m
        /\ \A i \in 1..(n + m) : B[i] = IF i <= n THEN A[i] ELSE s[i - n]
    BY ConcatProperties
  <1>3. DOMAIN B = 1..(n + m)
    BY <1>2
  <1> HIDE DEF n, m, B
  <1>4. \A i \in 1..n : A[i] = B[i]
    BY <1>1, <1>2
  <1>5. \A a \in 1..m : n + a \in 1..(n + m) /\ ~(n + a <= n) /\ (n + a) - n = a
    BY <1>1
  <1>6. \A a \in 1..m : B[n + a] = s[a]
    BY <1>2, <1>5
  <1>7. n <= n + m /\ n + m \in Nat
    BY <1>1
  <1> QED
    BY <1>1, <1>2, <1>3, <1>4, <1>5, <1>6, <1>7 DEF Agree, B, n, m

\* The keys of two sequences of assignments.
LEMMA KeysOfConcat ==
  ASSUME NEW S, NEW A \in Seq(S), NEW s \in Seq(S)
  PROVE  KeysOf(A \o s) = KeysOf(A) \cup KeysOf(s)
  <1> DEFINE B == A \o s
             n == Len(A)
             m == Len(s)
  <1>1. /\ n \in Nat /\ DOMAIN A = 1..n /\ DOMAIN B = 1..(n + m) /\ DOMAIN s = 1..m /\ m \in Nat
        /\ \A i \in 1..n : A[i] = B[i] /\ i \in 1..(n + m)
        /\ \A a \in 1..m : n + a \in 1..(n + m) /\ B[n + a] = s[a]
    BY ConcatPlaces DEF Agree
  <1> HIDE DEF B, n, m
  <1>2. ASSUME NEW i \in DOMAIN B PROVE B[i][1] \in KeysOf(A) \cup KeysOf(s)
    <2>1. CASE i <= n
      BY <1>1, <2>1 DEF KeysOf
    <2>2. CASE ~(i <= n)
      <3>1. i - n \in 1..m /\ n + (i - n) = i
        BY <1>1, <2>2
      <3>2. B[i] = s[i - n]
        BY <1>1, <3>1
      <3> QED
        BY <1>1, <3>1, <3>2 DEF KeysOf
    <2> QED
      BY <2>1, <2>2
  <1>3. \A k \in KeysOf(B) : k \in KeysOf(A) \cup KeysOf(s)
    BY <1>2 DEF KeysOf
  <1>4. \A k \in KeysOf(A) : k \in KeysOf(B)
    BY <1>1 DEF KeysOf
  <1>5. \A k \in KeysOf(s) : k \in KeysOf(B)
    BY <1>1 DEF KeysOf
  <1> QED
    BY <1>3, <1>4, <1>5 DEF B

\* Keys that are there keep their values.
LEMMA EntriesConcat ==
  ASSUME NEW S, NEW A \in Seq(S), NEW s \in Seq(S), NoDefault(A)
  PROVE  /\ DOMAIN Entries(A \o s) = DOMAIN Entries(A) \cup KeysOf(s)
         /\ \A k \in DOMAIN Entries(A) : Entries(A \o s)[k] = Entries(A)[k]
  <1> DEFINE B == A \o s
             n == Len(A)
             m == n + Len(s)
             D == DOMAIN DefaultEntries
             f == ValuesOf(A)
             g == ValuesOf(B)
  <1>1. /\ n \in Nat /\ m \in Nat /\ n <= m /\ DOMAIN A = 1..n /\ DOMAIN B = 1..m
        /\ Len(A) = n /\ Len(B) = m /\ Agree(A, B, n)
    BY ConcatPlaces
  <1>2. KeysOf(B) = KeysOf(A) \cup KeysOf(s)
    BY KeysOfConcat
  <1> HIDE DEF B, n, m, f, g
  <1>3. \A i \in 1..n : f[i] = g[i]
    BY <1>1, ValuesKept DEF f, g
  <1>4. /\ DOMAIN Entries(A) = D \cup KeysOf(A)
        /\ \A k \in D : Entries(A)[k] = DefaultEntries[k]
        /\ \A k \in KeysOf(A) \ D : Entries(A)[k] = f[FirstBefore(A, k, n + 1)]
    BY <1>1, EntryIs DEF f
  <1>5. /\ DOMAIN Entries(B) = D \cup KeysOf(B)
        /\ \A k \in D : Entries(B)[k] = DefaultEntries[k]
        /\ \A k \in KeysOf(B) \ D : Entries(B)[k] = g[FirstBefore(B, k, m + 1)]
    BY <1>1, EntryIs DEF g
  <1> HIDE DEF D
  <1>6. ASSUME NEW k \in KeysOf(A) \ D PROVE Entries(B)[k] = Entries(A)[k]
    <2> DEFINE j == FirstBefore(A, k, n + 1)
    <2>1. IsFirst(A, k, n + 1, j)
      BY <1>1, FirstIs
    <2>2. PICK i \in 1..n : A[i][1] = k
      BY <1>1, <1>6 DEF KeysOf
    <2>3. (n + 1) - 1 = n
      BY <1>1
    <2> HIDE DEF j
    <2>4. j \in 1..n /\ A[j][1] = k /\ \A a \in 1..(j - 1) : A[a][1] # k
      BY <2>1, <2>2, <2>3 DEF IsFirst
    <2>5. \A a \in 1..(j - 1) : a \in 1..n
      BY <1>1, <2>4
    <2>6. B[j][1] = k /\ \A a \in 1..(j - 1) : B[a][1] # k
      BY <1>1, <2>4, <2>5 DEF Agree
    <2>7. j \in 1..((m + 1) - 1) /\ m + 1 \in Nat
      BY <1>1, <2>4
    <2>8. IsFirst(B, k, m + 1, j)
      BY <2>6, <2>7 DEF IsFirst
    <2>9. FirstBefore(B, k, m + 1) = j
      BY <2>7, <2>8, FirstOnly
    <2>10. k \in KeysOf(B) \ D
      BY <1>2, <1>6
    <2> QED
      BY <1>3, <1>4, <1>5, <1>6, <2>4, <2>9, <2>10 DEF j
  <1>7. \A k \in DOMAIN Entries(A) : k \in D \/ k \in KeysOf(A) \ D
    BY <1>4
  <1> QED
    BY <1>2, <1>4, <1>5, <1>6, <1>7 DEF B

\* Where the first of s for a key stands.
FirstOf(s, k, a) ==
    a \in DOMAIN s /\ s[a][1] = k /\ \A b \in 1..(a - 1) : s[b][1] # k

\* A new key gets the first value assigned to it, as it is when it is plain.
LEMMA EntriesNew ==
  ASSUME NEW S, NEW A \in Seq(S), NEW s \in Seq(S),
         NEW k, k \notin KeysOf(A), k \notin DOMAIN DefaultEntries,
         NEW a, FirstOf(s, k, a), Plain(s[a][2])
  PROVE  k \in DOMAIN Entries(A \o s) /\ Entries(A \o s)[k] = Replaced(DefaultEntries, s[a][2])
  <1> DEFINE B == A \o s
             n == Len(A)
             l == Len(s)
             m == n + l
             j == n + a
             g == ValuesOf(B)
             v == s[a][2]
  <1>1. /\ n \in Nat /\ m \in Nat /\ DOMAIN A = 1..n /\ DOMAIN B = 1..m /\ Len(B) = m
        /\ \A i \in 1..n : A[i] = B[i]
        /\ DOMAIN s = 1..l /\ l \in Nat
        /\ \A b \in 1..l : n + b \in 1..m /\ B[n + b] = s[b]
    BY ConcatPlaces, SMTT(30) DEF Agree
  <1>2. a \in 1..l /\ s[a][1] = k /\ \A b \in 1..(a - 1) : s[b][1] # k
    BY <1>1 DEF FirstOf
  <1> HIDE DEF B, g, n, m, l
  <1>3. j \in 1..m /\ B[j] = s[a] /\ B[j][1] = k /\ B[j][2] = v
    BY <1>1, <1>2
  <1>4. ASSUME NEW i \in 1..(j - 1) PROVE B[i][1] # k
    <2>1. CASE i <= n
      <3>1. i \in 1..n /\ A[i] = B[i]
        BY <1>1, <2>1
      <3> QED
        BY <1>1, <3>1 DEF KeysOf
    <2>2. CASE ~(i <= n)
      <3>1. i - n \in 1..(a - 1) /\ i - n \in 1..l /\ n + (i - n) = i
        BY <1>1, <1>2, <2>2
      <3>2. B[i] = s[i - n]
        BY <1>1, <3>1
      <3> QED
        BY <1>2, <3>1, <3>2
    <2> QED
      BY <2>1, <2>2
  <1>5. m + 1 \in Nat /\ (m + 1) - 1 = m
    BY <1>1
  <1> HIDE DEF j
  <1>6. FirstBefore(B, k, m + 1) = j
    <2>1. IsFirst(B, k, m + 1, j)
      BY <1>3, <1>4, <1>5 DEF IsFirst
    <2> QED
      BY <1>5, <2>1, FirstOnly
  <1>7. k \in KeysOf(B) \ DOMAIN DefaultEntries
    BY <1>1, <1>3 DEF KeysOf
  <1>8. k \in DOMAIN Entries(B) /\ Entries(B)[k] = g[j]
    BY <1>1, <1>6, <1>7, EntryIs DEF g
  <1>9. g[j] = Value(B, g, j)
    <2>1. g = [i \in 1..m |-> Value(B, g, i)]
      BY <1>1, ValuesExist DEF g
    <2> QED
      BY <1>3, <2>1
  <1>10. Value(B, g, j) = Replaced(DefaultEntries, v)
    <2>1. CASE v[1] = "lit"
      BY <1>3, <2>1 DEF Value, Replaced
    <2>2. CASE ~(v[1] = "lit") /\ v[2] \in DOMAIN DefaultEntries
      <3>1. Value(B, g, j) = DefaultEntries[v[2]]
        BY <1>3, <2>2 DEF Value
      <3>2. Replaced(DefaultEntries, v) = DefaultEntries[v[2]]
        BY <2>2, DefaultFound DEF Replaced, Found, VarContent, Get
      <3> QED
        BY <3>1, <3>2
    <2> QED
      BY <2>1, <2>2 DEF Plain
  <1> QED
    BY <1>8, <1>9, <1>10 DEF B

-----------------------------------------------------------------------------
(* What a block leaves *)

\* The keys of the first items.
LEMMA StepsKeys ==
  ASSUME NEW items, AreItems(items), NEW n \in Nat, DOMAIN items = 1..n,
         NEW p, Steps(items, n, p), NEW k
  PROVE  \A j \in 0..n : k \in KeysOf(p[j]) <=> \E i \in 1..j : k \in KeysOf(Settings(items, i))
  <1> DEFINE S == AllSettings(items)
             In(j) == \E i \in 1..j : k \in KeysOf(Settings(items, i))
             I == {j \in Nat : j <= n => (k \in KeysOf(p[j]) <=> In(j))}
  <1>1. 0 \in I
    <2>1. p[0] = <<>>
      BY DEF Steps
    <2>2. KeysOf(p[0]) = {}
      BY <2>1 DEF KeysOf
    <2> QED
      BY <2>2
  <1>2. ASSUME NEW j \in Nat, j \in I PROVE j + 1 \in I
    <2> SUFFICES ASSUME j + 1 <= n PROVE k \in KeysOf(p[j + 1]) <=> In(j + 1)
      OBVIOUS
    <2> DEFINE i == j + 1
    <2>1. i \in 1..n /\ i - 1 = j /\ j \in 0..n /\ 1..i = 1..j \cup {i}
      OBVIOUS
    <2>2. p[i] = p[j] \o Settings(items, i)
      BY <2>1 DEF Steps
    <2>3. p[j] \in Seq(S) /\ Settings(items, i) \in Seq(S)
      BY <2>1, PrefixesFine, SettingsTyped
    <2>4. k \in KeysOf(p[j]) <=> In(j)
      BY <1>2, <2>1
    <2>5. In(i) <=> In(j) \/ k \in KeysOf(Settings(items, i))
      BY <2>1
    <2> HIDE DEF i, In, S, I
    <2>6. KeysOf(p[i]) = KeysOf(p[j]) \cup KeysOf(Settings(items, i))
      BY <2>2, <2>3, KeysOfConcat
    <2> QED
      BY <2>4, <2>5, <2>6 DEF i
  <1>3. Nat \subseteq I
    <2> HIDE DEF I
    <2> QED
      BY <1>1, <1>2, SetInduction
  <1> QED
    BY <1>3

\* Later items do not change the entries of earlier ones.
LEMMA StepsKeep ==
  ASSUME NEW items, AreItems(items), NEW n \in Nat, DOMAIN items = 1..n,
         NEW p, Steps(items, n, p), NEW i \in 0..n, NEW k \in DOMAIN Entries(p[i])
  PROVE  \A j \in 0..n : i <= j => /\ k \in DOMAIN Entries(p[j])
                                   /\ Entries(p[j])[k] = Entries(p[i])[k]
  <1> DEFINE S == AllSettings(items)
             Same(j) == k \in DOMAIN Entries(p[j]) /\ Entries(p[j])[k] = Entries(p[i])[k]
             I == {j \in Nat : i <= j /\ j <= n => Same(j)}
  <1>1. 0 \in I
    <2>1. i <= 0 => i = 0
      OBVIOUS
    <2> QED
      BY <2>1
  <1>2. ASSUME NEW j \in Nat, j \in I PROVE j + 1 \in I
    <2> SUFFICES ASSUME i <= j + 1, j + 1 <= n PROVE Same(j + 1)
      OBVIOUS
    <2>1. CASE i = j + 1
      BY <2>1
    <2>2. CASE i # j + 1
      <3> DEFINE m == j + 1
      <3>1. m \in 1..n /\ m - 1 = j /\ j \in 0..n /\ i <= j /\ j <= n
        BY <2>2
      <3>2. p[m] = p[j] \o Settings(items, m)
        BY <3>1 DEF Steps
      <3>3. p[j] \in Seq(S) /\ NoDefault(p[j]) /\ Settings(items, m) \in Seq(S)
        BY <3>1, PrefixesFine, SettingsTyped
      <3>4. Same(j)
        BY <1>2, <3>1
      <3> HIDE DEF m, S, I
      <3> DEFINE B == p[m]
                 A == p[j]
                 s == Settings(items, m)
      <3>5. k \in DOMAIN Entries(B) /\ Entries(B)[k] = Entries(A)[k]
        <4>1. B = A \o s /\ A \in Seq(S) /\ NoDefault(A) /\ s \in Seq(S)
              /\ k \in DOMAIN Entries(A)
          BY <3>2, <3>3, <3>4
        <4> HIDE DEF A, B, s, Same
        <4>2. /\ DOMAIN Entries(A \o s) = DOMAIN Entries(A) \cup KeysOf(s)
              /\ \A y \in DOMAIN Entries(A) : Entries(A \o s)[y] = Entries(A)[y]
          BY ONLY <4>1, EntriesConcat
        <4> QED
          BY <4>1, <4>2
      <3> QED
        BY <3>4, <3>5 DEF m
    <2> QED
      BY <2>1, <2>2
  <1>3. Nat \subseteq I
    <2> HIDE DEF I
    <2> QED
      BY <1>1, <1>2, SetInduction
  <1> QED
    BY <1>3

\* The keys of one item.
LEMMA SettingsKeys ==
  ASSUME NEW items, AreItems(items), NEW j \in DOMAIN items, NEW k
  PROVE  k \in KeysOf(Settings(items, j)) <=>
            /\ Counts(items, j)
            /\ \E a \in DOMAIN items[j].sets : k = Key(Place(items, j), items[j].sets[a][1])
  <1> DEFINE s == Settings(items, j)
  <1>1. CASE ~Counts(items, j)
    <2>1. s = <<>>
      BY <1>1, SettingsTyped
    <2>2. KeysOf(s) = {}
      BY <2>1 DEF KeysOf
    <2> QED
      BY <1>1, <2>2
  <1>2. CASE Counts(items, j)
    <2>1. /\ s \in Seq(AllSettings(items)) /\ DOMAIN items[j].sets = 1..Len(s)
          /\ \A a \in 1..Len(s) :
                s[a] = <<Key(Place(items, j), items[j].sets[a][1]), items[j].sets[a][2]>>
      BY <1>2, SettingsTyped
    <2>2. DOMAIN s = 1..Len(s)
      BY <2>1
    <2> HIDE DEF s
    <2>3. \A a \in DOMAIN s : s[a][1] = Key(Place(items, j), items[j].sets[a][1])
      BY <2>1, <2>2
    <2>4. k \in KeysOf(s) <=> \E a \in DOMAIN s : k = s[a][1]
      BY DEF KeysOf
    <2> QED
      BY <1>2, <2>1, <2>2, <2>3, <2>4 DEF s
  <1> QED
    BY <1>1, <1>2

\* A key tells its block and its name.
LEMMA KeyOnly ==
  ASSUME NEW p, NEW q, NEW x, NEW y, Key(<<p>>, x) = Key(<<q>>, y)
  PROVE  p = q /\ x = y
  <1>1. <<p, Part(x)>> = <<q, Part(y)>>
    BY KeyIs
  <1>2. p = q /\ Part(x) = Part(y)
    BY <1>1
  <1> QED
    BY <1>2 DEF Part

\* Where a block stands.
LEMMA PlaceIs ==
  ASSUME NEW items, NEW j \in Nat \ {0}
  PROVE  /\ ~IsNumbered(items, j) => Place(items, j) = <<Part(items[j].name)>>
         /\ IsNumbered(items, j) =>
               Place(items, j) = <<Numbered(items[j].name, Counted(items, items[j].name, j))>>
         /\ IsNumbered(items, j) /\ Counts(items, j) => Counted(items, items[j].name, j) > 0
  <1>1. j - 1 \in Nat
    OBVIOUS
  <1>2. Counted(items, items[j].name, j - 1) \in Nat
    BY <1>1, CountedIs
  <1> QED
    BY <1>2, CountedMore DEF Place

\* What a block of sets says of a key.
Got(sets, key, def) ==
    LET as == {a \in DOMAIN sets : sets[a][1] = key}
    IN  IF as = {} THEN def ELSE Replaced(DefaultEntries, sets[Min(as)][2])

PlainSets(sets) == \A a \in DOMAIN sets : Plain(sets[a][2])

\* Numbered blocks do not share their number.
LEMMA NumberedOnce ==
  ASSUME NEW items, AreItems(items), NEW n \in Nat, DOMAIN items = 1..n,
         NEW x, <<Part(x)>> \in DefaultSequences,
         NEW i \in 1..n, Counts(items, i), items[i].name = x,
         NEW key, NEW j \in 1..n,
         Key(<<Numbered(x, Counted(items, x, i))>>, key) \in KeysOf(Settings(items, j))
  PROVE  j = i
  <1> DEFINE c == Counted(items, x, i)
  <1>1. PICK a \in DOMAIN items[j].sets :
            Key(<<Numbered(x, c)>>, key) = Key(Place(items, j), items[j].sets[a][1])
    BY SettingsKeys
  <1>2. Counts(items, j)
    BY SettingsKeys
  <1>0. i \in Nat \ {0} /\ j \in Nat \ {0}
    OBVIOUS
  <1>3. c > 0 /\ IsNumbered(items, i)
    BY <1>0, PlaceIs DEF IsNumbered
  <1>4. PICK q : Place(items, j) = <<q>>
    BY DEF Place
  <1> HIDE DEF c
  <1>5. Numbered(x, c) = q
    BY <1>1, <1>4, KeyOnly
  <1>6. items[j].name = x
    <2>1. \E m : <<q>> = <<<<items[j].name, m>>>>
      BY <1>4 DEF Place, Part, Numbered
    <2>2. \E m : q = <<items[j].name, m>>
      BY <2>1
    <2> QED
      BY <1>5, <2>2 DEF Numbered
  <1>7. IsNumbered(items, j)
    BY <1>6 DEF IsNumbered
  <1>8. Counted(items, x, j) = c
    <2>1. <<q>> = <<Numbered(x, Counted(items, x, j))>>
      BY <1>0, <1>4, <1>6, <1>7, PlaceIs
    <2>2. q = Numbered(x, Counted(items, x, j))
      BY <2>1
    <2> QED
      BY <1>5, <2>2 DEF Numbered
  <1>9. /\ Counted(items, x, i) = Counted(items, x, i - 1) + 1
        /\ Counted(items, x, j) = Counted(items, x, j - 1) + 1
    BY <1>0, <1>2, <1>3, <1>6, <1>7, CountedMore
  <1>10. /\ i - 1 \in Nat /\ j - 1 \in Nat /\ i \in Nat /\ j \in Nat
         /\ j < i => j <= i - 1
         /\ i < j => i <= j - 1
    OBVIOUS
  <1>11. Counted(items, x, i - 1) \in Nat /\ Counted(items, x, j - 1) \in Nat
    BY <1>10, CountedIs
  <1>12. j < i => Counted(items, x, j) <= Counted(items, x, i - 1)
    BY <1>10, CountedAscends
  <1>13. i < j => Counted(items, x, i) <= Counted(items, x, j - 1)
    BY <1>10, CountedAscends
  <1> QED
    BY <1>8, <1>9, <1>10, <1>11, <1>12, <1>13 DEF c

\* A numbered block of plain values is found under its number, from the time
\* it has been read on.
LEMMA BlockGets ==
  ASSUME NEW items, AreItems(items), NEW n \in Nat, DOMAIN items = 1..n,
         NEW p, Steps(items, n, p),
         NEW x, <<Part(x)>> \in DefaultSequences,
         NEW i \in 1..n, Counts(items, i), items[i].name = x, PlainSets(items[i].sets),
         NEW j \in 0..n, i <= j, NEW key, NEW def
  PROVE  Get(Entries(p[j]), Key(<<Numbered(x, Counted(items, x, i))>>, key), def) =
            Got(items[i].sets, key, def)
  <1> DEFINE k == Key(<<Numbered(x, Counted(items, x, i))>>, key)
             sets == items[i].sets
             as == {a \in DOMAIN sets : sets[a][1] = key}
             s == Settings(items, i)
             S == AllSettings(items)
             h == i - 1
  <1>1. \A b \in 1..n : k \in KeysOf(Settings(items, b)) => b = i
    <2> HIDE DEF k
    <2> QED
      BY NumberedOnce DEF k
  <1>2. k \notin DOMAIN DefaultEntries
    BY KeyNoDefault
  <1>3. Place(items, i) = <<Numbered(x, Counted(items, x, i))>>
    BY DEF Place, IsNumbered
  <1>4. h \in 0..n /\ i \in 0..n /\ 0..n \subseteq Nat
    OBVIOUS
  <1>5. /\ p[h] \in Seq(S) /\ p[j] \in Seq(S) /\ s \in Seq(S)
        /\ p[i] = p[h] \o s
    BY <1>4, PrefixesFine, SettingsTyped DEF Steps
  <1>6. /\ DOMAIN sets = 1..Len(s) /\ DOMAIN s = 1..Len(s)
        /\ \A a \in 1..Len(s) : s[a] = <<Key(<<Numbered(x, Counted(items, x, i))>>, sets[a][1]), sets[a][2]>>
    <2>1. /\ DOMAIN sets = 1..Len(s)
          /\ \A a \in 1..Len(s) : s[a] = <<Key(Place(items, i), sets[a][1]), sets[a][2]>>
      BY SettingsTyped
    <2>2. DOMAIN s = 1..Len(s)
      BY <1>5
    <2> HIDE DEF s, sets
    <2> QED
      BY <1>3, <2>1, <2>2
  <1> HIDE DEF s, S, h
  <1>7. CASE as = {}
    <2>1. k \notin KeysOf(s)
      <3> SUFFICES ASSUME NEW a \in 1..Len(s), s[a][1] = k PROVE FALSE
        BY <1>6 DEF KeysOf
      <3>1. Key(<<Numbered(x, Counted(items, x, i))>>, sets[a][1]) = k
        BY <1>6
      <3>2. sets[a][1] = key
        BY <3>1, KeyOnly
      <3> QED
        BY <1>6, <1>7, <3>2
    <2> HIDE DEF k, sets
    <2>2. \A b \in 1..n : k \notin KeysOf(Settings(items, b))
      BY <1>1, <2>1 DEF s
    <2>3. \A b \in 1..j : b \in 1..n
      OBVIOUS
    <2>4. k \notin KeysOf(p[j])
      BY <2>2, <2>3, StepsKeys
    <2>5. DOMAIN p[j] = 1..Len(p[j]) /\ Len(p[j]) \in Nat
      BY <1>5
    <2>6. k \notin DOMAIN Entries(p[j])
      BY <1>2, <2>4, <2>5, EntryIs
    <2>7. Got(sets, key, def) = def
      BY <1>7 DEF Got
    <2> QED
      BY <2>6, <2>7 DEF Get, k, sets
  <1>8. CASE as # {}
    <2> DEFINE a == Min(as)
    <2>1. as \in SUBSET Nat
      BY <1>6
    <2>2. a \in as /\ \A b \in as : a <= b
      <3> HIDE DEF as
      <3> QED
        BY <1>8, <2>1, LeastOf
    <2>3. a \in 1..Len(s) /\ sets[a][1] = key
      BY <1>6, <2>2
    <2>4. \A b \in 1..(a - 1) : b \in 1..Len(s) /\ ~(a <= b)
      BY <2>3
    <2>5. \A b \in 1..(a - 1) : sets[b][1] # key
      BY <1>6, <2>2, <2>4
    <2>6. Got(sets, key, def) = Replaced(DefaultEntries, sets[a][2])
      BY <1>8 DEF Got
    <2>7. Plain(sets[a][2])
      BY <1>6, <2>3 DEF PlainSets
    <2> HIDE DEF a, sets
    <2>8. s[a][1] = k /\ s[a][2] = sets[a][2]
      BY <1>6, <2>3
    <2>9. \A b \in 1..(a - 1) : s[b][1] # k
      <3> SUFFICES ASSUME NEW b \in 1..(a - 1), s[b][1] = k PROVE FALSE
        OBVIOUS
      <3>1. Key(<<Numbered(x, Counted(items, x, i))>>, sets[b][1]) = k
        BY <1>6, <2>4
      <3> QED
        BY <2>5, <3>1, KeyOnly
    <2> HIDE DEF k
    <2>10. FirstOf(s, k, a)
      BY <1>6, <2>3, <2>8, <2>9 DEF FirstOf
    <2>11. k \notin KeysOf(p[h])
      <3>1. \A b \in 1..h : b \in 1..n /\ b # i
        BY <1>4 DEF h
      <3> QED
        BY <1>1, <1>4, <3>1, StepsKeys
    <2>12. /\ k \in DOMAIN Entries(p[i])
           /\ Entries(p[i])[k] = Replaced(DefaultEntries, sets[a][2])
      BY <1>2, <1>5, <2>7, <2>8, <2>10, <2>11, EntriesNew
    <2>13. k \in DOMAIN Entries(p[j]) /\ Entries(p[j])[k] = Entries(p[i])[k]
      BY <1>4, <2>12, StepsKeep
    <2> QED
      BY <2>6, <2>12, <2>13 DEF Get, k, sets
  <1> QED
    BY <1>7, <1>8

-----------------------------------------------------------------------------
(* What reading twice does *)

\* The second half of items is the first once more.
Repeats(items, n) ==
    /\ n \in Nat /\ n + n \in Nat /\ DOMAIN items = 1..(n + n) /\ AreItems(items)
    /\ \A i \in 1..n : items[n + i] = items[i]

\* A block that is not numbered when it is read again was not before.
LEMMA NumberedAgain ==
  ASSUME NEW items, NEW n, Repeats(items, n), NEW i \in 1..n
  PROVE  /\ n + i \in 1..(n + n) /\ i \in 1..(n + n)
         /\ Counts(items, n + i) <=> Counts(items, i)
         /\ IsNumbered(items, i) => IsNumbered(items, n + i)
  <1>1. /\ n \in Nat /\ n + i \in 1..(n + n) /\ i \in 1..(n + n)
        /\ items[n + i] = items[i]
        /\ \A h \in 1..(i - 1) : h \in 1..((n + i) - 1)
    BY DEF Repeats
  <1>2. Counts(items, n + i) <=> Counts(items, i)
    BY <1>1 DEF Counts
  <1> DEFINE j == n + i
  <1>3. items[j] = items[i] /\ \A h \in 1..(i - 1) : h \in 1..(j - 1)
    BY <1>1
  <1> HIDE DEF j
  <1>4. IsNumbered(items, i) => IsNumbered(items, j)
    BY <1>3 DEF IsNumbered
  <1> QED
    BY <1>1, <1>2, <1>4 DEF j

\* Entries outside of numbered blocks do not change.
LEMMA UnnumberedKept ==
  ASSUME NEW items, NEW n, Repeats(items, n), NEW p, Steps(items, n + n, p),
         NEW x, NEW y, NEW def
  PROVE  Get(Entries(p[n + n]), Key(<<Part(x)>>, y), def) =
            Get(Entries(p[n]), Key(<<Part(x)>>, y), def)
  <1> DEFINE k == Key(<<Part(x)>>, y)
             m == n + n
             E == Entries(p[n])
             F == Entries(p[m])
  <1>1. /\ n \in Nat /\ m \in Nat /\ DOMAIN items = 1..m /\ AreItems(items)
        /\ n \in 0..m /\ m \in 0..m /\ n <= m /\ 1..n \subseteq 1..m
    BY DEF Repeats
  <1> HIDE DEF k, m
  <1>2. Steps(items, m, p)
    BY DEF m
  <1>3. k \in DOMAIN E => k \in DOMAIN F /\ F[k] = E[k]
    <2> HIDE DEF E, F
    <2>1. ASSUME k \in DOMAIN Entries(p[n])
          PROVE  \A j \in 0..m : n <= j => k \in DOMAIN Entries(p[j]) /\ Entries(p[j])[k] = Entries(p[n])[k]
      BY <1>1, <1>2, <2>1, StepsKeep
    <2> QED
      BY <1>1, <2>1 DEF E, F
  <1>4. k \in KeysOf(p[m]) => k \in KeysOf(p[n])
    <2> SUFFICES ASSUME k \in KeysOf(p[m]) PROVE k \in KeysOf(p[n])
      OBVIOUS
    <2>1. PICK i \in 1..m : k \in KeysOf(Settings(items, i))
      BY <1>1, <1>2, StepsKeys
    <2>2. CASE i <= n
      <3>1. i \in 1..n
        BY <1>1, <2>2
      <3> QED
        BY <1>1, <1>2, <2>1, <3>1, StepsKeys
    <2>3. CASE ~(i <= n)
      <3> DEFINE h == i - n
      <3>1. h \in 1..n /\ n + h = i /\ h \in Nat \ {0} /\ i \in Nat \ {0}
        BY <1>1, <2>3 DEF m
      <3> HIDE DEF h
      <3>2. /\ items[i] = items[h] /\ (Counts(items, i) <=> Counts(items, h))
            /\ IsNumbered(items, h) => IsNumbered(items, i)
        BY <3>1, NumberedAgain DEF Repeats
      <3>3. PICK a \in DOMAIN items[i].sets : k = Key(Place(items, i), items[i].sets[a][1])
        BY <1>1, <2>1, SettingsKeys
      <3>4. Counts(items, i)
        BY <1>1, <2>1, SettingsKeys
      <3>5. ~IsNumbered(items, i)
        <4> SUFFICES ASSUME IsNumbered(items, i) PROVE FALSE
          OBVIOUS
        <4> DEFINE c == Counted(items, items[i].name, i)
        <4>1. Place(items, i) = <<Numbered(items[i].name, c)>> /\ c > 0
          BY <3>1, <3>4, PlaceIs
        <4> HIDE DEF c
        <4>2. Part(x) = Numbered(items[i].name, c)
          BY <3>3, <4>1, KeyOnly DEF k
        <4> QED
          BY <4>1, <4>2 DEF Part, Numbered
      <3>6. Place(items, i) = <<Part(items[i].name)>> /\ Place(items, h) = <<Part(items[h].name)>>
        BY <3>1, <3>2, <3>5, PlaceIs
      <3>7. Counts(items, h) /\ \E b \in DOMAIN items[h].sets : k = Key(Place(items, h), items[h].sets[b][1])
        BY <3>2, <3>3, <3>4, <3>6
      <3>8. k \in KeysOf(Settings(items, h))
        BY <1>1, <3>1, <3>7, SettingsKeys
      <3> QED
        BY <1>1, <1>2, <3>1, <3>8, StepsKeys
    <2> QED
      BY <2>2, <2>3
  <1>5. /\ DOMAIN E = DOMAIN DefaultEntries \cup KeysOf(p[n])
        /\ DOMAIN F = DOMAIN DefaultEntries \cup KeysOf(p[m])
    <2>1. ASSUME NEW j \in 0..m
          PROVE  DOMAIN Entries(p[j]) = DOMAIN DefaultEntries \cup KeysOf(p[j])
      <3> DEFINE A == p[j]
      <3>1. A \in Seq(AllSettings(items))
        BY <1>1, <1>2, PrefixesFine
      <3>2. DOMAIN A = 1..Len(A) /\ Len(A) \in Nat
        BY <3>1
      <3> HIDE DEF A
      <3>3. DOMAIN Entries(A) = DOMAIN DefaultEntries \cup KeysOf(A)
        BY <3>2, EntryIs
      <3> QED
        BY <3>3 DEF A
    <2> QED
      BY <1>1, <2>1
  <1>6. k \in DOMAIN F => k \in DOMAIN E
    BY <1>4, <1>5
  <1>7. Get(F, k, def) = Get(E, k, def)
    BY <1>3, <1>6 DEF Get
  <1> QED
    BY <1>7 DEF k, m

\* Every number up to the last is that of a block.
LEMMA NumberedExists ==
  ASSUME NEW items, NEW x, NEW n \in Nat, NEW c \in 1..Counted(items, x, n)
  PROVE  \E i \in 1..n : Counts(items, i) /\ items[i].name = x /\ Counted(items, x, i) = c
  <1> DEFINE Has(j) == \E i \in 1..j : Counts(items, i) /\ items[i].name = x /\ Counted(items, x, i) = c
             I == {j \in Nat : c <= Counted(items, x, j) => Has(j)}
  <1>0. Counted(items, x, n) \in Nat /\ c \in Nat /\ c >= 1 /\ c <= Counted(items, x, n)
    BY CountedIs
  <1>1. 0 \in I
    BY <1>0, CountedNone
  <1>2. ASSUME NEW j \in Nat, j \in I PROVE j + 1 \in I
    <2> SUFFICES ASSUME c <= Counted(items, x, j + 1) PROVE Has(j + 1)
      OBVIOUS
    <2> DEFINE m == j + 1
               C == Counted(items, x, j)
               D == Counted(items, x, m)
    <2>1. m \in Nat \ {0} /\ m - 1 = j /\ m \in 1..m /\ 1..j \subseteq 1..m /\ c <= D
      OBVIOUS
    <2>2. c <= C => Has(j)
      BY <1>2
    <2>3. C \in Nat
      BY CountedIs
    <2> HIDE DEF m
    <2>4. D = C + (IF Counts(items, m) /\ IsNumbered(items, m) /\ items[m].name = x THEN 1 ELSE 0)
      BY <2>1, CountedMore
    <2>5. CASE c <= C
      BY <2>1, <2>2, <2>5 DEF m
    <2>6. CASE ~(c <= C)
      <3>1. Counts(items, m) /\ items[m].name = x /\ D = c
        BY <1>0, <2>1, <2>3, <2>4, <2>6
      <3> QED
        BY <2>1, <3>1 DEF m
    <2> QED
      BY <2>5, <2>6
  <1>3. Nat \subseteq I
    <2> HIDE DEF I
    <2> QED
      BY <1>1, <1>2, SetInduction
  <1> QED
    BY <1>0, <1>3

\* The second half numbers its blocks behind those of the first.
LEMMA CountedTwice ==
  ASSUME NEW items, NEW n, Repeats(items, n), NEW x, <<Part(x)>> \in DefaultSequences
  PROVE  \A i \in 0..n : Counted(items, x, n + i) = Counted(items, x, n) + Counted(items, x, i)
  <1> DEFINE T == Counted(items, x, n)
             I == {i \in Nat : i <= n => Counted(items, x, n + i) = T + Counted(items, x, i)}
  <1>0. n \in Nat /\ n + 0 = n
    BY DEF Repeats
  <1>1. T \in Nat
    BY <1>0, CountedIs
  <1>2. 0 \in I
    BY <1>0, <1>1, CountedNone
  <1>3. ASSUME NEW i \in Nat, i \in I PROVE i + 1 \in I
    <2> SUFFICES ASSUME i + 1 <= n PROVE Counted(items, x, n + (i + 1)) = T + Counted(items, x, i + 1)
      OBVIOUS
    <2> DEFINE j == i + 1
               h == n + i
               m == n + j
    <2>1. /\ j \in 1..n /\ j \in Nat \ {0} /\ j - 1 = i /\ h \in Nat
          /\ m \in Nat \ {0} /\ m - 1 = h
      BY <1>0
    <2>2. Counted(items, x, h) = T + Counted(items, x, i)
      <3>1. i <= n
        BY <1>0
      <3> HIDE DEF T
      <3> QED
        BY <1>3, <3>1
    <2>3. Counted(items, x, h) \in Nat /\ Counted(items, x, i) \in Nat
      BY <2>1, CountedIs
    <2>4. items[m] = items[j] /\ (Counts(items, m) <=> Counts(items, j))
      BY <2>1, NumberedAgain DEF Repeats
    <2> HIDE DEF j, h, m
    <2>5. items[j].name = x => IsNumbered(items, j) /\ IsNumbered(items, m)
      BY <2>4 DEF IsNumbered
    <2>6. /\ Counted(items, x, j) = Counted(items, x, i)
               + (IF Counts(items, j) /\ IsNumbered(items, j) /\ items[j].name = x THEN 1 ELSE 0)
          /\ Counted(items, x, m) = Counted(items, x, h)
               + (IF Counts(items, m) /\ IsNumbered(items, m) /\ items[m].name = x THEN 1 ELSE 0)
      BY <2>1, CountedMore
    <2>7. Counted(items, x, m) = T + Counted(items, x, j)
      BY <1>1, <2>2, <2>3, <2>4, <2>5, <2>6
    <2> QED
      BY <2>7 DEF j, m
  <1>4. Nat \subseteq I
    <2> HIDE DEF I
    <2> QED
      BY <1>2, <1>3, SetInduction
  <1> QED
    BY <1>4

\* Blocks of a name that are plain.
PlainNamed(items, n, x) ==
    \A i \in 1..n : items[i].do = "block" /\ items[i].name = x => PlainSets(items[i].sets)

\* Entries E and F, F of T blocks more, that are those of E once more.
Doubles(E, F, x, T) ==
    \A c \in 1..T : \A key, def :
        /\ Get(F, Key(<<Numbered(x, c)>>, key), def) = Get(E, Key(<<Numbered(x, c)>>, key), def)
        /\ Get(F, Key(<<Numbered(x, T + c)>>, key), def) = Get(E, Key(<<Numbered(x, c)>>, key), def)

\* What is found at the end.
LEMMA LastGets ==
  ASSUME NEW items, AreItems(items), NEW n \in Nat, DOMAIN items = 1..n,
         NEW p, Steps(items, n, p),
         NEW x, <<Part(x)>> \in DefaultSequences,
         NEW i \in 1..n, Counts(items, i), items[i].name = x, PlainSets(items[i].sets),
         NEW key, NEW def
  PROVE  Get(Entries(p[n]), Key(<<Numbered(x, Counted(items, x, i))>>, key), def) =
            Got(items[i].sets, key, def)
  <1>1. n \in 0..n /\ i <= n
    OBVIOUS
  <1> QED
    BY <1>1, BlockGets

\* Read twice, every block is found twice.
LEMMA TwiceGets ==
  ASSUME NEW items, NEW n, Repeats(items, n), NEW p, Steps(items, n + n, p),
         NEW x, <<Part(x)>> \in DefaultSequences, PlainNamed(items, n, x)
  PROVE  Doubles(Entries(p[n]), Entries(p[n + n]), x, Counted(items, x, n))
  <1> DEFINE m == n + n
             T == Counted(items, x, n)
             E == Entries(p[n])
             F == Entries(p[m])
  <1>1. /\ n \in Nat /\ m \in Nat /\ DOMAIN items = 1..m /\ AreItems(items)
        /\ n \in 0..m /\ m \in 0..m /\ n <= m /\ 1..n \subseteq 1..m
    BY DEF Repeats
  <1>2. Steps(items, m, p)
    OBVIOUS
  <1> HIDE DEF m
  <1> SUFFICES ASSUME NEW c \in 1..T, NEW key, NEW def
      PROVE  /\ Get(F, Key(<<Numbered(x, c)>>, key), def) = Get(E, Key(<<Numbered(x, c)>>, key), def)
             /\ Get(F, Key(<<Numbered(x, T + c)>>, key), def) = Get(E, Key(<<Numbered(x, c)>>, key), def)
    BY DEF Doubles, m
  <1>3. PICK i \in 1..n : Counts(items, i) /\ items[i].name = x /\ Counted(items, x, i) = c
    BY <1>1, NumberedExists
  <1> DEFINE j == n + i
             G == Got(items[i].sets, key, def)
  <1>4. PlainSets(items[i].sets)
    BY <1>3 DEF PlainNamed, Counts
  <1>5. /\ j \in 1..m /\ i \in 1..m /\ items[j] = items[i] /\ Counts(items, j)
        /\ i <= n /\ i <= m /\ j <= m /\ i \in 0..n
    <2>1. j \in 1..m /\ i \in 1..m /\ (Counts(items, j) <=> Counts(items, i)) /\ items[j] = items[i]
      BY NumberedAgain DEF Repeats, m
    <2>2. i <= n /\ i <= m /\ j <= m /\ i \in 0..n
      BY <1>1, <2>1
    <2> QED
      BY <1>3, <2>1, <2>2
  <1>6. Counted(items, x, j) = T + c
    BY <1>3, <1>5, CountedTwice
  <1> HIDE DEF j, T, E, F
  <1>7. Get(E, Key(<<Numbered(x, c)>>, key), def) = G
    <2>1. Get(Entries(p[n]), Key(<<Numbered(x, Counted(items, x, i))>>, key), def) = G
      <3> HIDE DEF G
      <3> QED
        BY <1>1, <1>2, <1>3, <1>4, <1>5, BlockGets DEF G
    <2> QED
      BY <1>3, <2>1 DEF E
  <1>8. Get(F, Key(<<Numbered(x, c)>>, key), def) = G
    <2>1. Get(Entries(p[m]), Key(<<Numbered(x, Counted(items, x, i))>>, key), def) = G
      <3> HIDE DEF G
      <3> QED
        BY <1>1, <1>2, <1>3, <1>4, <1>5, LastGets DEF G
    <2> QED
      BY <1>3, <2>1 DEF F
  <1>9. Get(F, Key(<<Numbered(x, T + c)>>, key), def) = G
    <2>1. items[j].name = x /\ PlainSets(items[j].sets)
      BY <1>3, <1>4, <1>5
    <2>2. Get(Entries(p[m]), Key(<<Numbered(x, Counted(items, x, j))>>, key), def) = Got(items[j].sets, key, def)
      BY <1>1, <1>2, <1>5, <2>1, LastGets
    <2> QED
      BY <1>5, <1>6, <2>2 DEF F
  <1> QED
    BY <1>7, <1>8, <1>9

\* The documents of a disk twice.
LEMMA WholeRepeats ==
  ASSUME NEW d, DiskFine(d), NEW n, n = Len(Whole(d))
  PROVE  /\ Repeats(Again(d), n)
         /\ \A i \in 1..n : Again(d)[i] = Whole(d)[i]
  <1> DEFINE W == Whole(d)
             S == Stuff(d)
             B == Again(d)
  <1>1. W \in Seq(S)
    BY WholePlain
  <1> HIDE DEF W
  <1>2. /\ n \in Nat /\ n + n \in Nat /\ DOMAIN (W \o W) = 1..(n + n)
        /\ Agree(W, W \o W, n)
        /\ \A i \in 1..n : (W \o W)[n + i] = W[i]
        /\ W \o W \in Seq(S)
    <2>1. n = Len(W)
      BY DEF W
    <2> QED
      BY <1>1, <2>1, ConcatPlaces
  <1>3. B = W \o W
    BY DEF Again, W
  <1> HIDE DEF B, S
  <1>4. \A i \in 1..n : B[i] = W[i] /\ B[n + i] = B[i]
    BY <1>2, <1>3 DEF Agree
  <1>5. \A j \in 1..(n + n) : B[j] \in S
    BY <1>2, <1>3
  <1>6. AreItems(B)
    BY <1>2, <1>3, <1>5 DEF AreItems, DiskFine, S
  <1> QED
    BY <1>2, <1>3, <1>4, <1>6 DEF Repeats, B, W

\* Numbers depend on the items before.
LEMMA CountedAgree ==
  ASSUME NEW items, NEW W, NEW n \in Nat, \A i \in 1..n : items[i] = W[i], NEW x
  PROVE  Counted(items, x, n) = Counted(W, x, n)
  <1>1. ASSUME NEW i \in 1..n
        PROVE  /\ Counts(items, i) <=> Counts(W, i)
               /\ IsNumbered(items, i) <=> IsNumbered(W, i)
               /\ items[i].name = W[i].name
    <2>1. \A h \in 1..(i - 1) : h \in 1..n
      OBVIOUS
    <2>2. items[i] = W[i] /\ \A h \in 1..(i - 1) : items[h] = W[h]
      BY <2>1
    <2> QED
      BY <2>2 DEF Counts, IsNumbered
  <1>2. Counter(items, x, n) = Counter(W, x, n)
    BY <1>1 DEF Counter
  <1> QED
    BY <1>2, CountedIs

\* The highest number.
LEMMA SequenceCountIs ==
  ASSUME NEW e, NEW x, NEW c \in Nat, Numbers(e, <<Part(x)>>) = 1..c
  PROVE  SequenceCount(e, x) = c
  <1>1. CASE c = 0
    <2>1. 1..c = {}
      BY <1>1
    <2> QED
      BY <1>1, <2>1 DEF SequenceCount
  <1>2. CASE c # 0
    <2>1. c \in 1..c /\ \A y \in 1..c : c >= y
      BY <1>2
    <2>2. 1..c # {}
      BY <2>1
    <2>3. Max(1..c) = c
      <3>1. \A z \in 1..c : (\A y \in 1..c : z >= y) => z = c
        BY <2>1
      <3> QED
        BY <2>1, <3>1 DEF Max
    <2> QED
      BY <2>2, <2>3 DEF SequenceCount
  <1> QED
    BY <1>1, <1>2

\* What readers find in the entries F, which the documents W mean, read once
\* or twice.
SameElsewhere(F, E) ==
    \A x, y, def : Get(F, Key(<<Part(x)>>, y), def) = Get(E, Key(<<Part(x)>>, y), def)

Numbering(F, E, x, T, again) ==
    /\ T \in Nat
    /\ ~again => F = E /\ SequenceCount(F, x) = T
    /\ again => Doubles(E, F, x, T) /\ SequenceCount(F, x) = T + T

\* What readers find is what the documents mean, read once or twice.
LEMMA FoundAs ==
  ASSUME NEW d, DiskFine(d), AtMostTen(Whole(d)), NEW again \in BOOLEAN,
         again => AtMostTen(Again(d)), NEW c, WasRead(d, again, c)
  PROVE  LET E == Meaning(Whole(d))
             F == c.entries
         IN  /\ SameElsewhere(F, E)
             /\ ~again => F = E
             /\ PlainBlocks(Whole(d)) \/ ~again =>
                   /\ Numbering(F, E, "Listener", Total(Whole(d), "Listener"), again)
                   /\ Numbering(F, E, "Operator", Total(Whole(d), "Operator"), again)
  <1> DEFINE W == Whole(d)
             n == Len(W)
             items == Again(d)
             E == Meaning(W)
             F == c.entries
             T(x) == Total(W, x)
             D == {"Listener", "Operator"}
  <1>0. n \in Nat /\ DOMAIN W = 1..n
    BY WholePlain
  <1>1. Once(d).fate = "reading" /\ (again => Twice(d).fate = "reading")
    BY DEF WasRead, ReadOf
  <1>2. Once(d).entries = E /\ \A x : Numbers(Once(d).entries, <<Part(x)>>) = 1..T(x)
    BY <1>1, ReadOnce
  <1>3. ASSUME NEW x PROVE T(x) \in Nat /\ T(x) = Counted(W, x, n)
    BY <1>0, CountedIs DEF Total
  <1>4. CASE ~again
    <2>1. F = E
      BY <1>2, <1>4 DEF WasRead, ReadOf
    <2> HIDE DEF E, F, W, T
    <2>2. \A x : Numbers(F, <<Part(x)>>) = 1..T(x)
      BY <1>2, <2>1
    <2>3. \A x : SequenceCount(F, x) = T(x)
      BY <1>3, <2>2, SequenceCountIs
    <2>4. SameElsewhere(F, E)
      BY <2>1 DEF SameElsewhere
    <2> QED
      BY <1>3, <1>4, <2>1, <2>3, <2>4 DEF Numbering, E, F, T, W
  <1>5. CASE again
    <2>0. AtMostTen(Again(d)) /\ c = Twice(d) /\ Twice(d).fate = "reading"
      BY <1>1, <1>5 DEF WasRead, ReadOf
    <2>1. Repeats(items, n) /\ \A i \in 1..n : items[i] = W[i]
      BY WholeRepeats
    <2>2. n + n \in Nat /\ DOMAIN items = 1..(n + n) /\ AreItems(items)
      BY <2>1 DEF Repeats
    <2> HIDE DEF n, items
    <2>3. PICK p : Steps(items, n + n, p)
      BY <2>2, PrefixesExist
    <2>4. /\ Once(d).entries = Entries(p[n]) /\ F = Entries(p[n + n])
          /\ Numbers(F, <<Part("Listener")>>) = 1..Counted(items, "Listener", n + n)
          /\ Numbers(F, <<Part("Operator")>>) = 1..Counted(items, "Operator", n + n)
      BY <1>1, <2>0, <2>3, ReadTwice DEF n, items
    <2>5. E = Entries(p[n])
      BY <1>2, <2>4
    <2> HIDE DEF E, F, T, W
    <2>6. SameElsewhere(F, E)
      BY <2>1, <2>3, <2>4, <2>5, UnnumberedKept DEF SameElsewhere
    <2>7. ASSUME NEW x \in D
          PROVE  /\ SequenceCount(F, x) = T(x) + T(x)
                 /\ PlainBlocks(W) => Doubles(E, F, x, T(x))
      <3>1. <<Part(x)>> \in DefaultSequences
        BY DEF DefaultSequences
      <3>2. T(x) = Counted(items, x, n) /\ T(x) \in Nat
        BY <1>0, <1>3, <2>1, CountedAgree
      <3>3. n \in 0..n
        BY <1>0
      <3>4. Counted(items, x, n + n) = T(x) + T(x)
        BY <2>1, <3>1, <3>2, <3>3, CountedTwice
      <3>5. Numbers(F, <<Part(x)>>) = 1..(T(x) + T(x)) /\ T(x) + T(x) \in Nat
        BY <2>4, <3>2, <3>4
      <3>6. SequenceCount(F, x) = T(x) + T(x)
        BY <3>5, SequenceCountIs
      <3>7. ASSUME PlainBlocks(W) PROVE PlainNamed(items, n, x)
        <4> SUFFICES ASSUME NEW i \in 1..n, items[i].do = "block", items[i].name = x
                     PROVE  PlainSets(items[i].sets)
          BY DEF PlainNamed
        <4>1. items[i] = W[i] /\ i \in DOMAIN W
          BY <1>0, <2>1 DEF n
        <4> QED
          BY <3>7, <4>1 DEF PlainBlocks, PlainSets
      <3>8. PlainBlocks(W) => Doubles(Entries(p[n]), Entries(p[n + n]), x, Counted(items, x, n))
        BY <2>1, <2>3, <3>1, <3>7, TwiceGets
      <3> QED
        BY <2>4, <2>5, <3>2, <3>6, <3>8
    <2>8. ASSUME NEW x \in D, PlainBlocks(W) PROVE Numbering(F, E, x, T(x), again)
      BY <1>3, <1>5, <2>7, <2>8 DEF Numbering
    <2> HIDE DEF T
    <2>9. PlainBlocks(W) => Numbering(F, E, "Listener", T("Listener"), again)
                            /\ Numbering(F, E, "Operator", T("Operator"), again)
      BY <2>8
    <2> QED
      BY <1>5, <2>6, <2>9 DEF T, E, F, W
  <1> QED
    BY <1>4, <1>5

\* Even read twice, no name has more than ten numbered blocks.
FewGiven == \A d \in Disks \cup Edits : Readable(d) => AtMostTen(Again(d))

\* A disk that was read, as the hypotheses say it is.
LEMMA GivenFine ==
  ASSUME WellGiven, NEW d \in Disks \cup Edits, Readable(d)
  PROVE  /\ DiskFine(d) /\ AtMostTen(Whole(d))
         /\ FewGiven => AtMostTen(Again(d))
  BY DisksFine DEF WellGiven, FewGiven

\* The identity, which no block of a sequence gives, is that of the files.
THEOREM AlwaysIdentity == WellGiven /\ FewGiven => (Spec => []IdentityAsWritten)
  <1> SUFFICES ASSUME WellGiven, FewGiven PROVE Spec => []IdentityAsWritten
    OBVIOUS
  <1>1. ASSUME ConfigInv, server = "up"
        PROVE  me.name # Empty /\ me.numeric \in Numerics /\ me = ServerEntry(Meaning(Whole(booted)))
    <2> DEFINE again == "listeners" \in doubled
    <2>1. booted \in Disks \cup Edits /\ Readable(booted)
      BY <1>1 DEF ConfigInv
    <2>2. PICK c : /\ WasRead(booted, again, c)
                   /\ me = ServerEntry(c.entries) /\ Identified(me)
      BY <1>1 DEF ConfigInv
    <2>3. again \in BOOLEAN
      OBVIOUS
    <2>4. DiskFine(booted) /\ AtMostTen(Whole(booted)) /\ AtMostTen(Again(booted))
      BY <2>1, GivenFine
    <2> HIDE DEF again
    <2>5. SameElsewhere(c.entries, Meaning(Whole(booted)))
      BY <2>2, <2>3, <2>4, FoundAs
    <2>6. ServerEntry(c.entries) = ServerEntry(Meaning(Whole(booted)))
      BY <2>5 DEF SameElsewhere, ServerEntry
    <2> QED
      BY <2>2, <2>6 DEF Identified
  <1>2. ConfigInv => IdentityAsWritten
    BY <1>1 DEF IdentityAsWritten
  <1> QED
    BY <1>2, ConfigInductive, PTL

\* What listeners and operators are given is a literal or a default.
PlainGiven == \A d \in Disks \cup Edits : Readable(d) => PlainBlocks(Whole(d))

\* The operators of E, T of them, found as F numbers them.
OpsOf(e, T) == [i \in 1..T |-> Operator(e, i)]

Usables(ops, oname) == {i \in DOMAIN ops : ops[i].name = oname /\ Usable(ops[i])}

\* The operator found is the first of the files, also among twice as many.
LEMMA FindSame ==
  ASSUME NEW F, NEW E, NEW T, NEW again \in BOOLEAN, Numbering(F, E, "Operator", T, again),
         NEW oname
  PROVE  LET usable == Usables(OpsOf(E, T), oname)
         IN  Find(F, oname) = IF usable = {} THEN NoOperator ELSE OpsOf(E, T)[Min(usable)]
  <1> DEFINE U == Usables(OpsOf(E, T), oname)
             m == SequenceCount(F, "Operator")
             V == Usables(OpsOf(F, m), oname)
  <1>1. T \in Nat
    BY DEF Numbering
  <1>2. Find(F, oname) = IF V = {} THEN NoOperator ELSE OpsOf(F, m)[Min(V)]
    BY DEF Find, OpsOf, Usables
  <1>3. U = {i \in 1..T : Operator(E, i).name = oname /\ Usable(Operator(E, i))}
    BY DEF Usables, OpsOf
  <1>4. V = {i \in 1..m : Operator(F, i).name = oname /\ Usable(Operator(F, i))}
    BY DEF Usables, OpsOf
  <1> HIDE DEF U, V, m
  <1>5. CASE ~again
    <2>1. F = E /\ m = T
      BY <1>5 DEF Numbering, m
    <2>2. V = U
      BY <1>3, <1>4, <2>1
    <2> QED
      BY <1>2, <2>1, <2>2 DEF U
  <1>6. CASE again
    <2>1. Doubles(E, F, "Operator", T) /\ m = T + T
      BY <1>6 DEF Numbering, m
    <2>2. ASSUME NEW i \in 1..T
          PROVE  Operator(F, i) = Operator(E, i) /\ Operator(F, T + i) = Operator(E, i)
      BY <2>1 DEF Doubles, Operator, SeqVal
    <2>3. \A i \in 1..T : i \in 1..m /\ T + i \in 1..m
      BY <1>1, <2>1
    <2>4. \A i \in U : i \in V /\ i \in 1..T
      BY <1>3, <1>4, <2>2, <2>3
    <2>5. ASSUME NEW i \in V PROVE \E j \in U : j <= i
      <3>1. i \in 1..m /\ Operator(F, i).name = oname /\ Usable(Operator(F, i))
        BY <1>4
      <3>2. CASE i \in 1..T
        BY <1>3, <2>2, <3>1, <3>2
      <3>3. CASE i \notin 1..T
        <4> DEFINE j == i - T
        <4>1. j \in 1..T /\ T + j = i /\ j <= i
          BY <1>1, <2>1, <3>1, <3>3
        <4> HIDE DEF j
        <4>2. Operator(F, i) = Operator(E, j)
          BY <2>2, <4>1
        <4> QED
          BY <1>3, <3>1, <4>1, <4>2
      <3> QED
        BY <3>2, <3>3
    <2>6. CASE U = {}
      <3>1. V = {}
        BY <2>5, <2>6
      <3> QED
        BY <1>2, <2>6, <3>1 DEF U
    <2>7. CASE U # {}
      <3>1. V # {} /\ U \in SUBSET Nat /\ V \in SUBSET Nat
        BY <1>3, <1>4, <2>1, <2>4, <2>7
      <3> DEFINE u == Min(U)
                 v == Min(V)
      <3>2. u \in U /\ (\A y \in U : u <= y) /\ v \in V /\ \A y \in V : v <= y
        BY <2>7, <3>1, LeastOf
      <3> HIDE DEF u, v
      <3>3. v <= u /\ u \in Nat /\ v \in Nat
        BY <2>4, <3>1, <3>2
      <3>4. PICK j \in U : j <= v
        BY <2>5, <3>2
      <3>5. u = v
        BY <3>1, <3>2, <3>3, <3>4
      <3>6. OpsOf(F, m)[v] = OpsOf(E, T)[u]
        <4>1. u \in 1..T /\ u \in 1..m /\ Operator(F, u) = Operator(E, u)
          BY <2>2, <2>3, <2>4, <3>2
        <4> QED
          BY <3>5, <4>1 DEF OpsOf
      <3> QED
        BY <1>2, <2>7, <3>1, <3>6 DEF U, u, v
    <2> QED
      BY <2>6, <2>7
  <1> QED
    BY <1>5, <1>6

\* OPER finds the operators the files name, and checks their passwords.
THEOREM AlwaysOperators == WellGiven /\ FewGiven /\ PlainGiven => (Spec => []OperatorsAsWritten)
  <1> SUFFICES ASSUME WellGiven, FewGiven, PlainGiven PROVE Spec => []OperatorsAsWritten
    OBVIOUS
  <1> DEFINE W == Whole(given)
             E == Meaning(W)
             T == Total(W, "Operator")
             F == config.entries
  <1>1. ASSUME ConfigInv, server = "up", Readable(given), NEW oname
        PROVE  LET usable == Usables(OpsOf(E, T), oname)
               IN  Find(F, oname) = IF usable = {} THEN NoOperator ELSE OpsOf(E, T)[Min(usable)]
    <2> DEFINE again == "config" \in doubled
    <2>1. given \in Disks \cup Edits /\ WasRead(given, again, config) /\ again \in BOOLEAN
      BY <1>1 DEF ConfigInv
    <2>2. DiskFine(given) /\ AtMostTen(W) /\ AtMostTen(Again(given)) /\ PlainBlocks(W)
      BY <1>1, <2>1, GivenFine DEF PlainGiven
    <2> HIDE DEF again
    <2>3. Numbering(F, E, "Operator", T, again)
      BY <2>1, <2>2, FoundAs
    <2> HIDE DEF E, F, T
    <2> QED
      BY <2>1, <2>3, FindSame
  <1> DEFINE U(n) == Usables(OpsOf(E, T), Lit(n))
             first(n) == OpsOf(E, T)[Min(U(n))]
  <1>2. ASSUME ConfigInv, server = "up", Readable(given), NEW n \in 1..9,
               NEW pw \in Passwords, NEW M
        PROVE  Opers(F, Lit(n), pw, M) <=>
                  /\ U(n) # {}
                  /\ first(n).mask \in M
                  /\ \/ first(n).pass = pw /\ pw \notin Hashes
                     \/ <<pw, first(n).pass>> \in Digests
    <2> DEFINE o == first(n)
    <2>1. Find(F, Lit(n)) = IF U(n) = {} THEN NoOperator ELSE o
      BY <1>1, <1>2
    <2>2. \A x, y : <<x, y>> \in Digests => y \in Hashes
      BY FilesOK
    <2>3. Lit(n) # Empty
      BY DEF Lit, Empty
    <2>4. CASE U(n) = {}
      <3>1. Find(F, Lit(n)) = NoOperator
        BY <2>1, <2>4
      <3> HIDE DEF F
      <3>2. ~Opers(F, Lit(n), pw, M)
        BY <3>1 DEF Opers, NoOperator
      <3> QED
        BY <2>4, <3>2
    <2>5. CASE U(n) # {}
      <3>1. Find(F, Lit(n)) = o
        BY <2>1, <2>5
      <3>2. U(n) \in SUBSET Nat
        BY DEF Usables, OpsOf
      <3>3. Min(U(n)) \in U(n)
        <4> HIDE DEF U
        <4> QED
          BY <2>5, <3>2, LeastOf
      <3>4. o.name = Lit(n)
        BY <3>3 DEF Usables
      <3> HIDE DEF o, F, U
      <3>5. Opers(F, Lit(n), pw, M) <=> o.mask \in M /\ CheckPassword(pw, o.pass)
        BY <2>3, <3>1, <3>4 DEF Opers
      <3>6. CheckPassword(pw, o.pass) <=> \/ o.pass = pw /\ pw \notin Hashes
                                          \/ <<pw, o.pass>> \in Digests
        BY <2>2 DEF CheckPassword, IsHash, Calculates
      <3> QED
        BY <2>5, <3>5, <3>6 DEF o
    <2> QED
      BY <2>4, <2>5
  <1>3. ConfigInv => OperatorsAsWritten
    <2> SUFFICES ASSUME ConfigInv PROVE OperatorsAsWritten
      OBVIOUS
    <2> HIDE DEF E, F, T, W
    <2>1. ASSUME server = "up", Readable(given)
          PROVE  \A n \in 1..9 : \A pw \in Passwords, M \in {{AnyMask}, {AnyMask, Lit(5)}} :
                     Opers(F, Lit(n), pw, M) <=>
                        /\ U(n) # {}
                        /\ first(n).mask \in M
                        /\ \/ first(n).pass = pw /\ pw \notin Hashes
                           \/ <<pw, first(n).pass>> \in Digests
      <3> HIDE DEF U, first
      <3> QED
        BY <1>2, <2>1
    <2> QED
      BY <2>1 DEF OperatorsAsWritten, Usables, OpsOf, E, F, T, W
  <1> QED
    BY <1>3, ConfigInductive, PTL

-----------------------------------------------------------------------------
(* The listeners *)

At(e, i) == Endpoint[AddressOf(Listener(e, i))]

\* What the blocks named up to the c-th get of the system.
Granted(e, c, denied, bound) ==
    /\ bound \subseteq {At(e, i) : i \in Named(e, c)} \ denied
    /\ \A a, b \in bound : <<a, b>> \notin Clashes
    /\ \A i \in Named(e, c) :
          \/ At(e, i) \in bound \cup denied \cup {Anywhere}
          \/ \E j \in Named(e, c) :
                j < i /\ At(e, j) \in bound /\ <<At(e, j), At(e, i)>> \in Clashes

\* The listeners that are open at an address of their own.
AtAddress(ls) == {i \in DOMAIN ls : ls[i].at # Anywhere}

\* One element more.
LEMMA AppendPlaces ==
  ASSUME NEW S, NEW ls \in Seq(S), NEW x \in S
  PROVE  LET t == Append(ls, x) n == Len(ls)
         IN  /\ t \in Seq(S) /\ n \in Nat /\ Len(t) = n + 1 /\ t[n + 1] = x
             /\ DOMAIN ls = 1..n /\ DOMAIN t = 1..n \cup {n + 1} /\ n + 1 \notin 1..n
             /\ \A i \in 1..n : t[i] = ls[i]
             /\ Range(t) = Range(ls) \cup {x}
  <1> DEFINE t == Append(ls, x)
             n == Len(ls)
  <1>1. /\ t \in Seq(S) /\ n \in Nat /\ Len(t) = n + 1 /\ t[n + 1] = x
        /\ DOMAIN ls = 1..n /\ DOMAIN t = 1..(n + 1)
        /\ \A i \in 1..n : t[i] = ls[i]
    OBVIOUS
  <1>2. n + 1 \notin 1..n /\ 1..(n + 1) = 1..n \cup {n + 1}
    BY <1>1
  <1> HIDE DEF t, n
  <1>3. Range(t) = Range(ls) \cup {x}
    BY <1>1, <1>2 DEF Range
  <1> QED
    BY <1>1, <1>2, <1>3 DEF t, n

\* A listener behind ls has the endpoint at for itself.
Gets(ls, at, denied) == Binds(ls, at, denied) /\ at # Anywhere

\* What setting up one more listener does.
LEMMA RunOne ==
  ASSUME NEW S, NEW ls \in Seq(S), NEW l, NEW denied,
         [block |-> l, at |-> Endpoint[AddressOf(l)]] \in S, [block |-> l, at |-> Anywhere] \in S,
         IsFiniteSet(Bound(ls)), IsFiniteSet(AtAddress(ls)),
         Cardinality(AtAddress(ls)) = Cardinality(Bound(ls))
  PROVE  LET t == Run(ls, l, denied)
             a == Endpoint[AddressOf(l)]
         IN  /\ t \in Seq(S) /\ Len(t) = Len(ls) + 1 /\ t[Len(ls) + 1].block = l
             /\ \A i \in 1..Len(ls) : t[i] = ls[i]
             /\ Bound(t) = Bound(ls) \cup (IF Gets(ls, a, denied) THEN {a} ELSE {})
             /\ IsFiniteSet(Bound(t)) /\ IsFiniteSet(AtAddress(t))
             /\ Cardinality(AtAddress(t)) = Cardinality(Bound(t))
  <1> DEFINE a == Endpoint[AddressOf(l)]
             x == [block |-> l, at |-> IF Binds(ls, a, denied) THEN a ELSE Anywhere]
             t == Run(ls, l, denied)
             n == Len(ls)
  <1>1. t = Append(ls, x) /\ x \in S
    BY DEF Run
  <1>2. x.block = l /\ x.at = IF Binds(ls, a, denied) THEN a ELSE Anywhere
    OBVIOUS
  <1>3. Gets(ls, a, denied) <=> Binds(ls, a, denied) /\ a # Anywhere
    BY DEF Gets
  <1> HIDE DEF a, x, t, n
  <1>4. /\ t \in Seq(S) /\ n \in Nat /\ Len(t) = n + 1 /\ t[n + 1] = x
        /\ DOMAIN ls = 1..n /\ DOMAIN t = 1..n \cup {n + 1} /\ n + 1 \notin 1..n
        /\ \A i \in 1..n : t[i] = ls[i]
        /\ Range(t) = Range(ls) \cup {x}
    BY <1>1, AppendPlaces DEF n
  <1>5. Bound(ls) = {y.at : y \in Range(ls)} \ {Anywhere}
    BY DEF Bound
  <1>6. Bound(t) = {y.at : y \in Range(t)} \ {Anywhere}
    BY DEF Bound
  <1>7. CASE ~Gets(ls, a, denied)
    <2>1. x.at = Anywhere
      BY <1>2, <1>3, <1>7
    <2>2. Bound(t) = Bound(ls)
      BY <1>4, <1>5, <1>6, <2>1
    <2>3. AtAddress(t) = AtAddress(ls)
      BY <1>4, <2>1 DEF AtAddress
    <2>4. Bound(t) = Bound(ls) \cup (IF Gets(ls, a, denied) THEN {a} ELSE {})
      BY <1>7, <2>2
    <2> QED
      BY <1>2, <1>4, <2>2, <2>3, <2>4 DEF t, n, a
  <1>8. CASE Gets(ls, a, denied)
    <2>1. x.at = a /\ a # Anywhere /\ a \notin Bound(ls)
      BY <1>2, <1>3, <1>8 DEF Binds
    <2>2. Bound(t) = Bound(ls) \cup {a}
      BY <1>4, <1>5, <1>6, <2>1
    <2>3. AtAddress(t) = AtAddress(ls) \cup {n + 1} /\ n + 1 \notin AtAddress(ls)
      BY <1>4, <2>1 DEF AtAddress
    <2>4. IsFiniteSet(Bound(t)) /\ Cardinality(Bound(t)) = Cardinality(Bound(ls)) + 1
      BY <2>1, <2>2, FS_AddElement
    <2>5. /\ IsFiniteSet(AtAddress(t))
          /\ Cardinality(AtAddress(t)) = Cardinality(AtAddress(ls)) + 1
      BY <2>3, FS_AddElement
    <2>6. Bound(t) = Bound(ls) \cup (IF Gets(ls, a, denied) THEN {a} ELSE {})
      BY <1>8, <2>2
    <2> QED
      BY <1>2, <1>4, <2>6, <2>4, <2>5 DEF t, n, a
  <1> QED
    BY <1>7, <1>8

\* One block more.
LEMMA NamedMore ==
  ASSUME NEW e, NEW i \in Nat \ {0}
  PROVE  /\ Named(e, i) = Named(e, i - 1) \cup (IF Complete(Listener(e, i)) THEN {i} ELSE {})
         /\ \A j \in Named(e, i - 1) : j < i
  <1> DEFINE h == i - 1
  <1>1. 1..i = 1..h \cup {i} /\ \A j \in 1..h : j < i
    OBVIOUS
  <1> HIDE DEF h
  <1> QED
    BY <1>1 DEF Named, h

LEMMA GrantedMore ==
  ASSUME NEW e, NEW i \in Nat \ {0}, NEW denied, NEW ls, NEW b2, Complete(Listener(e, i)),
         Granted(e, i - 1, denied, Bound(ls)),
         b2 = Bound(ls) \cup (IF Gets(ls, At(e, i), denied) THEN {At(e, i)} ELSE {})
  PROVE  Granted(e, i, denied, b2)
  <1> DEFINE a == At(e, i)
             b1 == Bound(ls)
             N == Named(e, i - 1)
  <1>1. Named(e, i) = N \cup {i} /\ \A j \in N : j < i
    BY NamedMore
  <1>2. /\ b1 \subseteq {At(e, j) : j \in N} \ denied
        /\ \A x, y \in b1 : <<x, y>> \notin Clashes
        /\ \A k \in N :
             \/ At(e, k) \in b1 \cup denied \cup {Anywhere}
             \/ \E j \in N : j < k /\ At(e, j) \in b1 /\ <<At(e, j), At(e, k)>> \in Clashes
    BY DEF Granted
  <1>3. b2 = b1 \cup (IF Gets(ls, a, denied) THEN {a} ELSE {}) /\ a = At(e, i)
    OBVIOUS
  <1>4. Gets(ls, a, denied) <=> /\ a \notin denied \cup b1 /\ a # Anywhere
                               /\ \A b \in b1 : <<b, a>> \notin Clashes
    BY DEF Gets, Binds
  <1>5. \A x, y : <<x, y>> \in Clashes => x # y /\ <<y, x>> \in Clashes
    <2> SUFFICES ASSUME NEW x, NEW y, <<x, y>> \in Clashes PROVE x # y /\ <<y, x>> \in Clashes
      OBVIOUS
    <2>1. <<x, y>>[1] = x /\ <<x, y>>[2] = y
      OBVIOUS
    <2> DEFINE p == <<x, y>>
    <2>2. p \in Clashes /\ p[1] = x /\ p[2] = y
      BY <2>1
    <2> HIDE DEF p
    <2> QED
      BY <2>2, EndpointsOK
  <1>6. \A j \in b1 : \E k \in N : j = At(e, k)
    BY <1>2
  <1> HIDE DEF a, b1, N
  <1>7. b2 \subseteq {At(e, j) : j \in N \cup {i}} \ denied
    BY <1>2, <1>3, <1>4
  <1>8. \A x, y \in b2 : <<x, y>> \notin Clashes
    BY <1>2, <1>3, <1>4, <1>5
  <1>9. ASSUME NEW k \in N \cup {i}
        PROVE  \/ At(e, k) \in b2 \cup denied \cup {Anywhere}
               \/ \E j \in N \cup {i} : /\ j < k /\ At(e, j) \in b2
                                        /\ <<At(e, j), At(e, k)>> \in Clashes
    <2>1. CASE k \in N
      BY <1>2, <1>3, <2>1
    <2>2. CASE k = i
      <3>1. CASE Gets(ls, a, denied) \/ a \in denied \cup {Anywhere} \cup b1
        BY <1>3, <2>2, <3>1
      <3>2. CASE ~(Gets(ls, a, denied) \/ a \in denied \cup {Anywhere} \cup b1)
        <4>1. PICK b \in b1 : <<b, a>> \in Clashes
          BY <1>4, <3>2
        <4>2. PICK j \in N : b = At(e, j)
          BY <1>6, <4>1
        <4>3. j < i /\ At(e, j) \in b2 /\ <<At(e, j), At(e, i)>> \in Clashes
          BY <1>1, <1>3, <4>1, <4>2
        <4> QED
          BY <2>2, <4>3
      <3> QED
        BY <3>1, <3>2
    <2> QED
      BY <1>9, <2>1, <2>2
  <1> QED
    BY <1>1, <1>7, <1>8, <1>9 DEF Granted

\* The listeners ls and the complete blocks w of the first c blocks.
Opened(e, c, denied, ls, w) ==
    /\ Granted(e, c, denied, Bound(ls))
    /\ IsFiniteSet(Bound(ls)) /\ IsFiniteSet(AtAddress(ls))
    /\ Cardinality(AtAddress(ls)) = Cardinality(Bound(ls))
    /\ Len(ls) = Len(w) /\ DOMAIN ls = 1..Len(ls) /\ w = [i \in 1..Len(w) |-> w[i]]
    /\ \A i \in 1..Len(w) : ls[i].block = w[i]

\* SetupListener and the files, block by block.
LEMMA AllOpened ==
  ASSUME NEW e, NEW denied, NEW c \in Nat, NEW q, q = [i \in 1..c |-> i]
  PROVE  Opened(e, c, denied, SetUp(e, denied, <<>>, q), Kept(e, <<>>, q))
  <1> DEFINE L == {Listener(e, i) : i \in 1..c}
             S == {[block |-> l, at |-> a] : l \in L, a \in {Anywhere} \cup {Endpoint[AddressOf(l)] : l \in L}}
             Both(i, p, u) == p[i] \in Seq(S) /\ u[i] \in Seq(L) /\ Opened(e, i, denied, p[i], u[i])
  <1>1. DOMAIN q = 1..c /\ \A i \in 1..c : q[i] = i
    OBVIOUS
  <1>2. PICK p : /\ p[0] = <<>> /\ p[c] = SetUp(e, denied, <<>>, q)
                 /\ \A i \in 1..c : p[i] = Each("listeners", <<e, denied>>, p[i - 1], q[i])
    <2>1. EachRuns("listeners", <<e, denied>>, <<>>, q, c, SetUp(e, denied, <<>>, q))
      BY <1>1, ListenersRun
    <2> QED
      BY <2>1 DEF EachRuns
  <1>3. PICK u : /\ u[0] = <<>> /\ u[c] = Kept(e, <<>>, q)
                 /\ \A i \in 1..c : u[i] = Each("written", e, u[i - 1], q[i])
    <2>1. EachRuns("written", e, <<>>, q, c, Kept(e, <<>>, q))
      BY <1>1, WrittenRun
    <2> QED
      BY <2>1 DEF EachRuns
  <1> HIDE DEF L, S
  <1> DEFINE I == {i \in Nat : i <= c => Both(i, p, u)}
  <1>4. 0 \in I
    <2> DEFINE z == <<>>
    <2>1. z \in Seq(S) /\ z \in Seq(L) /\ Len(z) = 0 /\ DOMAIN z = {} /\ 1..0 = {}
      OBVIOUS
    <2> HIDE DEF z
    <2>2. Bound(z) = {} /\ AtAddress(z) = {} /\ Named(e, 0) = {} /\ Range(z) = {}
      BY <2>1 DEF Bound, AtAddress, Named, Range
    <2>3. IsFiniteSet({}) /\ Cardinality({}) = 0
      BY FS_EmptySet
    <2>6. z = [i \in 1..Len(z) |-> z[i]]
      BY <2>1
    <2>7. Granted(e, 0, denied, {})
      BY <2>2 DEF Granted
    <2>4. Opened(e, 0, denied, z, z)
      BY <2>1, <2>6, <2>2, <2>3, <2>7 DEF Opened
    <2>5. p[0] = z /\ u[0] = z
      BY <1>2, <1>3 DEF z
    <2> QED
      BY <2>1, <2>4, <2>5
  <1>5. ASSUME NEW h \in Nat, h \in I PROVE h + 1 \in I
    <2> SUFFICES ASSUME h + 1 <= c PROVE Both(h + 1, p, u)
      OBVIOUS
    <2> DEFINE i == h + 1
               l == Listener(e, i)
               ls == p[h]
               w == u[h]
               t == p[i]
               v == u[i]
    <2>1. i \in 1..c /\ i - 1 = h /\ i \in Nat \ {0} /\ h <= c
      OBVIOUS
    <2>2. ls \in Seq(S) /\ w \in Seq(L) /\ Opened(e, h, denied, ls, w)
      BY <1>5, <2>1
    <2>3. t = Each("listeners", <<e, denied>>, ls, i) /\ v = Each("written", e, w, i)
      BY <1>1, <1>2, <1>3, <2>1
    <2>4. /\ t = IF Complete(l) THEN Run(ls, l, denied) ELSE ls
          /\ v = IF Complete(l) THEN Append(w, l) ELSE w
      <3>1. <<e, denied>>[1] = e /\ <<e, denied>>[2] = denied
        OBVIOUS
      <3> QED
        BY <2>3, <3>1 DEF Each
    <2>5. l \in L
      BY <2>1 DEF L
    <2>6. ~Complete(l) => Named(e, i) = Named(e, h)
      <3>1. Named(e, i) = Named(e, i - 1) \cup (IF Complete(l) THEN {i} ELSE {})
        BY <2>1, NamedMore
      <3>2. i - 1 = h
        BY <2>1
      <3> HIDE DEF i, l
      <3> QED
        BY <3>1, <3>2
    <2>9. l = Listener(e, i) /\ h = i - 1 /\ At(e, i) = Endpoint[AddressOf(l)]
      BY <2>1 DEF At
    <2> HIDE DEF i, ls, w, t, v, l
    <2>7. CASE ~Complete(l)
      <3>1. t = ls /\ v = w /\ Named(e, i) = Named(e, h)
        BY <2>4, <2>6, <2>7
      <3>2. Opened(e, i, denied, t, v)
        BY <2>2, <3>1 DEF Opened, Granted
      <3> QED
        BY <2>2, <3>1, <3>2 DEF i, t, v
    <2>8. CASE Complete(l)
      <3>1. t = Run(ls, l, denied) /\ v = Append(w, l)
        BY <2>4, <2>8
      <3>2. [block |-> l, at |-> Endpoint[AddressOf(l)]] \in S /\ [block |-> l, at |-> Anywhere] \in S
        <4>1. Endpoint[AddressOf(l)] \in {Endpoint[AddressOf(k)] : k \in L}
          BY <2>5
        <4> DEFINE A == {Anywhere} \cup {Endpoint[AddressOf(k)] : k \in L}
        <4>2. Endpoint[AddressOf(l)] \in A /\ Anywhere \in A
          BY <4>1
        <4>3. S = {[block |-> k, at |-> a] : k \in L, a \in A}
          BY DEF S
        <4> HIDE DEF A
        <4> QED
          BY <2>5, <4>2, <4>3
      <3>3. /\ IsFiniteSet(Bound(ls)) /\ IsFiniteSet(AtAddress(ls))
            /\ Cardinality(AtAddress(ls)) = Cardinality(Bound(ls))
            /\ Granted(e, h, denied, Bound(ls))
            /\ Len(ls) = Len(w) /\ \A a \in 1..Len(w) : ls[a].block = w[a]
        BY <2>2 DEF Opened
      <3>4. /\ t \in Seq(S) /\ Len(t) = Len(ls) + 1 /\ t[Len(ls) + 1].block = l
            /\ \A a \in 1..Len(ls) : t[a] = ls[a]
            /\ Bound(t) = Bound(ls) \cup (IF Gets(ls, At(e, i), denied) THEN {At(e, i)} ELSE {})
            /\ IsFiniteSet(Bound(t)) /\ IsFiniteSet(AtAddress(t))
            /\ Cardinality(AtAddress(t)) = Cardinality(Bound(t))
        BY <2>2, <2>9, <3>1, <3>2, <3>3, RunOne
      <3> DEFINE n == Len(w)
      <3>5. /\ v \in Seq(L) /\ n \in Nat /\ Len(v) = n + 1 /\ v[n + 1] = l
            /\ DOMAIN v = 1..n \cup {n + 1}
            /\ \A a \in 1..n : v[a] = w[a]
            /\ Range(v) = Range(w) \cup {l}
        BY <2>2, <2>5, <3>1, AppendPlaces
      <3>6. DOMAIN t = 1..Len(t) /\ v = [a \in 1..Len(v) |-> v[a]]
        BY <3>4, <3>5
      <3> HIDE DEF n
      <3>7. \A a \in 1..Len(v) : t[a].block = v[a]
        <4>1. \A a \in 1..Len(v) : a = n + 1 \/ a \in 1..n
          BY <3>5
        <4>2. Len(ls) = n
          BY <3>3 DEF n
        <4>3. \A a \in 1..n : t[a].block = v[a]
          BY <3>3, <3>4, <3>5, <4>2 DEF n
        <4> QED
          BY <3>4, <3>5, <4>1, <4>2, <4>3
      <3>8. Granted(e, i, denied, Bound(t))
        <4>1. i \in Nat \ {0} /\ Granted(e, i - 1, denied, Bound(ls)) /\ Complete(Listener(e, i))
          BY <2>1, <2>8, <2>9, <3>3
        <4> HIDE DEF n
        <4> QED
          BY <3>4, <4>1, GrantedMore
      <3>9. Len(t) = Len(v)
        BY <3>3, <3>4, <3>5 DEF n
      <3>10. Opened(e, i, denied, t, v)
        BY <3>4, <3>6, <3>7, <3>8, <3>9 DEF Opened
      <3> QED
        BY <3>4, <3>5, <3>10 DEF i, t, v
    <2> QED
      BY <2>7, <2>8
  <1>6. Nat \subseteq I
    <2> HIDE DEF I
    <2> QED
      BY <1>4, <1>5, SetInduction
  <1>7. Both(c, p, u)
    BY <1>6
  <1> QED
    BY <1>2, <1>3, <1>7

\* Blocks read twice get what they get when they are read once.
LEMMA GrantedTwice ==
  ASSUME NEW F, NEW E, NEW T, NEW denied, NEW bound,
         SameElsewhere(F, E), Numbering(F, E, "Listener", T, TRUE),
         Granted(F, T + T, denied, bound)
  PROVE  Granted(E, T, denied, bound)
  <1>1. T \in Nat /\ Doubles(E, F, "Listener", T)
    BY DEF Numbering
  <1>2. ASSUME NEW i \in 1..T
        PROVE  Listener(F, i) = Listener(E, i) /\ Listener(F, T + i) = Listener(E, i)
    <2> DEFINE Of(e) == Get(e, Key(<<Part("Limits")>>, "PingFreq"), Lit(1))
    <2>1. Of(F) = Of(E)
      BY DEF SameElsewhere
    <2>2. \A key, def : /\ SeqVal(F, "Listener", i, key, def) = SeqVal(E, "Listener", i, key, def)
                        /\ SeqVal(F, "Listener", T + i, key, def) = SeqVal(E, "Listener", i, key, def)
      BY <1>1 DEF Doubles, SeqVal
    <2>3. \A e, j : Listener(e, j) = [addr |-> SeqVal(e, "Listener", j, "Address", Empty),
                                      port |-> SeqVal(e, "Listener", j, "Port", Empty),
                                      type |-> SeqVal(e, "Listener", j, "Type", Empty),
                                      freq |-> SeqVal(e, "Listener", j, "PingFreq", Of(e))]
      BY DEF Listener
    <2> HIDE DEF Of
    <2> QED
      BY <2>1, <2>2, <2>3
  <1>3. ASSUME NEW i \in Named(E, T) PROVE i \in Named(F, T + T) /\ At(F, i) = At(E, i)
    <2>1. i \in 1..T /\ i \in 1..(T + T)
      BY <1>1 DEF Named
    <2> QED
      BY <1>2, <2>1 DEF Named, At
  <1>4. ASSUME NEW i \in Named(F, T + T)
        PROVE  \E j \in Named(E, T) : At(F, i) = At(E, j) /\ (i <= T => j = i)
    <2>1. CASE i \in 1..T
      BY <1>2, <2>1 DEF Named, At
    <2>2. CASE i \notin 1..T
      <3> DEFINE j == i - T
      <3>1. j \in 1..T /\ T + j = i /\ ~(i <= T)
        BY <1>1, <2>2 DEF Named
      <3> HIDE DEF j
      <3>2. Listener(F, i) = Listener(E, j)
        BY <1>2, <3>1
      <3> QED
        BY <3>1, <3>2 DEF Named, At
    <2> QED
      BY <2>1, <2>2
  <1>5. bound \subseteq {At(E, i) : i \in Named(E, T)} \ denied
    <2>1. ASSUME NEW x \in bound PROVE \E j \in Named(E, T) : x = At(E, j)
      <3>1. PICK i \in Named(F, T + T) : x = At(F, i)
        BY DEF Granted
      <3> QED
        BY <1>4, <3>1
    <2>2. \A x \in bound : x \notin denied
      BY DEF Granted
    <2> QED
      BY <2>1, <2>2
  <1>6. ASSUME NEW i \in Named(E, T), At(E, i) \notin bound \cup denied \cup {Anywhere}
        PROVE  \E j \in Named(E, T) :
                  j < i /\ At(E, j) \in bound /\ <<At(E, j), At(E, i)>> \in Clashes
    <2>1. i \in Named(F, T + T) /\ At(F, i) = At(E, i) /\ i \in 1..T
      BY <1>3 DEF Named
    <2>2. PICK j \in Named(F, T + T) :
             j < i /\ At(F, j) \in bound /\ <<At(F, j), At(F, i)>> \in Clashes
      BY <1>6, <2>1 DEF Granted
    <2>3. j <= T
      <3>1. j \in 1..(T + T) /\ j < i
        BY <2>2 DEF Named
      <3> QED
        BY <1>1, <2>1, <3>1
    <2> QED
      BY <1>4, <2>1, <2>2, <2>3
  <1>7. \A a, b \in bound : <<a, b>> \notin Clashes
    BY DEF Granted
  <1> QED
    BY <1>5, <1>6, <1>7 DEF Granted

\* The listeners are those the files name, one at each endpoint that the
\* system and the blocks before leave.
THEOREM AlwaysListeners == WellGiven /\ FewGiven /\ PlainGiven => (Spec => []ListenersAsWritten)
  <1> SUFFICES ASSUME WellGiven, FewGiven, PlainGiven PROVE Spec => []ListenersAsWritten
    OBVIOUS
  <1> DEFINE W == Whole(booted)
             E == Meaning(W)
             T == Total(W, "Listener")
             to(n) == [i \in 1..n |-> i]
             written == Kept(E, <<>>, to(T))
  <1>1. ASSUME ConfigInv, server = "up"
        PROVE  /\ "listeners" \notin doubled =>
                     [i \in DOMAIN listeners |-> listeners[i].block] = written
               /\ Granted(E, T, refused, Bound(listeners))
               /\ Cardinality(AtAddress(listeners)) = Cardinality(Bound(listeners))
    <2> DEFINE again == "listeners" \in doubled
    <2>1. booted \in Disks \cup Edits /\ Readable(booted) /\ again \in BOOLEAN
      BY <1>1 DEF ConfigInv
    <2>2. PICK c : WasRead(booted, again, c) /\ listeners = SetupListener(c.entries, refused)
      BY <1>1 DEF ConfigInv
    <2>3. DiskFine(booted) /\ AtMostTen(W) /\ AtMostTen(Again(booted)) /\ PlainBlocks(W)
      BY <2>1, GivenFine DEF PlainGiven
    <2> DEFINE F == c.entries
               m == SequenceCount(F, "Listener")
    <2> HIDE DEF again
    <2>4. SameElsewhere(F, E) /\ Numbering(F, E, "Listener", T, again)
      BY <2>1, <2>2, <2>3, FoundAs
    <2>5. listeners = SetUp(F, refused, <<>>, to(m))
      BY <2>2 DEF SetupListener, SetUp
    <2> HIDE DEF F, E, T, m, W
    <2>6. T \in Nat /\ m \in Nat /\ m = IF again THEN T + T ELSE T
      BY <2>1, <2>4 DEF Numbering, m
    <2>7. Opened(F, m, refused, listeners, Kept(F, <<>>, to(m)))
      BY <2>5, <2>6, AllOpened
    <2>8. Opened(E, T, refused, SetUp(E, refused, <<>>, to(T)), written)
      BY <2>6, AllOpened
    <2>9. Granted(E, T, refused, Bound(listeners))
      <3>1. Granted(F, m, refused, Bound(listeners))
        BY <2>7 DEF Opened
      <3>2. CASE again
        <4>1. Numbering(F, E, "Listener", T, TRUE)
          BY <2>4, <3>2 DEF Numbering
        <4> QED
          BY <2>4, <2>6, <3>1, <3>2, <4>1, GrantedTwice
      <3>3. CASE ~again
        <4>1. F = E /\ m = T
          BY <2>4, <2>6, <3>3 DEF Numbering
        <4> QED
          BY <3>1, <4>1
      <3> QED
        BY <3>2, <3>3
    <2>10. ASSUME ~again PROVE [i \in DOMAIN listeners |-> listeners[i].block] = written
      <3>1. F = E /\ m = T
        BY <2>4, <2>6, <2>10 DEF Numbering
      <3>2. /\ DOMAIN listeners = DOMAIN written
            /\ \A i \in DOMAIN written : listeners[i].block = written[i]
        BY <2>7, <3>1 DEF Opened, written
      <3>3. written = [i \in DOMAIN written |-> written[i]]
        <4>1. written = [i \in 1..Len(written) |-> written[i]]
          BY <2>8 DEF Opened
        <4> HIDE DEF written
        <4> QED
          BY <4>1
      <3> QED
        BY <3>2, <3>3
    <2> HIDE DEF written
    <2> QED
      BY <2>7, <2>8, <2>9, <2>10 DEF Opened, again
  <1>2. ConfigInv => ListenersAsWritten
    BY <1>1 DEF ListenersAsWritten, Kept, Granted, At, AtAddress
  <1> QED
    BY <1>2, ConfigInductive, PTL
=============================================================================
