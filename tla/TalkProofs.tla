----------------------------- MODULE TalkProofs -----------------------------
(***************************************************************************)
(* Proofs about Talk.                                                      *)
(*                                                                         *)
(* The invariant IInv says of every member of every channel that what its  *)
(* client believes is what the server has.  Most steps send one simple     *)
(* line.  A mode line is the hard one.  There the argument goes along four *)
(* folds, each with an induction over its sequence (FoldProofs):           *)
(*                                                                         *)
(*   parsing  every letter that changes the channel appends its change to  *)
(*            the list, and nothing else does (LetterListed); so whoever   *)
(*            applies the list change by change to what it knew knows the  *)
(*            channel after the line (ParseKnows);                         *)
(*   writing  Write puts signs, letters and words of the changes into a    *)
(*            piece (PieceFolds);                                          *)
(*   reading  the letters of a piece, read with its words, are its changes *)
(*            applied in order (OneReads, PieceReads);                     *)
(*   cutting  the pieces hold all changes, in order: reading them one      *)
(*            after the other applies the whole list (LinesRead).          *)
(*                                                                         *)
(* The third needs that each letter finds its word: that the changes are   *)
(* Legible.  A word with a blank in it is read as two, an empty one not at *)
(* all, and a -k is written without the word that every client expects.    *)
(* What is not legible is Garbled, and misread notes it.                   *)
(***************************************************************************)
EXTENDS Talk, FoldProofs, SequenceTheorems

-----------------------------------------------------------------------------
(* The table *)

\* The letters that are registered, and the tables that can arise.
ModeLetters == {"b", "h", "i", "k", "l", "m", "n", "o", "p", "s", "t", "v"}
Tables == {t \in UNION {[S -> Bits] : S \in SUBSET ModeLetters} :
              \A x, y \in DOMAIN t : t[x] = t[y] => x = y}

\* The fold, and what it means that one step keeps A.
Registered(b, q) == FoldLeft(RegisterMode, b, q)
RegistersOn(A, E) == \A a \in A, x \in E : RegisterMode(a, x) \in A
RegisterAt(A, q) == [r \in A \X (1..Len(q)) |-> RegisterMode(r[1], q[r[2]])]

\* Registering is a recursion over the letters.
LEMMA RegisterFold ==
  ASSUME NEW A, NEW E, NEW q \in Seq(E), NEW b \in A, RegistersOn(A, E)
  PROVE  FoldsTo(A, Len(q), b, RegisterAt(A, q), Registered(b, q))
  <1> DEFINE n == Len(q)
             D == 1..n
             H == RegisterAt(A, q)
             Step(h) == [s \in SUBSET DOMAIN q |->
                           IF s = {} THEN b ELSE RegisterMode(h[s \ {Max(s)}], q[Max(s)])]
             g == CHOOSE h : h = Step(h)
  <1>1. n \in Nat /\ D = DOMAIN q /\ \A i \in D : q[i] \in E
    OBVIOUS
  <1>2. H \in [A \X D -> A]
    BY <1>1 DEF RegisterAt, RegistersOn
  <1>3. PICK f \in [SUBSET D -> A] : Recursion(f, n, b, H)
    <2> HIDE DEF H
    <2> QED
      BY <1>1, <1>2, FoldExists
  <1>4. \A s \in SUBSET D : s # {} => Max(s) \in D /\ Before(s) \in SUBSET D
    BY <1>1, LastPosition DEF Before
  <1>5. f = Step(f)
    <2>1. \A s \in SUBSET D : s # {} =>
             H[f[Before(s)], Max(s)] = RegisterMode(f[Before(s)], q[Max(s)])
      BY <1>3, <1>4 DEF RegisterAt
    <2>2. \A s \in SUBSET D :
             f[s] = IF s = {} THEN b ELSE RegisterMode(f[Before(s)], q[Max(s)])
      BY <1>3, <2>1 DEF Recursion
    <2> QED
      BY <1>1, <1>3, <2>2 DEF Before
  <1>6. g = Step(g)
    BY <1>5
  <1>7. Registered(b, q) = g[D]
    BY <1>1 DEF Registered, FoldLeft, MapThenFoldSet
  <1> HIDE DEF g
  <1>8. /\ g[{}] = b
        /\ \A s \in SUBSET D : s # {} => g[s] = RegisterMode(g[Before(s)], q[Max(s)])
    BY <1>1, <1>6 DEF Before
  <1>9. \A s \in SUBSET D : g[s] = f[s]
    <2> DEFINE Q == {s \in SUBSET D : g[s] = f[s]}
    <2>1. /\ f[{}] = b
          /\ \A s \in SUBSET D : s # {} => f[s] = RegisterMode(f[Before(s)], q[Max(s)])
      BY <1>1, <1>5 DEF Before
    <2>2. {} \in Q
      BY <1>8, <2>1
    <2>3. \A s \in SUBSET D : s # {} /\ Before(s) \in Q => s \in Q
      <3> SUFFICES ASSUME NEW s \in SUBSET D, s # {}, Before(s) \in Q PROVE g[s] = f[s]
        OBVIOUS
      <3>1. g[Before(s)] = f[Before(s)]
        OBVIOUS
      <3> QED
        BY <1>8, <2>1, <3>1
    <2>4. SUBSET D \subseteq Q
      <3> HIDE DEF Q
      <3> QED
        BY <1>1, <2>2, <2>3, PositionInduction
    <2> QED
      BY <2>4
  <1>10. Registered(b, q) = f[D]
    BY <1>7, <1>9
  <1> QED
    BY <1>3, <1>10 DEF FoldsTo

\* A slot that is given away was free.
LEMMA FreeSlot ==
  ASSUME NEW t PROVE GetFreeSlot(t) = NoBit \/ GetFreeSlot(t) \in Bits \ Range(t)
  <1> DEFINE free == Bits \ Range(t)
             R == OpToRel(<, Nat)
  <1>1. CASE free = {}
    BY <1>1 DEF GetFreeSlot
  <1>2. CASE free # {}
    <2>1. free \subseteq Nat
      BY WidthOK DEF Bits
    <2>2. PICK x \in free : \A y \in free : ~(<<y, x>> \in R)
      <3>1. IsWellFoundedOn(R, Nat)
        BY NatLessThanWellFounded
      <3> HIDE DEF free, R
      <3> QED
        BY <1>2, <2>1, <3>1, WFMin
    <2>3. \A y \in free : x =< y
      <3> SUFFICES ASSUME NEW y \in free PROVE x =< y
        OBVIOUS
      <3>1. x \in Nat /\ y \in Nat
        BY <2>1
      <3>2. <<y, x>> \notin R
        BY <2>2
      <3>3. ~(y < x)
        BY <3>1, <3>2 DEF OpToRel
      <3> QED
        BY <3>1, <3>3
    <2>4. Min(free) \in free
      <3> HIDE DEF free
      <3> QED
        BY <2>3 DEF Min
    <2> QED
      BY <1>2, <2>4 DEF GetFreeSlot
  <1> QED
    BY <1>1, <1>2

\* Registering a letter keeps a table a table: two letters never share a bit.
LEMMA RegisterKeeps == RegistersOn(Tables, ModeLetters)
  <1> SUFFICES ASSUME NEW t \in Tables, NEW x \in ModeLetters
               PROVE  RegisterMode(t, x) \in Tables
    BY DEF RegistersOn
  <1> DEFINE slot == GetFreeSlot(t)
             r == [y \in DOMAIN t \cup {x} |-> IF y = x THEN slot ELSE t[y]]
  <1>1. /\ t \in [DOMAIN t -> Bits] /\ DOMAIN t \in SUBSET ModeLetters
        /\ \A y, z \in DOMAIN t : t[y] = t[z] => y = z
    BY DEF Tables
  <1>2. CASE slot = NoBit \/ x \in DOMAIN t
    BY <1>2 DEF RegisterMode
  <1>3. CASE slot # NoBit /\ x \notin DOMAIN t
    <2>1. slot \in Bits \ Range(t)
      BY <1>3, FreeSlot
    <2>2. \A y \in DOMAIN t : t[y] # slot
      BY <2>1 DEF Range
    <2>3. RegisterMode(t, x) = r
      BY <1>3 DEF RegisterMode
    <2>4. DOMAIN r = DOMAIN t \cup {x} /\ DOMAIN r \in SUBSET ModeLetters
      BY <1>1
    <2>5. r \in [DOMAIN r -> Bits]
      <3> HIDE DEF slot
      <3> QED
        BY <1>1, <2>1
    <2>6. \A y, z \in DOMAIN r : r[y] = r[z] => y = z
      <3> HIDE DEF slot
      <3> QED
        BY <1>1, <2>2
    <2> HIDE DEF r
    <2>7. r \in Tables
      BY <2>4, <2>5, <2>6 DEF Tables
    <2> QED
      BY <2>3, <2>7
  <1> QED
    BY <1>2, <1>3

\* Every letter has a bit, and no two share one.
LEMMA TableType == Table \in Tables
  <1> DEFINE rest == <<"i", "k", "l", "m", "n", "o", "p", "s", "t", "v">>
             half == IF EnableHalfOp THEN <<"h">> ELSE <<>>
             q == <<"b">> \o half \o rest
             b == [x \in {} |-> NoBit]
  <1>1. <<"b">> \in Seq(ModeLetters) /\ half \in Seq(ModeLetters)
    <2>1. <<"b">> \in Seq(ModeLetters) /\ <<"h">> \in Seq(ModeLetters)
      BY DEF ModeLetters
    <2>2. <<>> \in Seq(ModeLetters)
      OBVIOUS
    <2> QED
      BY <2>1, <2>2
  <1>2. rest \in Seq(ModeLetters)
    BY DEF ModeLetters
  <1>3. q \in Seq(ModeLetters)
    <2> HIDE DEF half, rest
    <2>1. <<"b">> \o half \in Seq(ModeLetters)
      BY <1>1, ConcatProperties
    <2> QED
      BY <1>2, <2>1, ConcatProperties
  <1>4. b \in Tables
    <2>1. b \in [{} -> Bits] /\ DOMAIN b = {} /\ {} \in SUBSET ModeLetters
      OBVIOUS
    <2> HIDE DEF b
    <2> QED
      BY <2>1 DEF Tables
  <1>5. Table = Registered(b, q)
    BY DEF Table, InitModes, Registered
  <1> HIDE DEF b, q
  <1>6. Registered(b, q) \in Tables
    <2>1. FoldsTo(Tables, Len(q), b, RegisterAt(Tables, q), Registered(b, q))
      BY <1>3, <1>4, RegisterKeeps, RegisterFold
    <2> QED
      BY <2>1, FoldsWithin
  <1> QED
    BY <1>5, <1>6

\* The letters that InitModes registers, in order.
Registry ==
    <<"b">> \o (IF EnableHalfOp THEN <<"h">> ELSE <<>>)
    \o <<"i", "k", "l", "m", "n", "o", "p", "s", "t", "v">>

\* They are twelve letters at most, each once, m, p and s among them.
LEMMA RegistryFacts ==
  /\ Registry \in Seq(ModeLetters)
  /\ Len(Registry) \in Nat /\ Len(Registry) =< 12
  /\ \A i, j \in 1..Len(Registry) : Registry[i] = Registry[j] => i = j
  /\ \A x \in {"m", "p", "s"} : \E i \in 1..Len(Registry) : Registry[i] = x
  <1> DEFINE rest == <<"i", "k", "l", "m", "n", "o", "p", "s", "t", "v">>
             half == IF EnableHalfOp THEN <<"h">> ELSE <<>>
             head == <<"b">> \o half
             q == head \o rest
             k == Len(head)
  <1>1. <<"b">> \in Seq(ModeLetters) /\ half \in Seq(ModeLetters)
    <2>1. <<"b">> \in Seq(ModeLetters) /\ <<"h">> \in Seq(ModeLetters)
      BY DEF ModeLetters
    <2>2. <<>> \in Seq(ModeLetters)
      OBVIOUS
    <2> QED
      BY <2>1, <2>2
  <1>2. rest \in Seq(ModeLetters) /\ Len(rest) = 10
    BY DEF ModeLetters
  <1>3. head \in Seq(ModeLetters)
    <2> HIDE DEF half
    <2> QED
      BY <1>1, ConcatProperties
  <1>4. (k = 1 /\ head[1] = "b") \/ (k = 2 /\ head[1] = "b" /\ head[2] = "h")
    OBVIOUS
  <1>5. Registry = q
    BY DEF Registry
  <1> HIDE DEF head, rest
  <1>6. q \in Seq(ModeLetters)
    BY <1>2, <1>3, ConcatProperties
  <1>7. Len(q) = k + 10
    <2>1. Len(q) = Len(head) + Len(rest)
      BY <1>2, <1>3, ConcatProperties
    <2> HIDE DEF q
    <2> QED
      BY <1>2, <2>1
  <1>8. \A i \in 1..k : q[i] = head[i]
    BY <1>2, <1>3, ConcatProperties
  <1>9. \A i \in (k + 1)..(k + 10) : q[i] = rest[i - k]
    BY <1>2, <1>3, ConcatProperties, SMTT(30)
  <1> HIDE DEF q, k
  <1>10. q[1] = "b" /\ 1 \in 1..k /\ (k = 2 => q[2] = "h" /\ 2 \in 1..k) /\ (k = 1 \/ k = 2)
    BY <1>4, <1>8
  <1>11. \A i \in 1..k : q[i] \in {"b", "h"} /\ (q[i] = "b" => i = 1) /\ (q[i] = "h" => i = 2)
    BY <1>10
  <1>12. \A i \in 1..10 : rest[i] \notin {"b", "h"}
    BY DEF rest
  <1>13. \A i, j \in 1..10 : rest[i] = rest[j] => i = j
    BY DEF rest
  <1>14. ASSUME NEW i \in 1..(k + 10)
         PROVE  i \in 1..k \/ (i \in (k + 1)..(k + 10) /\ i - k \in 1..10)
    BY <1>10
  <1>15. ASSUME NEW i \in 1..(k + 10), NEW j \in 1..(k + 10), q[i] = q[j] PROVE i = j
    <2>1. CASE i \in 1..k /\ j \in 1..k
      BY <1>11, <1>15, <2>1
    <2>2. CASE i \in 1..k /\ j \notin 1..k
      BY <1>9, <1>11, <1>12, <1>14, <1>15, <2>2
    <2>3. CASE i \notin 1..k /\ j \in 1..k
      BY <1>9, <1>11, <1>12, <1>14, <1>15, <2>3
    <2>4. CASE i \notin 1..k /\ j \notin 1..k
      <3>1. i - k = j - k
        BY <1>9, <1>13, <1>14, <1>15, <2>4
      <3> QED
        BY <1>10, <3>1
    <2> QED
      BY <2>1, <2>2, <2>3, <2>4
  <1>16. ASSUME NEW x \in {"m", "p", "s"} PROVE \E i \in 1..(k + 10) : q[i] = x
    <2>1. \E n \in {4, 7, 8} : rest[n] = x
      BY DEF rest
    <2>2. PICK n \in {4, 7, 8} : rest[n] = x
      BY <2>1
    <2>3. k + n \in (k + 1)..(k + 10) /\ k + n \in 1..(k + 10) /\ (k + n) - k = n
      BY <1>10
    <2> QED
      BY <1>9, <2>2, <2>3
  <1>17. k + 10 \in Nat /\ k + 10 =< 12
    BY <1>10
  <1> QED
    BY <1>5, <1>6, <1>7, <1>15, <1>16, <1>17

\* A word with room for all of them has a bit for every letter.
THEOREM TableComplete == Width >= 12 => DOMAIN Table = {Registry[i] : i \in 1..Len(Registry)}
  <1> SUFFICES ASSUME Width >= 12
               PROVE  DOMAIN Table = {Registry[i] : i \in 1..Len(Registry)}
    OBVIOUS
  <1> DEFINE b == [x \in {} |-> NoBit]
             q == Registry
             n == Len(q)
             H == RegisterAt(Tables, q)
             r == Registered(b, q)
  <1>1. /\ q \in Seq(ModeLetters) /\ n \in Nat /\ n =< 12
        /\ \A i, j \in 1..n : q[i] = q[j] => i = j
        /\ Table = r
    BY RegistryFacts DEF Table, InitModes, Registered, Registry
  <1>2. b \in Tables /\ DOMAIN b = {} /\ Range(b) = {}
    <2>1. b \in [{} -> Bits] /\ DOMAIN b = {} /\ {} \in SUBSET ModeLetters
      OBVIOUS
    <2> HIDE DEF b
    <2> QED
      BY <2>1 DEF Tables, Range
  <1> HIDE DEF b, q, n, r
  <1>3. PICK p : Runs(p, n, Tables, b, H) /\ p[n] = r
    <2> DEFINE A == Tables
    <2>1. FoldsTo(A, n, b, H, r)
      BY <1>1, <1>2, RegisterKeeps, RegisterFold DEF n, r
    <2> HIDE DEF A, H
    <2> QED
      BY <1>1, <1>2, <2>1, FoldRun DEF A
  <1>4. p \in [0..n -> Tables] /\ p[0] = b /\ \A i \in 1..n : p[i] = H[p[i - 1], i]
    <2> HIDE DEF H
    <2> QED
      BY <1>3 DEF Runs
  <1> DEFINE Full(i) == /\ DOMAIN p[i] = {q[j] : j \in 1..i}
                        /\ Range(p[i]) = {j \in Nat : j < i}
             S == {i \in Nat : i =< n => Full(i)}
  <1>5. 0 \in S
    <2>1. {q[j] : j \in 1..0} = {} /\ {j \in Nat : j < 0} = {}
      OBVIOUS
    <2> QED
      BY <1>2, <1>4, <2>1
  <1>6. ASSUME NEW i \in Nat, i \in S PROVE i + 1 \in S
    <2> SUFFICES ASSUME i + 1 =< n PROVE Full(i + 1)
      OBVIOUS
    <2> DEFINE t == p[i]
               x == q[i + 1]
               D == DOMAIN t
    <2>1. i \in 0..n /\ i + 1 \in 1..n /\ i + 1 \in 0..n /\ (i + 1) - 1 = i
      BY <1>1
    <2>2. D = {q[j] : j \in 1..i} /\ Range(t) = {j \in Nat : j < i}
      BY <1>1, <1>6
    <2>3. t \in Tables /\ p[i + 1] = RegisterMode(t, x)
      <3>1. t \in Tables
        BY <1>4, <2>1
      <3>2. p[i + 1] = H[t, i + 1]
        BY <1>4, <2>1
      <3> HIDE DEF t
      <3> QED
        BY <2>1, <3>1, <3>2 DEF RegisterAt, n
    <2>4. x \notin D
      <3> SUFFICES ASSUME NEW j \in 1..i, q[j] = x PROVE FALSE
        BY <2>2
      <3>1. j \in 1..n /\ j # i + 1
        BY <1>1, <2>1
      <3> QED
        BY <1>1, <2>1, <3>1
    <2> HIDE DEF t, x
    <2>5. GetFreeSlot(t) = i /\ i # NoBit
      <3> DEFINE free == Bits \ Range(t)
      <3>1. Width \in Nat
        BY WidthOK
      <3>2. i \in free /\ \A y \in free : i =< y /\ y \in Nat
        BY <1>1, <2>1, <2>2, <3>1 DEF Bits
      <3>3. GetFreeSlot(t) = Min(free)
        BY <3>2 DEF GetFreeSlot
      <3> HIDE DEF free
      <3>4. Min(free) = i
        <4>1. Min(free) \in free /\ \A y \in free : Min(free) =< y
          BY <3>2 DEF Min
        <4> DEFINE k == Min(free)
        <4>2. k \in free /\ k =< i
          BY <3>2, <4>1
        <4>3. k \in Nat /\ i =< k
          BY <3>2, <4>2
        <4> HIDE DEF k
        <4>4. k = i
          BY <4>2, <4>3
        <4> QED
          BY <4>4 DEF k
      <3> QED
        BY <1>1, <2>1, <3>1, <3>3, <3>4 DEF NoBit
    <2>6. RegisterMode(t, x) = [y \in D \cup {x} |-> IF y = x THEN i ELSE t[y]]
      BY <2>4, <2>5 DEF RegisterMode
    <2> DEFINE u == RegisterMode(t, x)
    <2>7. DOMAIN u = D \cup {x}
      BY <2>6
    <2>8. Range(u) = Range(t) \cup {i}
      <3>1. u[x] = i /\ \A y \in D : u[y] = t[y]
        BY <2>4, <2>6
      <3> HIDE DEF u
      <3> QED
        BY <2>7, <3>1 DEF Range
    <2>9. D \cup {x} = {q[j] : j \in 1..(i + 1)}
      <3>1. \A j : j \in 1..(i + 1) <=> j \in 1..i \/ j = i + 1
        OBVIOUS
      <3> HIDE DEF D
      <3> QED
        BY <2>2, <3>1 DEF x
    <2>10. Range(t) \cup {i} = {j \in Nat : j < i + 1}
      BY <2>2
    <2> HIDE DEF u, D
    <2> QED
      BY <2>3, <2>7, <2>8, <2>9, <2>10 DEF u
  <1>7. n \in S
    <2> HIDE DEF S
    <2> QED
      BY <1>1, <1>5, <1>6, SetInduction
  <1>8. DOMAIN p[n] = {q[j] : j \in 1..n}
    BY <1>1, <1>7
  <1> QED
    BY <1>1, <1>3, <1>8 DEF q, n

-----------------------------------------------------------------------------
(* Reading *)

\* What is on the wire, and what may be believed.
Sent == DOMAIN Table \cup {"+", "-"}
Wire == Words \cup {"limit"}
Known == Wire \cup {None}

View == [names : SUBSET Users, ops : SUBSET Known, own : SUBSET Status,
         topic : Topics \cup {NoTopic}, asked : BOOLEAN,
         modes : SUBSET Sent, bans : SUBSET Known, misread : BOOLEAN]

\* What mode lines leave alone.
Alike(v) == {x \in View : /\ x.names = v.names /\ x.topic = v.topic
                           /\ x.asked = v.asked /\ x.misread = v.misread}
Readers(v) == [add : BOOLEAN, args : Seq(Wire), v : Alike(v)]
Lines6 == [sign : {None, "+", "-"}, flags : Seq(Sent), args : Seq(Wire)]

\* The letters q read from b.
ReadLetters(b, q, u) == FoldLeft(LAMBDA a, x : ReadLetter(u, a, x), b, q)
ReadsOn(A, E, u) == \A a \in A, x \in E : ReadLetter(u, a, x) \in A
ReadAt(A, q, u) == [r \in A \X (1..Len(q)) |-> ReadLetter(u, r[1], q[r[2]])]

\* Reading letters is a recursion over their positions.
LEMMA ReadFold ==
  ASSUME NEW A, NEW E, NEW q \in Seq(E), NEW b \in A, NEW u, ReadsOn(A, E, u)
  PROVE  FoldsTo(A, Len(q), b, ReadAt(A, q, u), ReadLetters(b, q, u))
  <1> DEFINE n == Len(q)
             D == 1..n
             H == ReadAt(A, q, u)
             Step(h) == [s \in SUBSET DOMAIN q |->
                           IF s = {} THEN b ELSE ReadLetter(u, h[s \ {Max(s)}], q[Max(s)])]
             g == CHOOSE h : h = Step(h)
  <1>1. n \in Nat /\ D = DOMAIN q /\ \A i \in D : q[i] \in E
    OBVIOUS
  <1>2. H \in [A \X D -> A]
    BY <1>1 DEF ReadAt, ReadsOn
  <1>3. PICK f \in [SUBSET D -> A] : Recursion(f, n, b, H)
    <2> HIDE DEF H
    <2> QED
      BY <1>1, <1>2, FoldExists
  <1>4. \A s \in SUBSET D : s # {} => Max(s) \in D /\ Before(s) \in SUBSET D
    BY <1>1, LastPosition DEF Before
  <1>5. f = Step(f)
    <2>1. \A s \in SUBSET D : s # {} =>
             H[f[Before(s)], Max(s)] = ReadLetter(u, f[Before(s)], q[Max(s)])
      BY <1>3, <1>4 DEF ReadAt
    <2>2. \A s \in SUBSET D :
             f[s] = IF s = {} THEN b ELSE ReadLetter(u, f[Before(s)], q[Max(s)])
      BY <1>3, <2>1 DEF Recursion
    <2> QED
      BY <1>1, <1>3, <2>2 DEF Before
  <1>6. g = Step(g)
    BY <1>5
  <1>7. ReadLetters(b, q, u) = g[D]
    BY <1>1 DEF ReadLetters, FoldLeft, MapThenFoldSet
  <1> HIDE DEF g
  <1>8. /\ g[{}] = b
        /\ \A s \in SUBSET D : s # {} => g[s] = ReadLetter(u, g[Before(s)], q[Max(s)])
    BY <1>1, <1>6 DEF Before
  <1>9. \A s \in SUBSET D : g[s] = f[s]
    <2> DEFINE Q == {s \in SUBSET D : g[s] = f[s]}
    <2>1. /\ f[{}] = b
          /\ \A s \in SUBSET D : s # {} => f[s] = ReadLetter(u, f[Before(s)], q[Max(s)])
      BY <1>1, <1>5 DEF Before
    <2>2. {} \in Q
      BY <1>8, <2>1
    <2>3. \A s \in SUBSET D : s # {} /\ Before(s) \in Q => s \in Q
      <3> SUFFICES ASSUME NEW s \in SUBSET D, s # {}, Before(s) \in Q PROVE g[s] = f[s]
        OBVIOUS
      <3>1. g[Before(s)] = f[Before(s)]
        OBVIOUS
      <3> QED
        BY <1>8, <2>1, <3>1
    <2>4. SUBSET D \subseteq Q
      <3> HIDE DEF Q
      <3> QED
        BY <1>1, <2>2, <2>3, PositionInduction
    <2> QED
      BY <2>4
  <1>10. ReadLetters(b, q, u) = f[D]
    BY <1>7, <1>9
  <1> QED
    BY <1>3, <1>10 DEF FoldsTo

\* A letter leaves alone what mode lines do not tell.
LEMMA ReadLetterKeeps ==
  ASSUME NEW v0 \in View, NEW u
  PROVE  ReadsOn(Readers(v0), Sent, u)
  <1> SUFFICES ASSUME NEW a \in Readers(v0), NEW x \in Sent
               PROVE  ReadLetter(u, a, x) \in Readers(v0)
    BY DEF ReadsOn
  <1>1. /\ a.add \in BOOLEAN /\ a.args \in Seq(Wire) /\ a.v \in View
        /\ a.v.names = v0.names /\ a.v.topic = v0.topic /\ a.v.asked = v0.asked
        /\ a.v.misread = v0.misread
        /\ a = [add |-> a.add, args |-> a.args, v |-> a.v]
    BY DEF Readers, Alike
  <1>2. CASE x \in {"+", "-"}
    <2>1. ReadLetter(u, a, x) = [add |-> x = "+", args |-> a.args, v |-> a.v]
      BY <1>1, <1>2 DEF ReadLetter
    <2> QED
      BY <1>1, <2>1 DEF Readers, Alike
  <1>3. CASE x \notin {"+", "-"}
    <2> DEFINE takes == /\ a.args # <<>>
                        /\ x \in Status \cup {"b", "k"} \cup (IF a.add THEN {"l"} ELSE {})
               w == IF takes THEN Head(a.args) ELSE None
               v == a.v
               rest == IF takes THEN Tail(a.args) ELSE a.args
               heard ==
                 CASE x = "b" -> [v EXCEPT !.bans = Noted(v, a.add, @, w)]
                   [] x \in Status -> [v EXCEPT
                         !.ops = IF x = "o" THEN Put(a.add, @, w) ELSE @,
                         !.own = IF w = u THEN Put(a.add, @, x) ELSE @]
                   [] OTHER -> [v EXCEPT !.modes = Noted(v, a.add, @, x)]
    <2>1. ReadLetter(u, a, x) = [add |-> a.add, args |-> rest, v |-> heard]
      BY <1>3 DEF ReadLetter
    <2>2. rest \in Seq(Wire)
      <3>1. a.args # <<>> => Tail(a.args) \in Seq(Wire)
        BY <1>1, HeadTailProperties
      <3> QED
        BY <1>1, <3>1
    <2>3. w \in Known
      <3>1. a.args # <<>> => Head(a.args) \in Wire
        BY <1>1, HeadTailProperties
      <3> QED
        BY <3>1 DEF Known
    <2> HIDE DEF takes, w, rest
    <2>4. heard \in Alike(v0)
      <3>1. CASE x = "b"
        BY <1>1, <2>3, <3>1 DEF Alike, View, Noted, Put
      <3>2. CASE x \in Status
        <4>1. x # "b"
          BY <3>2 DEF Status
        <4> QED
          BY <1>1, <2>3, <3>2, <4>1 DEF Alike, View, Put
      <3>3. CASE x # "b" /\ x \notin Status
        BY <1>1, <2>3, <3>3 DEF Alike, View, Noted, Put
      <3> QED
        BY <3>1, <3>2, <3>3
    <2> HIDE DEF heard
    <2> QED
      BY <1>1, <2>1, <2>2, <2>4 DEF Readers
  <1> QED
    BY <1>2, <1>3

\* The lines q read from the beliefs b.
ReadLines(b, q, u) == FoldLeft(LAMBDA v, p : Read(u, v, p), b, q)
ReadsLines(A, E, u) == \A a \in A, x \in E : Read(u, a, x) \in A
ReadLineAt(A, q, u) == [r \in A \X (1..Len(q)) |-> Read(u, r[1], q[r[2]])]

\* Reading lines is a recursion over them.
LEMMA ReadLinesFold ==
  ASSUME NEW A, NEW E, NEW q \in Seq(E), NEW b \in A, NEW u, ReadsLines(A, E, u)
  PROVE  FoldsTo(A, Len(q), b, ReadLineAt(A, q, u), ReadLines(b, q, u))
  <1> DEFINE n == Len(q)
             D == 1..n
             H == ReadLineAt(A, q, u)
             Step(h) == [s \in SUBSET DOMAIN q |->
                           IF s = {} THEN b ELSE Read(u, h[s \ {Max(s)}], q[Max(s)])]
             g == CHOOSE h : h = Step(h)
  <1>1. n \in Nat /\ D = DOMAIN q /\ \A i \in D : q[i] \in E
    OBVIOUS
  <1>2. H \in [A \X D -> A]
    BY <1>1 DEF ReadLineAt, ReadsLines
  <1>3. PICK f \in [SUBSET D -> A] : Recursion(f, n, b, H)
    <2> HIDE DEF H
    <2> QED
      BY <1>1, <1>2, FoldExists
  <1>4. \A s \in SUBSET D : s # {} => Max(s) \in D /\ Before(s) \in SUBSET D
    BY <1>1, LastPosition DEF Before
  <1>5. f = Step(f)
    <2>1. \A s \in SUBSET D : s # {} =>
             H[f[Before(s)], Max(s)] = Read(u, f[Before(s)], q[Max(s)])
      BY <1>3, <1>4 DEF ReadLineAt
    <2>2. \A s \in SUBSET D :
             f[s] = IF s = {} THEN b ELSE Read(u, f[Before(s)], q[Max(s)])
      BY <1>3, <2>1 DEF Recursion
    <2> QED
      BY <1>1, <1>3, <2>2 DEF Before
  <1>6. g = Step(g)
    BY <1>5
  <1>7. ReadLines(b, q, u) = g[D]
    BY <1>1 DEF ReadLines, FoldLeft, MapThenFoldSet
  <1> HIDE DEF g
  <1>8. /\ g[{}] = b
        /\ \A s \in SUBSET D : s # {} => g[s] = Read(u, g[Before(s)], q[Max(s)])
    BY <1>1, <1>6 DEF Before
  <1>9. \A s \in SUBSET D : g[s] = f[s]
    <2> DEFINE Q == {s \in SUBSET D : g[s] = f[s]}
    <2>1. /\ f[{}] = b
          /\ \A s \in SUBSET D : s # {} => f[s] = Read(u, f[Before(s)], q[Max(s)])
      BY <1>1, <1>5 DEF Before
    <2>2. {} \in Q
      BY <1>8, <2>1
    <2>3. \A s \in SUBSET D : s # {} /\ Before(s) \in Q => s \in Q
      <3> SUFFICES ASSUME NEW s \in SUBSET D, s # {}, Before(s) \in Q PROVE g[s] = f[s]
        OBVIOUS
      <3>1. g[Before(s)] = f[Before(s)]
        OBVIOUS
      <3> QED
        BY <1>8, <2>1, <3>1
    <2>4. SUBSET D \subseteq Q
      <3> HIDE DEF Q
      <3> QED
        BY <1>1, <2>2, <2>3, PositionInduction
    <2> QED
      BY <2>4
  <1>10. ReadLines(b, q, u) = f[D]
    BY <1>7, <1>9
  <1> QED
    BY <1>3, <1>10 DEF FoldsTo

\* A line of a mode change leaves alone what is not modes or flags.
LEMMA ReadKeeps ==
  ASSUME NEW v0 \in View, NEW u
  PROVE  ReadsLines(Alike(v0), Lines6, u)
  <1> SUFFICES ASSUME NEW v \in Alike(v0), NEW p \in Lines6
               PROVE  Read(u, v, p) \in Alike(v0)
    BY DEF ReadsLines
  <1> DEFINE b == [add |-> TRUE, args |-> p.args, v |-> v]
             q == p.flags
             A == Readers(v0)
  <1>1. b \in A /\ q \in Seq(Sent)
    BY DEF Readers, Lines6
  <1>2. Read(u, v, p) = ReadLetters(b, q, u).v
    BY DEF Read, ReadLetters
  <1>3. ReadsOn(A, Sent, u)
    BY ReadLetterKeeps
  <1> HIDE DEF b, q, A
  <1>4. ReadLetters(b, q, u) \in A
    <2>1. FoldsTo(A, Len(q), b, ReadAt(A, q, u), ReadLetters(b, q, u))
      BY <1>1, <1>3, ReadFold
    <2> QED
      BY <2>1, FoldsWithin
  <1> QED
    BY <1>2, <1>4 DEF A, Readers

-----------------------------------------------------------------------------
(* Writing *)

\* Changes as parseModeChange lists them.
Changes ==
    {ch \in [add : BOOLEAN, letter : DOMAIN Table \ {"+", "-"}, arg : Words \cup {None}] :
        ch.letter \in Status \cup {"b"} <=> ch.arg # None}

\* The changes q written after b.
Written(b, q, key) == FoldLeft(LAMBDA p, ch : Write(p, ch, key), b, q)
WritesOn(A, E, key) == \A a \in A, x \in E : Write(a, x, key) \in A
WriteAt(A, q, key) == [r \in A \X (1..Len(q)) |-> Write(r[1], q[r[2]], key)]

NoLine == [sign |-> None, flags |-> <<>>, args |-> <<>>]

\* Writing is a recursion over the changes.
LEMMA WriteFold ==
  ASSUME NEW A, NEW E, NEW q \in Seq(E), NEW b \in A, NEW key, WritesOn(A, E, key)
  PROVE  FoldsTo(A, Len(q), b, WriteAt(A, q, key), Written(b, q, key))
  <1> DEFINE n == Len(q)
             D == 1..n
             H == WriteAt(A, q, key)
             Step(h) == [s \in SUBSET DOMAIN q |->
                           IF s = {} THEN b ELSE Write(h[s \ {Max(s)}], q[Max(s)], key)]
             g == CHOOSE h : h = Step(h)
  <1>1. n \in Nat /\ D = DOMAIN q /\ \A i \in D : q[i] \in E
    OBVIOUS
  <1>2. H \in [A \X D -> A]
    BY <1>1 DEF WriteAt, WritesOn
  <1>3. PICK f \in [SUBSET D -> A] : Recursion(f, n, b, H)
    <2> HIDE DEF H
    <2> QED
      BY <1>1, <1>2, FoldExists
  <1>4. \A s \in SUBSET D : s # {} => Max(s) \in D /\ Before(s) \in SUBSET D
    BY <1>1, LastPosition DEF Before
  <1>5. f = Step(f)
    <2>1. \A s \in SUBSET D : s # {} =>
             H[f[Before(s)], Max(s)] = Write(f[Before(s)], q[Max(s)], key)
      BY <1>3, <1>4 DEF WriteAt
    <2>2. \A s \in SUBSET D :
             f[s] = IF s = {} THEN b ELSE Write(f[Before(s)], q[Max(s)], key)
      BY <1>3, <2>1 DEF Recursion
    <2> QED
      BY <1>1, <1>3, <2>2 DEF Before
  <1>6. g = Step(g)
    BY <1>5
  <1>7. Written(b, q, key) = g[D]
    BY <1>1 DEF Written, FoldLeft, MapThenFoldSet
  <1> HIDE DEF g
  <1>8. /\ g[{}] = b
        /\ \A s \in SUBSET D : s # {} => g[s] = Write(g[Before(s)], q[Max(s)], key)
    BY <1>1, <1>6 DEF Before
  <1>9. \A s \in SUBSET D : g[s] = f[s]
    <2> DEFINE Q == {s \in SUBSET D : g[s] = f[s]}
    <2>1. /\ f[{}] = b
          /\ \A s \in SUBSET D : s # {} => f[s] = Write(f[Before(s)], q[Max(s)], key)
      BY <1>1, <1>5 DEF Before
    <2>2. {} \in Q
      BY <1>8, <2>1
    <2>3. \A s \in SUBSET D : s # {} /\ Before(s) \in Q => s \in Q
      <3> SUFFICES ASSUME NEW s \in SUBSET D, s # {}, Before(s) \in Q PROVE g[s] = f[s]
        OBVIOUS
      <3>1. g[Before(s)] = f[Before(s)]
        OBVIOUS
      <3> QED
        BY <1>8, <2>1, <3>1
    <2>4. SUBSET D \subseteq Q
      <3> HIDE DEF Q
      <3> QED
        BY <1>1, <2>2, <2>3, PositionInduction
    <2> QED
      BY <2>4
  <1>10. Written(b, q, key) = f[D]
    BY <1>7, <1>9
  <1> QED
    BY <1>3, <1>10 DEF FoldsTo

\* A change is written with words.
LEMMA ParamType ==
  ASSUME NEW ch \in Changes, NEW key \in Words \cup {None}
  PROVE  Param(ch, key) \in Seq(Wire)
  <1>1. ch.arg \in Wire \cup {None} /\ key \in Wire \cup {None} /\ "limit" \in Wire
    BY DEF Changes, Wire
  <1>2. \A w \in Words : OnWire[w] \in Seq(Wire)
    <2> SUFFICES ASSUME NEW w \in Words PROVE OnWire[w] \in Seq(Wire)
      OBVIOUS
    <2>1. OnWire[w] \in Seq(Words) /\ Words \subseteq Wire
      BY TalkParams DEF Wire
    <2> HIDE DEF Words, Wire
    <2> QED
      BY <2>1
  <1>3. <<>> \in Seq(Wire) /\ <<"limit">> \in Seq(Wire)
    BY <1>1
  <1>4. ch.arg # None => ch.arg \in Words
    BY DEF Changes
  <1>5. key # None => key \in Words
    OBVIOUS
  <1> HIDE DEF Wire, Words
  <1> QED
    BY <1>2, <1>3, <1>4, <1>5 DEF Param

\* A line that is written is one a client can take apart.
LEMMA WriteKeeps ==
  ASSUME NEW key \in Words \cup {None} PROVE WritesOn(Lines6, Changes, key)
  <1> SUFFICES ASSUME NEW p \in Lines6, NEW ch \in Changes
               PROVE  Write(p, ch, key) \in Lines6
    BY DEF WritesOn
  <1> DEFINE sign == Sign(ch.add)
             base == IF p.sign = sign THEN p.flags ELSE Append(p.flags, sign)
             flags == Append(base, ch.letter)
             args == p.args \o Param(ch, key)
  <1>1. p.flags \in Seq(Sent) /\ p.args \in Seq(Wire)
    BY DEF Lines6
  <1>2. sign \in {"+", "-"} /\ sign \in Sent /\ ch.letter \in Sent
    BY DEF Sign, Sent, Changes
  <1>3. Write(p, ch, key) = [sign |-> sign, flags |-> flags, args |-> args]
    BY DEF Write
  <1> HIDE DEF sign
  <1>4. base \in Seq(Sent)
    <2>1. Append(p.flags, sign) \in Seq(Sent)
      BY <1>1, <1>2, AppendProperties
    <2> QED
      BY <1>1, <2>1
  <1> HIDE DEF base
  <1>5. flags \in Seq(Sent)
    BY <1>2, <1>4, AppendProperties
  <1>6. args \in Seq(Wire)
    BY <1>1, ParamType, ConcatProperties
  <1> HIDE DEF flags, args
  <1> QED
    BY <1>2, <1>3, <1>5, <1>6 DEF Lines6

\* A piece is such a line, and the result of writing its changes.
LEMMA PieceFolds ==
  ASSUME NEW q \in Seq(Changes), NEW key \in Words \cup {None}
  PROVE  /\ FoldsTo(Lines6, Len(q), NoLine, WriteAt(Lines6, q, key), Piece(q, key))
         /\ Piece(q, key) \in Lines6
         /\ NoLine \in Lines6
  <1> DEFINE A == Lines6
             E == Changes
             b == NoLine
  <1>1. b \in A
    BY DEF Lines6, NoLine
  <1>2. WritesOn(A, E, key)
    BY WriteKeeps
  <1>3. Piece(q, key) = Written(b, q, key)
    BY DEF Piece, Written, NoLine
  <1>4. q \in Seq(E)
    OBVIOUS
  <1>5. FoldsTo(A, Len(q), b, WriteAt(A, q, key), Written(b, q, key))
    <2> HIDE DEF A, E, b
    <2> QED
      BY <1>1, <1>2, <1>4, WriteFold
  <1>6. Written(b, q, key) \in A
    <2> HIDE DEF A, b
    <2> QED
      BY <1>5, FoldsWithin
  <1> QED
    BY <1>1, <1>3, <1>5, <1>6

\* What is in the pieces before the j-th, and where that one ends.
Lo(j) == (j - 1) * 6
Hi(out, j) == IF j * 6 < Len(out) THEN j * 6 ELSE Len(out)

\* The j-th piece is the changes from Lo(j) + 1 to Hi(out, j).
CutOf(S, out, j, q) ==
    /\ q \in Seq(S)
    /\ Lo(j) \in Nat /\ Hi(out, j) \in Nat /\ Lo(j) < Hi(out, j) /\ Hi(out, j) =< Len(out)
    /\ Len(q) = Hi(out, j) - Lo(j)
    /\ \A k \in 1..Len(q) : q[k] = out[Lo(j) + k]

\* The j-th cut holds the changes from its first to its last.
LEMMA CutFacts ==
  ASSUME NEW S, NEW out \in Seq(S), NEW j \in 1..Count(out)
  PROVE  CutOf(S, out, j, Cut(out, j))
  <1> DEFINE n == Len(out)
             lo == Lo(j)
             hi == Hi(out, j)
             q == Cut(out, j)
  <1>1. n \in Nat /\ \A i \in 1..n : out[i] \in S
    OBVIOUS
  <1> HIDE DEF n
  <1>2. j \in Int /\ j >= 1 /\ j =< (n + 5) \div 6
    BY <1>1 DEF Count, PieceLen, n
  <1>3. lo \in Nat /\ hi \in Nat /\ lo < hi /\ hi =< n
    BY <1>1, <1>2 DEF Lo, Hi, n
  <1>4. q = SubSeq(out, lo + 1, hi)
    BY DEF Cut, PieceLen, Lo, Hi
  <1> HIDE DEF lo, hi, q
  <1>5. lo + 1 \in Int /\ hi \in Int /\ \A i \in (lo + 1)..hi : out[i] \in S
    BY <1>1, <1>3
  <1>6. q \in Seq(S)
    BY <1>4, <1>5, SubSeqProperties
  <1>7. Len(q) = hi - lo
    <2> DEFINE m == lo + 1
    <2>1. m \in Int /\ \A i \in m..hi : out[i] \in S
      BY <1>5
    <2>2. Len(SubSeq(out, m, hi)) = IF m =< hi THEN hi - m + 1 ELSE 0
      <3> HIDE DEF m
      <3> QED
        BY <1>5, <2>1, SubSeqProperties
    <2> QED
      BY <1>3, <1>4, <2>2
  <1>8. \A k \in 1..Len(q) : q[k] = out[lo + k]
    <2> DEFINE m == lo + 1
    <2>1. m \in Int /\ \A i \in m..hi : out[i] \in S
      BY <1>5
    <2>2. \A k \in 1..(hi - m + 1) : SubSeq(out, m, hi)[k] = out[m + k - 1]
      <3> HIDE DEF m
      <3> QED
        BY <1>5, <2>1, SubSeqProperties
    <2>3. \A k \in 1..Len(q) : k \in 1..(hi - m + 1) /\ m + k - 1 = lo + k
      BY <1>3, <1>7
    <2>4. q = SubSeq(out, m, hi)
      BY <1>4
    <2> SUFFICES ASSUME NEW k \in 1..Len(q) PROVE q[k] = out[lo + k]
      OBVIOUS
    <2>5. q[k] = SubSeq(out, m, hi)[k]
      BY <2>4
    <2>6. SubSeq(out, m, hi)[k] = out[m + k - 1] /\ m + k - 1 = lo + k
      <3> HIDE DEF m
      <3> QED
        BY <2>2, <2>3
    <2> QED
      BY <2>5, <2>6
  <1> QED
    BY <1>3, <1>6, <1>7, <1>8 DEF CutOf, lo, hi, q, n

\* The pieces are lines, one for each cut.
LEMMA PiecesType ==
  ASSUME NEW out \in Seq(Changes), NEW key \in Words \cup {None}
  PROVE  /\ Count(out) \in Nat
         /\ Pieces(out, key) \in Seq(Lines6)
         /\ Len(Pieces(out, key)) = Count(out)
         /\ \A j \in 1..Count(out) : Pieces(out, key)[j] = Piece(Cut(out, j), key)
  <1>1. Count(out) \in Nat
    <2>1. Len(out) \in Nat
      OBVIOUS
    <2> QED
      BY <2>1 DEF Count, PieceLen
  <1>2. ASSUME NEW j \in 1..Count(out) PROVE Piece(Cut(out, j), key) \in Lines6
    <2>1. Cut(out, j) \in Seq(Changes)
      BY CutFacts DEF CutOf
    <2> QED
      BY <2>1, PieceFolds
  <1>3. Pieces(out, key) = [j \in 1..Count(out) |-> Piece(Cut(out, j), key)]
    BY DEF Pieces
  <1> QED
    BY <1>1, <1>2, <1>3

-----------------------------------------------------------------------------
(* Parsing *)

\* What a line is parsed with, in a channel with the members D.
Parsing(D) ==
    [add : BOOLEAN, par : Nat \ {0}, key : Words \cup {None},
     status : [D -> SUBSET Status], modes : SUBSET Bits, bans : SUBSET Words,
     out : Seq(Changes)]

\* b is a after the change ch.
Does(a, ch, b) ==
    /\ b.status = [v \in DOMAIN a.status |->
                      IF ch.letter \in Status /\ v = ch.arg
                        THEN Put(ch.add, a.status[v], ch.letter) ELSE a.status[v]]
    /\ b.modes = IF ch.letter \in Status \cup {"b"} THEN a.modes
                 ELSE Put(ch.add, a.modes, Table[ch.letter])
    /\ b.bans = IF ch.letter = "b" THEN Put(ch.add, a.bans, ch.arg) ELSE a.bans
    /\ ch.letter \in Status => ch.arg \in DOMAIN a.status

\* What the letter x did is what the list was given.
Listed(a, b, x) ==
    \/ /\ b.out = a.out /\ b.status = a.status /\ b.modes = a.modes /\ b.bans = a.bans
    \/ \E ch \in Changes : ch.letter = x /\ b.out = Append(a.out, ch) /\ Does(a, ch, b)

\* What listing a change leaves alone.
Sames(a, b) == b.add = a.add /\ b.par = a.par /\ b.key = a.key

\* The fields of what a line is parsed with.
LEMMA ParsingFields ==
  ASSUME NEW D, NEW a \in Parsing(D)
  PROVE  /\ a.add \in BOOLEAN /\ a.par \in Nat \ {0} /\ a.key \in Words \cup {None}
         /\ a.status \in [D -> SUBSET Status] /\ a.modes \in SUBSET Bits
         /\ a.bans \in SUBSET Words /\ a.out \in Seq(Changes)
         /\ a = [add |-> a.add, par |-> a.par, key |-> a.key, status |-> a.status,
                 modes |-> a.modes, bans |-> a.bans, out |-> a.out]
  BY DEF Parsing

\* DoFlag lists the change it makes, and lists nothing else.
LEMMA FlagListed ==
  ASSUME NEW D, NEW a \in Parsing(D),
         NEW x \in DOMAIN Table \ (Status \cup {"b", "+", "-"})
  PROVE  /\ DoFlag(a, x) \in Parsing(D)
         /\ Sames(a, DoFlag(a, x))
         /\ Listed(a, DoFlag(a, x), x)
  <1> DEFINE b == DoFlag(a, x)
             ch == [add |-> a.add, letter |-> x, arg |-> None]
             m == Put(a.add, a.modes, Table[x])
  <1>1. CASE IsSet(a.modes, Table[x]) = a.add
    <2>1. b = a
      BY <1>1 DEF DoFlag
    <2> QED
      BY <2>1 DEF Listed, Sames
  <1>2. CASE IsSet(a.modes, Table[x]) # a.add
    <2>1. a.add \in BOOLEAN
      BY ParsingFields
    <2>2. b = [a EXCEPT !.out = Append(a.out, ch), !.modes = m]
      BY <1>2, <2>1, ParsingFields DEF DoFlag, Changed, Put, AddFlag, Revoke, IsSet
    <2>3. ch \in Changes
      BY <2>1 DEF Changes
    <2>4. m \in SUBSET Bits
      <3>1. Table[x] \in Bits
        BY TableType DEF Tables
      <3> QED
        BY <3>1, ParsingFields DEF Put
    <2> HIDE DEF ch
    <2>5. Append(a.out, ch) \in Seq(Changes)
      BY <2>3, ParsingFields, AppendProperties
    <2>6. b = [add |-> a.add, par |-> a.par, key |-> a.key, status |-> a.status,
                  modes |-> m, bans |-> a.bans, out |-> Append(a.out, ch)]
      BY <2>2, ParsingFields
    <2>7. /\ b.out = Append(a.out, ch) /\ b.modes = m /\ b.status = a.status
          /\ b.bans = a.bans /\ b.add = a.add /\ b.par = a.par /\ b.key = a.key
          /\ b = [add |-> b.add, par |-> b.par, key |-> b.key, status |-> b.status,
                  modes |-> b.modes, bans |-> b.bans, out |-> b.out]
      BY <2>6
    <2> HIDE DEF b, m
    <2>8. b \in Parsing(D)
      BY <2>4, <2>5, <2>7, ParsingFields DEF Parsing
    <2>9. Does(a, ch, b)
      <3>1. ch.add = a.add /\ ch.letter = x
        BY DEF ch
      <3>2. x \notin Status \cup {"b"}
        OBVIOUS
      <3>3. b.status = [v \in DOMAIN a.status |->
                      IF ch.letter \in Status /\ v = ch.arg
                        THEN Put(ch.add, a.status[v], ch.letter) ELSE a.status[v]]
        BY <2>7, <3>1, <3>2, ParsingFields
      <3> QED
        BY <2>7, <3>1, <3>2, <3>3 DEF Does, m
    <2>10. ch.letter = x
      BY DEF ch
    <2>11. Listed(a, b, x)
      BY <2>3, <2>7, <2>9, <2>10 DEF Listed
    <2>12. Sames(a, b)
      BY <2>7 DEF Sames
    <2> QED
      BY <2>8, <2>11, <2>12 DEF b
  <1> QED
    BY <1>1, <1>2

\* DoBan lists the change it makes.
LEMMA BanListed ==
  ASSUME NEW D, NEW a \in Parsing(D), NEW w \in Words, "b" \in DOMAIN Table
  PROVE  /\ DoBan(a, w) \in Parsing(D)
         /\ Sames(a, DoBan(a, w))
         /\ Listed(a, DoBan(a, w), "b")
  <1> DEFINE b == DoBan(a, w)
             ch == [add |-> a.add, letter |-> "b", arg |-> w]
             m == Put(a.add, a.bans, w)
  <1>1. CASE FindBan(a.bans, w) = a.add
    <2>1. b = a
      BY <1>1 DEF DoBan
    <2> QED
      BY <2>1 DEF Listed, Sames
  <1>2. CASE FindBan(a.bans, w) # a.add
    <2>1. a.add \in BOOLEAN
      BY ParsingFields
    <2>2. b = [a EXCEPT !.out = Append(a.out, ch), !.bans = m]
      BY <1>2, <2>1, ParsingFields DEF DoBan, Changed, Put, AddBan, RemoveBan, FindBan
    <2>3. ch \in Changes
      BY <2>1, TalkParams DEF Changes
    <2>4. m \in SUBSET Words
      BY ParsingFields DEF Put
    <2> HIDE DEF ch
    <2>5. Append(a.out, ch) \in Seq(Changes)
      BY <2>3, ParsingFields, AppendProperties
    <2>6. b = [add |-> a.add, par |-> a.par, key |-> a.key, status |-> a.status,
                  modes |-> a.modes, bans |-> m, out |-> Append(a.out, ch)]
      BY <2>2, ParsingFields
    <2>7. /\ b.out = Append(a.out, ch) /\ b.bans = m /\ b.status = a.status
          /\ b.modes = a.modes /\ b.add = a.add /\ b.par = a.par /\ b.key = a.key
          /\ b = [add |-> b.add, par |-> b.par, key |-> b.key, status |-> b.status,
                  modes |-> b.modes, bans |-> b.bans, out |-> b.out]
      BY <2>6
    <2> HIDE DEF b, m
    <2>8. b \in Parsing(D)
      BY <2>4, <2>5, <2>7, ParsingFields DEF Parsing
    <2>9. Does(a, ch, b)
      <3>1. ch.add = a.add /\ ch.letter = "b" /\ ch.arg = w /\ "b" \notin Status
        BY DEF ch, Status
      <3>2. b.status = [v \in DOMAIN a.status |->
                      IF ch.letter \in Status /\ v = ch.arg
                        THEN Put(ch.add, a.status[v], ch.letter) ELSE a.status[v]]
        BY <2>7, <3>1, ParsingFields
      <3> QED
        BY <2>7, <3>1, <3>2 DEF Does, m
    <2>10. ch.letter = "b"
      BY DEF ch
    <2>11. Listed(a, b, "b")
      BY <2>3, <2>7, <2>9, <2>10 DEF Listed
    <2>12. Sames(a, b)
      BY <2>7 DEF Sames
    <2> QED
      BY <2>8, <2>11, <2>12 DEF b
  <1> QED
    BY <1>1, <1>2

\* DoMember lists the change it makes.
LEMMA MemberListed ==
  ASSUME NEW D, NEW a \in Parsing(D), NEW x \in DOMAIN Table, x \in Status, NEW w \in Words
  PROVE  /\ DoMember(a, x, w) \in Parsing(D)
         /\ Sames(a, DoMember(a, x, w))
         /\ Listed(a, DoMember(a, x, w), x)
  <1> DEFINE b == DoMember(a, x, w)
             ch == [add |-> a.add, letter |-> x, arg |-> w]
             st == [a.status EXCEPT ![w] = Put(a.add, @, x)]
  <1>1. CASE w \notin DOMAIN a.status \/ (x \in a.status[w]) = a.add
    <2>1. b = a
      BY <1>1 DEF DoMember
    <2> QED
      BY <2>1 DEF Listed, Sames
  <1>2. CASE ~(w \notin DOMAIN a.status \/ (x \in a.status[w]) = a.add)
    <2>1. a.add \in BOOLEAN /\ w \in D
      BY <1>2, ParsingFields
    <2>2. b = [a EXCEPT !.out = Append(a.out, ch), !.status = st]
      BY <1>2, ParsingFields DEF DoMember, Changed
    <2>3. ch \in Changes
      BY <2>1, TalkParams DEF Changes, Status
    <2>4. st \in [D -> SUBSET Status]
      BY <2>1, ParsingFields DEF Put
    <2>5. st = [v \in D |-> IF v = w THEN Put(a.add, a.status[v], x) ELSE a.status[v]]
      BY <2>1, ParsingFields
    <2> HIDE DEF ch
    <2>6. Append(a.out, ch) \in Seq(Changes)
      BY <2>3, ParsingFields, AppendProperties
    <2> HIDE DEF st
    <2>7. b = [add |-> a.add, par |-> a.par, key |-> a.key, status |-> st,
                  modes |-> a.modes, bans |-> a.bans, out |-> Append(a.out, ch)]
      BY <2>2, ParsingFields
    <2>8. /\ b.out = Append(a.out, ch) /\ b.bans = a.bans /\ b.status = st
          /\ b.modes = a.modes /\ b.add = a.add /\ b.par = a.par /\ b.key = a.key
          /\ b = [add |-> b.add, par |-> b.par, key |-> b.key, status |-> b.status,
                  modes |-> b.modes, bans |-> b.bans, out |-> b.out]
      BY <2>7
    <2> HIDE DEF b
    <2>9. b \in Parsing(D)
      BY <2>4, <2>6, <2>8, ParsingFields DEF Parsing
    <2>10. Does(a, ch, b)
      <3>1. ch.add = a.add /\ ch.letter = x /\ ch.arg = w /\ x # "b" /\ DOMAIN a.status = D
        BY ParsingFields DEF ch, Status
      <3>2. b.status = [v \in DOMAIN a.status |->
                      IF ch.letter \in Status /\ v = ch.arg
                        THEN Put(ch.add, a.status[v], ch.letter) ELSE a.status[v]]
        BY <2>5, <2>8, <3>1
      <3> QED
        BY <2>1, <2>8, <3>1, <3>2 DEF Does
    <2>11. ch.letter = x
      BY DEF ch
    <2>12. Listed(a, b, x)
      BY <2>3, <2>8, <2>10, <2>11 DEF Listed
    <2>13. Sames(a, b)
      BY <2>8 DEF Sames
    <2> QED
      BY <2>9, <2>12, <2>13 DEF b
  <1> QED
    BY <1>1, <1>2

\* What follows a change, the cursor and the key, lists nothing.
MovedTo(m, p, k) ==
    [add |-> m.add, par |-> p, key |-> k, status |-> m.status,
     modes |-> m.modes, bans |-> m.bans, out |-> m.out]

\* What follows a change does not disturb that it is listed.
LEMMA MovedListed ==
  ASSUME NEW D, NEW a, NEW m \in Parsing(D), NEW x, Listed(a, m, x),
         NEW p \in Nat \ {0}, NEW k \in Words \cup {None}
  PROVE  MovedTo(m, p, k) \in Parsing(D) /\ Listed(a, MovedTo(m, p, k), x)
  <1> DEFINE b == MovedTo(m, p, k)
  <1>1. b.out = m.out /\ b.status = m.status /\ b.modes = m.modes /\ b.bans = m.bans
    BY DEF MovedTo
  <1>2. b \in Parsing(D)
    BY ParsingFields DEF MovedTo, Parsing
  <1> HIDE DEF b
  <1>3. Listed(a, b, x)
    <2>1. CASE /\ m.out = a.out /\ m.status = a.status
               /\ m.modes = a.modes /\ m.bans = a.bans
      BY <1>1, <2>1 DEF Listed
    <2>2. CASE \E ch \in Changes :
                  ch.letter = x /\ m.out = Append(a.out, ch) /\ Does(a, ch, m)
      <3>1. PICK ch \in Changes :
                  ch.letter = x /\ m.out = Append(a.out, ch) /\ Does(a, ch, m)
        BY <2>2
      <3>2. Does(a, ch, b)
        BY <1>1, <3>1 DEF Does
      <3> QED
        BY <1>1, <3>1, <3>2 DEF Listed
    <2> QED
      BY <2>1, <2>2 DEF Listed
  <1> QED
    BY <1>2, <1>3 DEF b

\* Every letter of a line lists what it changes.
LEMMA LetterListed ==
  ASSUME NEW D, NEW u, NEW args \in Seq(Words), NEW a \in Parsing(D), NEW x
  PROVE  /\ Letter(u, args, a, x) \in Parsing(D)
         /\ Listed(a, Letter(u, args, a, x), x)
  <1> DEFINE b == Letter(u, args, a, x)
  <1>1. Len(args) \in Nat /\ (\A i \in 1..Len(args) : args[i] \in Words) /\ None \notin Words
    BY TalkParams
  <1>2. CASE x \in {"+", "-"}
    <2>1. b = [a EXCEPT !.add = (x = "+")]
      BY <1>2 DEF Letter
    <2>2. b = [add |-> x = "+", par |-> a.par, key |-> a.key, status |-> a.status,
               modes |-> a.modes, bans |-> a.bans, out |-> a.out]
      BY <2>1, ParsingFields
    <2>3. b \in Parsing(D)
      BY <2>2, ParsingFields DEF Parsing
    <2>4. Listed(a, b, x)
      BY <2>2 DEF Listed
    <2> QED
      BY <2>3, <2>4
  <1>3. CASE x \notin {"+", "-"} /\ Refuses(u, args, a, x)
    <2>1. b = a
      BY <1>3 DEF Letter
    <2> HIDE DEF b
    <2>2. Listed(a, b, x)
      BY <2>1 DEF Listed
    <2> QED
      BY <2>1, <2>2 DEF b
  <1>4. CASE x \notin {"+", "-"} /\ ~Refuses(u, args, a, x) /\ x \in Status \cup {"b"}
    <2> DEFINE m == IF a.par > Len(args) THEN a
                    ELSE IF x = "b" THEN DoBan(a, args[a.par])
                    ELSE DoMember(a, x, args[a.par])
    <2>1. x \in DOMAIN Table
      BY <1>4 DEF Refuses
    <2>2. m \in Parsing(D) /\ Sames(a, m) /\ Listed(a, m, x)
      <3>1. CASE a.par > Len(args)
        BY <3>1 DEF Sames, Listed
      <3>2. CASE ~(a.par > Len(args))
        <4>1. args[a.par] \in Words
          BY <1>1, <3>2, ParsingFields
        <4>2. CASE x = "b"
          BY <2>1, <3>2, <4>1, <4>2, BanListed
        <4>3. CASE x # "b"
          <5>1. x \in Status /\ m = DoMember(a, x, args[a.par])
            BY <1>4, <3>2, <4>3
          <5> QED
            BY <2>1, <4>1, <5>1, MemberListed
        <4> QED
          BY <4>2, <4>3
      <3> QED
        BY <3>1, <3>2
    <2>3. b = [m EXCEPT !.par = @ + 1]
      BY <1>4 DEF Letter
    <2> HIDE DEF m
    <2>4. b = MovedTo(m, m.par + 1, m.key)
      BY <2>2, <2>3, ParsingFields, SMTT(30) DEF MovedTo
    <2>5. m.par + 1 \in Nat \ {0} /\ m.key \in Words \cup {None}
      BY <2>2, ParsingFields
    <2>6. b \in Parsing(D) /\ Listed(a, b, x)
      <3> DEFINE p == m.par + 1
      <3>1. b = MovedTo(m, p, m.key) /\ p \in Nat \ {0}
        BY <2>4, <2>5
      <3> HIDE DEF b, p
      <3> QED
        BY <2>2, <2>5, <3>1, MovedListed
    <2> QED
      BY <2>6 DEF b
  <1>5. CASE x \notin {"+", "-"} /\ ~Refuses(u, args, a, x) /\ x \notin Status \cup {"b"}
    <2> DEFINE m == DoFlag(a, x)
    <2>1. x \in DOMAIN Table \ (Status \cup {"b", "+", "-"})
      BY <1>5 DEF Refuses
    <2>2. m \in Parsing(D) /\ Sames(a, m) /\ Listed(a, m, x)
      BY <2>1, FlagListed
    <2>3. CASE x \in {"k", "l"} /\ a.add
      <3> DEFINE k == IF x = "k" THEN args[a.par] ELSE m.key
                 p == m.par + 1
      <3>1. args[a.par] \in Words
        <4>1. ~(Len(args) < a.par)
          BY <1>5, <2>3 DEF Refuses, Demands
        <4> QED
          BY <1>1, <4>1, ParsingFields
      <3>2. b = [m EXCEPT !.par = p, !.key = k]
        BY <1>5, <2>3 DEF Letter
      <3>3. p \in Nat \ {0} /\ k \in Words \cup {None}
        BY <2>2, <3>1, ParsingFields
      <3> HIDE DEF m
      <3>4. b = MovedTo(m, p, k)
        <4>1. m = [add |-> m.add, par |-> m.par, key |-> m.key, status |-> m.status,
                   modes |-> m.modes, bans |-> m.bans, out |-> m.out]
          BY <2>2, ParsingFields
        <4> HIDE DEF b, p, k
        <4>2. b = [m EXCEPT !.par = p, !.key = k]
          BY <3>2
        <4> QED
          BY <4>1, <4>2 DEF MovedTo
      <3> HIDE DEF b, k, p
      <3>5. b \in Parsing(D) /\ Listed(a, b, x)
        BY <2>2, <3>3, <3>4, MovedListed
      <3> QED
        BY <3>5 DEF b
    <2>4. CASE ~(x \in {"k", "l"} /\ a.add)
      <3> DEFINE k == IF x = "k" THEN None ELSE m.key
                 p == m.par
      <3>1. b = [m EXCEPT !.key = k]
        BY <1>5, <2>4 DEF Letter
      <3>2. p \in Nat \ {0} /\ k \in Words \cup {None}
        BY <2>2, ParsingFields
      <3> HIDE DEF m
      <3>3. b = MovedTo(m, p, k)
        BY <2>2, <3>1, ParsingFields DEF MovedTo
      <3> HIDE DEF b, k, p
      <3>4. b \in Parsing(D) /\ Listed(a, b, x)
        BY <2>2, <3>2, <3>3, MovedListed
      <3> QED
        BY <3>4 DEF b
    <2> QED
      BY <2>3, <2>4
  <1> QED
    BY <1>2, <1>3, <1>4, <1>5

\* The letters q parsed from b.
Parsed(b, q, u, args) == FoldLeft(LAMBDA a, x : Letter(u, args, a, x), b, q)
ParsesOn(A, E, u, args) == \A a \in A, x \in E : Letter(u, args, a, x) \in A
ParseAt(A, q, u, args) == [r \in A \X (1..Len(q)) |-> Letter(u, args, r[1], q[r[2]])]

\* Parsing is a recursion over the letters.
LEMMA ParseFold ==
  ASSUME NEW A, NEW E, NEW q \in Seq(E), NEW b \in A, NEW u, NEW args, ParsesOn(A, E, u, args)
  PROVE  FoldsTo(A, Len(q), b, ParseAt(A, q, u, args), Parsed(b, q, u, args))
  <1> DEFINE n == Len(q)
             D == 1..n
             H == ParseAt(A, q, u, args)
             Step(h) == [s \in SUBSET DOMAIN q |->
                           IF s = {} THEN b ELSE Letter(u, args, h[s \ {Max(s)}], q[Max(s)])]
             g == CHOOSE h : h = Step(h)
  <1>1. n \in Nat /\ D = DOMAIN q /\ \A i \in D : q[i] \in E
    OBVIOUS
  <1>2. H \in [A \X D -> A]
    BY <1>1 DEF ParseAt, ParsesOn
  <1>3. PICK f \in [SUBSET D -> A] : Recursion(f, n, b, H)
    <2> HIDE DEF H
    <2> QED
      BY <1>1, <1>2, FoldExists
  <1>4. \A s \in SUBSET D : s # {} => Max(s) \in D /\ Before(s) \in SUBSET D
    BY <1>1, LastPosition DEF Before
  <1>5. f = Step(f)
    <2>1. \A s \in SUBSET D : s # {} =>
             H[f[Before(s)], Max(s)] = Letter(u, args, f[Before(s)], q[Max(s)])
      BY <1>3, <1>4 DEF ParseAt
    <2>2. \A s \in SUBSET D :
             f[s] = IF s = {} THEN b ELSE Letter(u, args, f[Before(s)], q[Max(s)])
      BY <1>3, <2>1 DEF Recursion
    <2> QED
      BY <1>1, <1>3, <2>2 DEF Before
  <1>6. g = Step(g)
    BY <1>5
  <1>7. Parsed(b, q, u, args) = g[D]
    BY <1>1 DEF Parsed, FoldLeft, MapThenFoldSet
  <1> HIDE DEF g
  <1>8. /\ g[{}] = b
        /\ \A s \in SUBSET D : s # {} => g[s] = Letter(u, args, g[Before(s)], q[Max(s)])
    BY <1>1, <1>6 DEF Before
  <1>9. \A s \in SUBSET D : g[s] = f[s]
    <2> DEFINE Q == {s \in SUBSET D : g[s] = f[s]}
    <2>1. /\ f[{}] = b
          /\ \A s \in SUBSET D : s # {} => f[s] = Letter(u, args, f[Before(s)], q[Max(s)])
      BY <1>1, <1>5 DEF Before
    <2>2. {} \in Q
      BY <1>8, <2>1
    <2>3. \A s \in SUBSET D : s # {} /\ Before(s) \in Q => s \in Q
      <3> SUFFICES ASSUME NEW s \in SUBSET D, s # {}, Before(s) \in Q PROVE g[s] = f[s]
        OBVIOUS
      <3>1. g[Before(s)] = f[Before(s)]
        OBVIOUS
      <3> QED
        BY <1>8, <2>1, <3>1
    <2>4. SUBSET D \subseteq Q
      <3> HIDE DEF Q
      <3> QED
        BY <1>1, <2>2, <2>3, PositionInduction
    <2> QED
      BY <2>4
  <1>10. Parsed(b, q, u, args) = f[D]
    BY <1>7, <1>9
  <1> QED
    BY <1>3, <1>10 DEF FoldsTo

-----------------------------------------------------------------------------
(* A piece reads as the changes it was written from *)

\* What the change ch makes of the beliefs v of w.
Apply(w, v, ch) ==
    [names |-> v.names, topic |-> v.topic, asked |-> v.asked,
     ops |-> IF ch.letter = "o" THEN Put(ch.add, v.ops, ch.arg) ELSE v.ops,
     own |-> IF ch.letter \in Status /\ ch.arg = w
               THEN Put(ch.add, v.own, ch.letter) ELSE v.own,
     modes |-> IF ch.letter \in Status \cup {"b"} THEN v.modes
               ELSE Noted(v, ch.add, v.modes, ch.letter),
     bans |-> IF ch.letter = "b" THEN Noted(v, ch.add, v.bans, ch.arg) ELSE v.bans,
     misread |-> v.misread]

\* A change makes beliefs of beliefs.
LEMMA ApplyType ==
  ASSUME NEW w, NEW v \in View, NEW ch \in Changes
  PROVE  Apply(w, v, ch) \in View
  <1>1. /\ ch.add \in BOOLEAN /\ ch.letter \in Sent /\ ch.arg \in Known
    BY DEF Changes, Sent, Known, Wire
  <1>2. /\ v.names \in SUBSET Users /\ v.topic \in Topics \cup {NoTopic}
        /\ v.asked \in BOOLEAN /\ v.ops \in SUBSET Known /\ v.own \in SUBSET Status
        /\ v.modes \in SUBSET Sent /\ v.bans \in SUBSET Known /\ v.misread \in BOOLEAN
    BY DEF View
  <1> QED
    BY <1>1, <1>2 DEF Apply, View, Put, Noted

\* A word before others is read first.
LEMMA WordFirst ==
  ASSUME NEW x \in Wire, NEW rest \in Seq(Wire)
  PROVE  /\ <<x>> \o rest # <<>>
         /\ Head(<<x>> \o rest) = x
         /\ Tail(<<x>> \o rest) = rest
  <1> DEFINE one == <<x>>
             s == one \o rest
             t == Tail(s)
  <1>1. one \in Seq(Wire) /\ Len(one) = 1 /\ one[1] = x
    OBVIOUS
  <1>2. Len(rest) \in Nat
    OBVIOUS
  <1> HIDE DEF one
  <1>3. s \in Seq(Wire)
    BY <1>1, ConcatProperties
  <1>4. Len(s) = 1 + Len(rest)
    BY <1>1, ConcatProperties, SMTT(30)
  <1>5. \A i \in 1..(Len(one) + Len(rest)) :
           s[i] = IF i =< Len(one) THEN one[i] ELSE rest[i - Len(one)]
    BY <1>1, ConcatProperties
  <1> HIDE DEF s
  <1>6. s # <<>>
    BY <1>2, <1>4
  <1>7. s[1] = x /\ \A i \in 1..Len(rest) : s[i + 1] = rest[i]
    BY <1>1, <1>2, <1>5
  <1>8. t \in Seq(Wire)
    BY <1>3, <1>6, HeadTailProperties
  <1>9. Len(t) = Len(s) - 1
    BY <1>3, <1>6, HeadTailProperties
  <1>10. \A i \in 1..Len(t) : t[i] = s[i + 1]
    BY <1>3, <1>6, HeadTailProperties
  <1> HIDE DEF t
  <1>11. Len(t) = Len(rest)
    BY <1>2, <1>4, <1>9
  <1>12. t = rest
    <2>1. \A i \in 1..Len(t) : t[i] = rest[i]
      BY <1>7, <1>10, <1>11
    <2> QED
      BY <1>8, <1>11, <2>1
  <1>13. Head(s) = x
    BY <1>3, <1>6, <1>7
  <1> QED
    BY <1>6, <1>12, <1>13 DEF s, one, t

\* A key that is echoed without its word.
Bare(ch, key) == ch.letter = "k" /\ key = None

\* The words of a change are read as they were written.
Clear(ch, key) ==
    /\ ch.arg # None => Plain(ch.arg)
    /\ ch.letter = "k" /\ key # None => Plain(key)

\* A letter, read with the clear words written for it, tells the change; only
\* a key without its word may take what was written for another letter.
LEMMA ReadChange ==
  ASSUME NEW w, NEW v \in View, NEW ch \in Changes, NEW key \in Words \cup {None},
         NEW rest \in Seq(Wire), Bare(ch, key) => rest = <<>>, Clear(ch, key)
  PROVE  ReadLetter(w, [add |-> ch.add, args |-> Param(ch, key) \o rest, v |-> v], ch.letter)
            = [add |-> ch.add, args |-> rest, v |-> Apply(w, v, ch)]
  <1> DEFINE x == ch.letter
             all == Param(ch, key) \o rest
             a == [add |-> ch.add, args |-> all, v |-> v]
             takes == /\ all # <<>>
                      /\ x \in Status \cup {"b", "k"} \cup (IF ch.add THEN {"l"} ELSE {})
             word == IF takes THEN Head(all) ELSE None
             left == IF takes THEN Tail(all) ELSE all
             heard ==
               CASE x = "b" -> [v EXCEPT !.bans = Noted(v, ch.add, @, word)]
                 [] x \in Status -> [v EXCEPT
                       !.ops = IF x = "o" THEN Put(ch.add, @, word) ELSE @,
                       !.own = IF word = w THEN Put(ch.add, @, x) ELSE @]
                 [] OTHER -> [v EXCEPT !.modes = Noted(v, ch.add, @, x)]
  <1>1. /\ ch.add \in BOOLEAN /\ x \notin {"+", "-"} /\ ch.arg \in Words \cup {None}
        /\ (x \in Status \cup {"b"} <=> ch.arg # None)
    BY DEF Changes
  <1>2. ReadLetter(w, a, x) = [add |-> ch.add, args |-> left, v |-> heard]
    BY <1>1 DEF ReadLetter
  <1>3. v = [names |-> v.names, ops |-> v.ops, own |-> v.own, topic |-> v.topic,
             asked |-> v.asked, modes |-> v.modes, bans |-> v.bans,
             misread |-> v.misread]
    BY DEF View
  <1>4. Words \subseteq Wire /\ "limit" \in Wire
    BY DEF Wire
  <1>5. <<>> \o rest = rest
    OBVIOUS
  <1>6. CASE x \in Status \cup {"b"}
    <2>1. Param(ch, key) = <<ch.arg>> /\ ch.arg \in Wire
      BY <1>1, <1>6, <1>4 DEF Param, Clear, Plain
    <2>2. all # <<>> /\ Head(all) = ch.arg /\ Tail(all) = rest
      BY <2>1, WordFirst
    <2> HIDE DEF all
    <2>3. takes
      BY <1>6, <2>2
    <2>4. word = ch.arg /\ left = rest
      BY <2>2, <2>3
    <2> HIDE DEF takes, word, left
    <2>5. heard = Apply(w, v, ch)
      <3>1. CASE x = "b"
        <4>1. x # "o" /\ x \notin Status
          BY <3>1 DEF Status
        <4>2. heard = [v EXCEPT !.bans = Noted(v, ch.add, v.bans, ch.arg)]
          BY <2>4, <3>1, <4>1
        <4> QED
          BY <1>3, <3>1, <4>1, <4>2 DEF Apply
      <3>2. CASE x \in Status
        <4>1. x # "b"
          BY <3>2 DEF Status
        <4> DEFINE o == IF x = "o" THEN Put(ch.add, v.ops, ch.arg) ELSE v.ops
                   m == IF ch.arg = w THEN Put(ch.add, v.own, x) ELSE v.own
        <4>2. heard = [v EXCEPT !.ops = o, !.own = m]
          BY <2>4, <3>2, <4>1
        <4>3. Apply(w, v, ch) = [names |-> v.names, ops |-> o, own |-> m, topic |-> v.topic,
                                 asked |-> v.asked, modes |-> v.modes, bans |-> v.bans,
                                 misread |-> v.misread]
          BY <3>2, <4>1 DEF Apply
        <4> HIDE DEF o, m, heard
        <4>4. /\ heard.ops = o /\ heard.own = m /\ heard.names = v.names
              /\ heard.topic = v.topic /\ heard.asked = v.asked
              /\ heard.modes = v.modes /\ heard.bans = v.bans
              /\ heard.misread = v.misread
          BY <4>2, <1>3
        <4>5. heard = [names |-> heard.names, ops |-> heard.ops, own |-> heard.own,
                       topic |-> heard.topic, asked |-> heard.asked,
                       modes |-> heard.modes, bans |-> heard.bans,
                       misread |-> heard.misread]
          BY <4>2, <1>3
        <4> QED
          BY <4>3, <4>4, <4>5
      <3> QED
        BY <1>6, <3>1, <3>2
    <2> HIDE DEF heard
    <2> QED
      BY <1>2, <2>4, <2>5 DEF all
  <1>7. CASE x \notin Status \cup {"b"}
    <2>1. ch.arg = None
      BY <1>1, <1>7
    <2>2. left = rest
      <3>1. CASE x = "k" /\ key # None
        <4>1. Param(ch, key) = <<key>> /\ key \in Wire
          BY <1>4, <2>1, <3>1 DEF Param, Clear, Plain
        <4>2. all # <<>> /\ Tail(all) = rest
          BY <4>1, WordFirst
        <4> HIDE DEF all
        <4> QED
          BY <3>1, <4>2
      <3>2. CASE x = "k" /\ key = None
        <4>1. Param(ch, key) = <<>>
          BY <2>1, <3>2 DEF Param
        <4>2. rest = <<>>
          BY <3>2 DEF Bare
        <4>3. all = <<>>
          BY <1>5, <4>1, <4>2
        <4> HIDE DEF all
        <4> QED
          BY <4>2, <4>3
      <3>3. CASE x = "l" /\ ch.add
        <4>1. Param(ch, key) = <<"limit">>
          BY <2>1, <3>3 DEF Param
        <4>2. all # <<>> /\ Tail(all) = rest
          BY <1>4, <4>1, WordFirst
        <4> HIDE DEF all
        <4> QED
          BY <3>3, <4>2
      <3>4. CASE x # "k" /\ ~(x = "l" /\ ch.add)
        <4>1. Param(ch, key) = <<>>
          BY <2>1, <3>4 DEF Param
        <4>2. all = rest
          BY <1>5, <4>1
        <4>3. ~takes
          <5> HIDE DEF all
          <5> QED
            BY <1>7, <3>4
        <4> HIDE DEF all, takes
        <4> QED
          BY <4>2, <4>3
      <3> QED
        BY <3>1, <3>2, <3>3, <3>4
    <2> HIDE DEF left, word
    <2>3. x # "o" /\ x \notin Status /\ x # "b"
      BY <1>7 DEF Status
    <2>4. heard = [v EXCEPT !.modes = Noted(v, ch.add, v.modes, x)]
      BY <1>3, <2>3
    <2>5. Apply(w, v, ch) = [names |-> v.names, ops |-> v.ops, own |-> v.own,
             topic |-> v.topic, asked |-> v.asked,
             modes |-> Noted(v, ch.add, v.modes, x), bans |-> v.bans,
             misread |-> v.misread]
      BY <2>3 DEF Apply
    <2>6. heard = Apply(w, v, ch)
      <3> HIDE DEF heard
      <3> QED
        BY <1>3, <2>4, <2>5
    <2> HIDE DEF heard
    <2> QED
      BY <1>2, <2>2, <2>6
  <1> QED
    BY <1>6, <1>7

\* The letters q can be read from b, and c after them.
ReadyFor(A, E, q, b, u, c) == q \in Seq(E) /\ b \in A /\ c \in E /\ ReadsOn(A, E, u)

\* One letter more is read after the others.
LEMMA ReadMore ==
  ASSUME NEW A, NEW E, NEW q, NEW b, NEW u, NEW c, ReadyFor(A, E, q, b, u, c)
  PROVE  /\ ReadLetters(b, q, u) \in A
         /\ ReadLetters(b, <<>>, u) = b
         /\ ReadLetters(b, Append(q, c), u) = ReadLetter(u, ReadLetters(b, q, u), c)
  <1> DEFINE n == Len(q)
             r == Append(q, c)
             m == Len(r)
             H == ReadAt(A, q, u)
             K == ReadAt(A, r, u)
  <1>1. q \in Seq(E) /\ b \in A /\ c \in E /\ ReadsOn(A, E, u)
    BY DEF ReadyFor
  <1>2. /\ n \in Nat /\ r \in Seq(E) /\ m \in Nat /\ m = n + 1 /\ r[m] = c
        /\ \A i \in 1..n : r[i] = q[i]
    <2>1. r \in Seq(E)
      BY <1>1, AppendProperties
    <2>2. m = n + 1
      BY <1>1, AppendProperties
    <2>3. r[n + 1] = c
      BY <1>1, AppendProperties
    <2>4. \A i \in 1..n : r[i] = q[i]
      BY <1>1, AppendProperties
    <2>5. n \in Nat /\ m \in Nat
      BY <1>1, <2>1, LenProperties
    <2> QED
      BY <2>1, <2>2, <2>3, <2>4, <2>5
  <1> HIDE DEF r
  <1>3. 1..n \subseteq 1..m /\ m \in 1..m
    BY <1>2, OneMore, SMTT(30)
  <1>4. FoldsTo(A, n, b, H, ReadLetters(b, q, u))
    BY <1>1, ReadFold
  <1>5. FoldsTo(A, m, b, K, ReadLetters(b, r, u))
    BY <1>1, <1>2, ReadFold
  <1>6. ReadLetters(b, q, u) \in A
    <2> HIDE DEF n, H
    <2> QED
      BY <1>4, FoldsWithin
  <1>7. ReadLetters(b, <<>>, u) = b
    <2> DEFINE e == <<>>
    <2>1. e \in Seq(E) /\ Len(e) = 0 /\ 1..0 = {}
      OBVIOUS
    <2> HIDE DEF e
    <2>2. FoldsTo(A, Len(e), b, ReadAt(A, e, u), ReadLetters(b, e, u))
      BY <1>1, <2>1, ReadFold
    <2>3. PICK k \in [SUBSET (1..Len(e)) -> A] :
             /\ Recursion(k, Len(e), b, ReadAt(A, e, u))
             /\ ReadLetters(b, e, u) = k[1..Len(e)]
      BY <2>2 DEF FoldsTo
    <2>4. k[{}] = b
      BY <2>3 DEF Recursion
    <2> QED
      BY <2>1, <2>3, <2>4 DEF e
  <1>8. PICK f \in [SUBSET (1..n) -> A] :
           Recursion(f, n, b, H) /\ ReadLetters(b, q, u) = f[1..n]
    BY <1>4 DEF FoldsTo
  <1>9. PICK h \in [SUBSET (1..m) -> A] :
           Recursion(h, m, b, K) /\ ReadLetters(b, r, u) = h[1..m]
    BY <1>5 DEF FoldsTo
  <1>10. \A a \in A, i \in 1..n : H[a, i] = K[a, i]
    BY <1>2, <1>3 DEF ReadAt
  <1>11. h[1..m] = K[f[1..n], m]
    <2>1. OneLonger(A, b, H, f, n, K, h, m)
      <3> HIDE DEF n, m, H, K
      <3> QED
        BY <1>1, <1>2, <1>8, <1>9, <1>10 DEF OneLonger
    <2> HIDE DEF n, m, H, K
    <2>2. TakesOneMore(f, n, K, h, m)
      BY <2>1, FoldMore
    <2> QED
      BY <2>2 DEF TakesOneMore
  <1>12. K[f[1..n], m] = ReadLetter(u, f[1..n], c)
    <2>1. f[1..n] \in A /\ m \in 1..Len(r)
      BY <1>3, <1>8
    <2> QED
      BY <1>2, <2>1 DEF ReadAt
  <1> QED
    BY <1>6, <1>7, <1>8, <1>9, <1>11, <1>12 DEF r

\* The beliefs F of w pass from v through the changes q.
Follows(F, w, v, q) ==
    /\ F[0] = v
    /\ \A j \in 0..Len(q) : F[j] \in View
    /\ \A j \in 1..Len(q) : F[j] = Apply(w, F[j - 1], q[j])

\* The words are clear, and only the last change may be a key without its word.
Legible(q, key) ==
    \A j \in 1..Len(q) : Clear(q[j], key) /\ (Bare(q[j], key) => j = Len(q))

\* What the reader of what was written knows.
Reads(p, rest, w, v0, v) ==
    LET r == ReadLetters([add |-> TRUE, args |-> p.args \o rest, v |-> v0], p.flags, w)
    IN  /\ r \in Readers(v0)
        /\ r.args = rest /\ r.v = v
        /\ p.sign # None => p.sign = Sign(r.add)

\* After nothing nothing is read.
LEMMA NothingReads ==
  ASSUME NEW w, NEW v0 \in View, NEW rest \in Seq(Wire)
  PROVE  Reads(NoLine, rest, w, v0, v0)
  <1> DEFINE b == [add |-> TRUE, args |-> rest, v |-> v0]
             A == Readers(v0)
             E == Sent
  <1>1. NoLine.args \o rest = rest /\ NoLine.flags = <<>> /\ NoLine.sign = None
    BY DEF NoLine
  <1>2. b \in A
    BY DEF Readers, Alike
  <1>3. ReadLetters(b, <<>>, w) = b
    <2>1. ReadsOn(A, E, w)
      BY ReadLetterKeeps
    <2>2. <<>> \in Seq(E) /\ "+" \in E
      BY DEF Sent
    <2>3. ReadyFor(A, E, <<>>, b, w, "+")
      BY <1>2, <2>1, <2>2 DEF ReadyFor
    <2> HIDE DEF A, b, E
    <2> QED
      BY <2>3, ReadMore
  <1>4. b.args = rest /\ b.v = v0
    OBVIOUS
  <1>5. b = [add |-> TRUE, args |-> NoLine.args \o rest, v |-> v0]
    BY <1>1
  <1> HIDE DEF b
  <1> QED
    BY <1>1, <1>2, <1>3, <1>4, <1>5 DEF Reads

\* One change more is read after the rest.
LEMMA OneReads ==
  ASSUME NEW w, NEW v0 \in View, NEW v \in View, NEW p \in Lines6,
         NEW ch \in Changes, NEW key \in Words \cup {None}, NEW rest \in Seq(Wire),
         Bare(ch, key) => rest = <<>>, Clear(ch, key),
         Reads(p, Param(ch, key) \o rest, w, v0, v)
  PROVE  Reads(Write(p, ch, key), rest, w, v0, Apply(w, v, ch))
  <1> DEFINE sign == Sign(ch.add)
             base == IF p.sign = sign THEN p.flags ELSE Append(p.flags, sign)
             more == Param(ch, key) \o rest
             b == [add |-> TRUE, args |-> p.args \o more, v |-> v0]
             A == Readers(v0)
             E == Sent
             r0 == ReadLetters(b, p.flags, w)
             r1 == ReadLetters(b, base, w)
             r2 == ReadLetters(b, Append(base, ch.letter), w)
             after == Apply(w, v, ch)
  <1>1. /\ p.args \in Seq(Wire) /\ p.flags \in Seq(E) /\ Param(ch, key) \in Seq(Wire)
        /\ ch.add \in BOOLEAN /\ ch.letter \in E /\ sign \in E
    BY ParamType DEF Lines6, Changes, Sent, Sign
  <1>2. more \in Seq(Wire)
    BY <1>1, ConcatProperties
  <1>3. b \in A
    <2> HIDE DEF more
    <2>1. p.args \o more \in Seq(Wire)
      BY <1>1, <1>2, ConcatProperties
    <2> QED
      BY <2>1 DEF Readers, Alike
  <1>4. ReadsOn(A, E, w)
    BY ReadLetterKeeps
  <1>5. r0 \in A /\ r0.args = more /\ r0.v = v /\ (p.sign # None => p.sign = Sign(r0.add))
    BY DEF Reads
  <1>6. r1 = [add |-> ch.add, args |-> more, v |-> v] /\ base \in Seq(E)
    <2>1. r0.add \in BOOLEAN /\ r0 = [add |-> r0.add, args |-> r0.args, v |-> r0.v]
      BY <1>5 DEF Readers
    <2>2. CASE p.sign = sign
      <3>1. r1 = r0 /\ base = p.flags
        BY <2>2
      <3>2. Sign(r0.add) = Sign(ch.add)
        BY <1>5, <2>2 DEF Sign, None
      <3>3. r0.add = ch.add
        BY <1>1, <2>1, <3>2 DEF Sign
      <3> HIDE DEF r0, r1, base
      <3> QED
        BY <1>1, <1>5, <2>1, <3>1, <3>3
    <2>3. CASE p.sign # sign
      <3>1. base = Append(p.flags, sign)
        BY <2>3
      <3>2. base \in Seq(E)
        <4> HIDE DEF sign, E
        <4> QED
          BY <1>1, <3>1, AppendProperties
      <3>3. r1 = ReadLetter(w, r0, sign)
        <4> HIDE DEF base, b, A, E, sign
        <4>1. ReadyFor(A, E, p.flags, b, w, sign)
          BY <1>1, <1>3, <1>4 DEF ReadyFor
        <4>2. ReadLetters(b, Append(p.flags, sign), w) = ReadLetter(w, r0, sign)
          BY <4>1, ReadMore
        <4> QED
          BY <3>1, <4>2
      <3> HIDE DEF r0, r1, more, base
      <3>4. ReadLetter(w, r0, sign) = [add |-> sign = "+", args |-> r0.args, v |-> r0.v]
        BY <2>1 DEF ReadLetter, Sign
      <3>5. (sign = "+") = ch.add
        BY <1>1 DEF Sign
      <3> QED
        BY <1>5, <3>2, <3>3, <3>4, <3>5
    <2> QED
      BY <2>2, <2>3
  <1>7. r2 = [add |-> ch.add, args |-> rest, v |-> after]
    <2>1. r2 = ReadLetter(w, r1, ch.letter)
      <3> HIDE DEF base, b, A, E
      <3>1. ReadyFor(A, E, base, b, w, ch.letter)
        BY <1>1, <1>3, <1>4, <1>6 DEF ReadyFor
      <3> QED
        BY <3>1, ReadMore
    <2> HIDE DEF r1, r2, base
    <2> QED
      BY <1>6, <2>1, ReadChange
  <1>8. r2 \in A
    <2>1. Append(base, ch.letter) \in Seq(E)
      <3> HIDE DEF base, E
      <3> QED
        BY <1>1, <1>6, AppendProperties
    <2> DEFINE all == Append(base, ch.letter)
    <2>2. ReadyFor(A, E, all, b, w, ch.letter)
      <3> HIDE DEF base, b, A, E
      <3> QED
        BY <1>1, <1>3, <1>4, <2>1 DEF ReadyFor
    <2> HIDE DEF all, b, A, E
    <2>3. ReadLetters(b, all, w) \in A
      BY <2>2, ReadMore
    <2> QED
      BY <2>3 DEF all
  <1>9. Write(p, ch, key) = [sign |-> sign, flags |-> Append(base, ch.letter),
                             args |-> p.args \o Param(ch, key)]
    BY DEF Write
  <1>10. (p.args \o Param(ch, key)) \o rest = p.args \o more
    <2> DEFINE s == p.args
               t == Param(ch, key)
    <2>1. s \in Seq(Wire) /\ t \in Seq(Wire)
      BY <1>1
    <2> HIDE DEF s, t
    <2>2. (s \o t) \o rest = s \o (t \o rest)
      BY <2>1, ConcatAssociative
    <2> QED
      BY <2>2 DEF s, t
  <1> DEFINE l == Write(p, ch, key)
  <1>11. l.sign = sign /\ l.flags = Append(base, ch.letter) /\ l.args \o rest = p.args \o more
    <2> DEFINE f == Append(base, ch.letter)
               t == p.args \o Param(ch, key)
    <2>1. l = [sign |-> sign, flags |-> f, args |-> t]
      BY <1>9
    <2> HIDE DEF l, f, t
    <2> QED
      BY ONLY <1>10, <2>1 DEF f, t
  <1>12. r2 = ReadLetters([add |-> TRUE, args |-> l.args \o rest, v |-> v0], l.flags, w)
    <2> HIDE DEF l, base, more
    <2> QED
      BY <1>11
  <1> HIDE DEF l, r2, sign, A, after
  <1>13. r2.args = rest /\ r2.v = after /\ r2.add = ch.add
    BY <1>7
  <1>14. Reads(l, rest, w, v0, after)
    BY <1>8, <1>11, <1>12, <1>13 DEF Reads, sign, A
  <1> QED
    BY <1>14 DEF l, after

\* G are the beliefs of w after each of the changes q, which can be written with key.
PieceOf(w, v0, q, key, G) ==
    /\ v0 \in View /\ q \in Seq(Changes) /\ key \in Words \cup {None}
    /\ Follows(G, w, v0, q) /\ Legible(q, key)

\* A piece reads as its changes, one after the other.
LEMMA PieceReads ==
  ASSUME NEW w, NEW v0, NEW q, NEW key, NEW G, PieceOf(w, v0, q, key, G)
  PROVE  Read(w, v0, Piece(q, key)) = G[Len(q)]
  <1> DEFINE m == Len(q)
             H == WriteAt(Lines6, q, key)
  <1>1. /\ v0 \in View /\ q \in Seq(Changes) /\ key \in Words \cup {None}
        /\ Follows(G, w, v0, q) /\ Legible(q, key)
    BY DEF PieceOf
  <1>2. m \in Nat /\ \A i \in 1..m : q[i] \in Changes
    BY <1>1
  <1>3. PICK W : Runs(W, m, Lines6, NoLine, H) /\ W[m] = Piece(q, key)
    <2>1. FoldsTo(Lines6, m, NoLine, H, Piece(q, key)) /\ NoLine \in Lines6
      BY <1>1, PieceFolds
    <2> HIDE DEF m, H
    <2> QED
      BY <1>2, <2>1, FoldRun
  <1>4. /\ W[0] = NoLine
        /\ \A i \in 0..m : W[i] \in Lines6
        /\ \A i \in 1..m : W[i] = Write(W[i - 1], q[i], key)
    <2>1. W \in [0..m -> Lines6] /\ W[0] = NoLine /\ \A i \in 1..m : W[i] = H[W[i - 1], i]
      <3> HIDE DEF m, H
      <3> QED
        BY <1>3 DEF Runs
    <2>2. ASSUME NEW i \in 1..m PROVE W[i] = Write(W[i - 1], q[i], key)
      <3>1. i - 1 \in 0..m
        BY <1>2
      <3>2. W[i - 1] \in Lines6
        BY <2>1, <3>1
      <3> QED
        BY <2>1, <3>2 DEF WriteAt
    <2> QED
      BY <2>1, <2>2
  <1> HIDE DEF H
  <1> DEFINE Claim(k) == \A rest \in Seq(Wire) :
                (k >= 1 /\ Bare(q[k], key) => rest = <<>>) => Reads(W[k], rest, w, v0, G[k])
             S == {k \in Nat : k =< m => Claim(k)}
  <1>5. 0 \in S
    <2>1. G[0] = v0
      BY <1>1 DEF Follows
    <2>2. Claim(0)
      BY <1>1, <1>4, <2>1, NothingReads
    <2> QED
      BY <2>2
  <1>6. ASSUME NEW k \in Nat, k \in S PROVE k + 1 \in S
    <2> SUFFICES ASSUME k + 1 =< m, NEW rest \in Seq(Wire),
                        Bare(q[k + 1], key) => rest = <<>>
                 PROVE  Reads(W[k + 1], rest, w, v0, G[k + 1])
      OBVIOUS
    <2> DEFINE ch == q[k + 1]
               more == Param(ch, key) \o rest
    <2>1. k + 1 \in 1..m /\ k \in 0..m /\ (k + 1) - 1 = k
      BY <1>2
    <2>2. ch \in Changes /\ W[k] \in Lines6 /\ W[k + 1] = Write(W[k], ch, key)
      BY <1>2, <1>4, <2>1
    <2>3. G[k] \in View /\ G[k + 1] = Apply(w, G[k], ch)
      BY <1>1, <2>1 DEF Follows
    <2>4. more \in Seq(Wire)
      <3>1. Param(ch, key) \in Seq(Wire)
        BY <1>1, <2>2, ParamType
      <3> QED
        BY <3>1, ConcatProperties
    <2>5. k >= 1 => ~Bare(q[k], key)
      BY <1>1, <1>2, <2>1 DEF Legible
    <2>6. Reads(W[k], more, w, v0, G[k])
      <3>1. Claim(k)
        BY <1>6, <2>1
      <3> HIDE DEF more
      <3> QED
        BY <2>4, <2>5, <3>1
    <2>7. Clear(ch, key)
      BY <1>1, <2>1 DEF Legible
    <2> HIDE DEF ch
    <2>8. Reads(Write(W[k], ch, key), rest, w, v0, Apply(w, G[k], ch))
      BY <1>1, <2>2, <2>3, <2>6, <2>7, OneReads DEF ch
    <2> QED
      BY <2>2, <2>3, <2>8
  <1>7. Claim(m)
    <2>1. m \in S
      <3> HIDE DEF S
      <3> QED
        BY <1>2, <1>5, <1>6, SetInduction
    <2> QED
      BY <1>2, <2>1
  <1>8. Reads(W[m], <<>>, w, v0, G[m])
    <2> DEFINE e == <<>>
    <2>1. e \in Seq(Wire)
      OBVIOUS
    <2>2. m >= 1 /\ Bare(q[m], key) => e = <<>>
      OBVIOUS
    <2> HIDE DEF e, m
    <2>3. Reads(W[m], e, w, v0, G[m])
      BY <1>7, <2>1, <2>2 DEF e
    <2> QED
      BY <2>3 DEF e
  <1> DEFINE p == Piece(q, key)
  <1>9. p \in Lines6 /\ p.args \in Seq(Wire)
    BY <1>1, PieceFolds DEF Lines6
  <1> HIDE DEF p
  <1>10. p.args \o <<>> = p.args
    BY <1>9, ConcatEmptySeq
  <1>11. Reads(p, <<>>, w, v0, G[m])
    BY <1>3, <1>8 DEF p
  <1>12. Read(w, v0, p) = G[m]
    <2> DEFINE b == [add |-> TRUE, args |-> p.args, v |-> v0]
    <2>1. Read(w, v0, p) = ReadLetters(b, p.flags, w).v
      BY DEF Read, ReadLetters
    <2>2. [add |-> TRUE, args |-> p.args \o <<>>, v |-> v0] = b
      BY <1>10
    <2> HIDE DEF b
    <2> QED
      BY <1>11, <2>1, <2>2 DEF Reads
  <1> QED
    BY <1>12 DEF p

\* The pieces together read as all changes.
LEMMA LinesRead ==
  ASSUME NEW w, NEW v0, NEW out, NEW key, NEW F, PieceOf(w, v0, out, key, F)
  PROVE  ReadLines(v0, Pieces(out, key), w) = F[Len(out)]
  <1> DEFINE n == Len(out)
             q == Pieces(out, key)
             A == Alike(v0)
             H == ReadLineAt(A, q, w)
             m == Count(out)
  <1>1. /\ v0 \in View /\ out \in Seq(Changes) /\ key \in Words \cup {None}
        /\ Follows(F, w, v0, out) /\ Legible(out, key)
    BY DEF PieceOf
  <1>2. n \in Nat /\ m \in Nat /\ q \in Seq(Lines6) /\ Len(q) = m
        /\ \A j \in 1..m : q[j] = Piece(Cut(out, j), key)
    BY <1>1, PiecesType
  <1>3. v0 \in A /\ \A v \in A : v \in View
    BY <1>1 DEF Alike
  <1>4. PICK P : Runs(P, m, A, v0, H) /\ P[m] = ReadLines(v0, q, w)
    <2> DEFINE E == Lines6
    <2>1. ReadsLines(A, E, w)
      BY <1>1, ReadKeeps
    <2> HIDE DEF q, A, E
    <2>2. FoldsTo(A, Len(q), v0, H, ReadLines(v0, q, w))
      BY <1>2, <1>3, <2>1, ReadLinesFold DEF E
    <2>3. FoldsTo(A, m, v0, H, ReadLines(v0, q, w))
      BY <1>2, <2>2
    <2> HIDE DEF m, H
    <2> QED
      BY <1>2, <1>3, <2>3, FoldRun
  <1>5. /\ P[0] = v0
        /\ \A j \in 0..m : P[j] \in View
        /\ \A j \in 1..m : P[j] = Read(w, P[j - 1], q[j])
    <2>1. P \in [0..m -> A] /\ P[0] = v0 /\ \A j \in 1..m : P[j] = H[P[j - 1], j]
      <3> HIDE DEF m, H, A
      <3> QED
        BY <1>4 DEF Runs
    <2>2. ASSUME NEW j \in 1..m PROVE P[j] = Read(w, P[j - 1], q[j])
      <3>1. j - 1 \in 0..m
        BY <1>2
      <3>2. P[j - 1] \in A /\ j \in 1..Len(q)
        BY <1>2, <2>1, <3>1
      <3> HIDE DEF A, m, q
      <3> QED
        BY <2>1, <3>2 DEF ReadLineAt
    <2> HIDE DEF A
    <2> QED
      BY <1>3, <2>1, <2>2
  <1> HIDE DEF H, A
  <1> DEFINE Upto(j) == IF j * 6 < n THEN j * 6 ELSE n
             S == {j \in Nat : j =< m => P[j] = F[Upto(j)]}
  <1>6. 0 \in S
    <2>1. Upto(0) = 0
      BY <1>2
    <2>2. F[0] = v0
      BY <1>1 DEF Follows
    <2> QED
      BY <1>5, <2>1, <2>2
  <1>7. ASSUME NEW j \in Nat, j \in S PROVE j + 1 \in S
    <2> SUFFICES ASSUME j + 1 =< m PROVE P[j + 1] = F[Upto(j + 1)]
      OBVIOUS
    <2> DEFINE i == j + 1
               c == Cut(out, i)
               lo == Lo(i)
               hi == Hi(out, i)
               G == [k \in 0..Len(c) |-> F[lo + k]]
    <2>1. i \in 1..m /\ j \in 0..m /\ i - 1 = j
      BY <1>2
    <2>2. /\ c \in Seq(Changes)
          /\ lo \in Nat /\ hi \in Nat /\ lo < hi /\ hi =< n
          /\ Len(c) = hi - lo
          /\ \A k \in 1..Len(c) : c[k] = out[lo + k]
      <3>1. CutOf(Changes, out, i, c)
        <4> HIDE DEF i, c
        <4> QED
          BY <1>1, <2>1, CutFacts DEF c
      <3> HIDE DEF c, i
      <3> QED
        BY <3>1 DEF CutOf
    <2>3. Upto(j) = lo /\ Upto(i) = hi
      BY <1>2, <2>2 DEF Lo, Hi
    <2>4. P[j] = F[lo] /\ P[j] \in View
      BY <1>5, <1>7, <2>1, <2>3
    <2> HIDE DEF c, lo, hi, i
    <2>5. \A k \in 0..Len(c) : lo + k \in 0..n
      BY <1>2, <2>2
    <2>6. \A k \in 1..Len(c) : lo + k \in 1..n /\ k - 1 \in 0..Len(c) /\ (lo + k) - 1 = lo + (k - 1)
      BY <1>2, <2>2
    <2>7. /\ \A k \in 0..n : F[k] \in View
          /\ \A k \in 1..n : F[k] = Apply(w, F[k - 1], out[k])
      BY <1>1 DEF Follows
    <2> HIDE DEF n
    <2>8. Follows(G, w, P[j], c)
      <3>1. Len(c) \in Nat /\ 0 \in 0..Len(c)
        BY <2>2
      <3>2. G[0] = P[j]
        <4>1. lo + 0 = lo
          BY <2>2
        <4> QED
          BY <2>4, <3>1, <4>1
      <3>3. \A k \in 0..Len(c) : G[k] \in View
        BY <2>5, <2>7
      <3>4. ASSUME NEW k \in 1..Len(c) PROVE G[k] = Apply(w, G[k - 1], c[k])
        <4>1. k \in 0..Len(c)
          BY <3>1
        <4>2. G[k] = F[lo + k] /\ G[k - 1] = F[lo + (k - 1)]
          BY <2>6, <4>1
        <4>3. F[lo + k] = Apply(w, F[(lo + k) - 1], out[lo + k])
          BY <2>6, <2>7
        <4> QED
          BY <2>2, <2>6, <4>2, <4>3
      <3> HIDE DEF G
      <3> QED
        BY <3>2, <3>3, <3>4 DEF Follows
    <2>9. Legible(c, key)
      <3> SUFFICES ASSUME NEW k \in 1..Len(c)
                   PROVE  Clear(c[k], key) /\ (Bare(c[k], key) => k = Len(c))
        BY DEF Legible
      <3>1. c[k] = out[lo + k] /\ lo + k \in 1..n
        BY <2>2, <2>6
      <3>2. Clear(out[lo + k], key) /\ (Bare(out[lo + k], key) => lo + k = n)
        BY <1>1, <3>1 DEF Legible, n
      <3> QED
        BY <1>2, <2>2, <3>1, <3>2
    <2>10. PieceOf(w, P[j], c, key, G)
      <3> HIDE DEF G
      <3> QED
        BY <1>1, <2>2, <2>4, <2>8, <2>9 DEF PieceOf
    <2>11. Read(w, P[j], Piece(c, key)) = G[Len(c)]
      <3> HIDE DEF G
      <3> QED
        BY <2>10, PieceReads
    <2>12. P[i] = Read(w, P[j], Piece(c, key))
      BY <1>2, <1>5, <2>1 DEF c
    <2>13. G[Len(c)] = F[hi]
      <3>1. Len(c) \in 0..Len(c) /\ lo + Len(c) = hi
        BY <2>2
      <3> QED
        BY <3>1
    <2>14. P[i] = F[Upto(i)]
      <3> HIDE DEF G, Upto
      <3> QED
        BY <2>3, <2>11, <2>12, <2>13
    <2> QED
      BY <2>14 DEF i
  <1>8. P[m] = F[Upto(m)]
    <2>1. m \in S
      <3> HIDE DEF S
      <3> QED
        BY <1>2, <1>6, <1>7, SetInduction
    <2> QED
      BY <1>2, <2>1
  <1>9. Upto(m) = n
    BY <1>2 DEF Count, PieceLen
  <1> QED
    BY <1>4, <1>8, <1>9

\* Beliefs can follow any changes.
LEMMA FollowExists ==
  ASSUME NEW w, NEW v0 \in View, NEW q \in Seq(Changes)
  PROVE  \E F : Follows(F, w, v0, q)
  <1> DEFINE n == Len(q)
             Upto(F, m) == /\ F \in [0..m -> View]
                           /\ F[0] = v0
                           /\ \A j \in 1..m : F[j] = Apply(w, F[j - 1], q[j])
             S == {m \in Nat : m =< n => \E F : Upto(F, m)}
  <1>1. n \in Nat /\ \A i \in 1..n : q[i] \in Changes
    OBVIOUS
  <1>2. 0 \in S
    <2> DEFINE F == [i \in 0..0 |-> v0]
    <2>1. Upto(F, 0)
      OBVIOUS
    <2> QED
      BY <2>1
  <1>3. ASSUME NEW m \in Nat, m \in S PROVE m + 1 \in S
    <2> SUFFICES ASSUME m + 1 =< n PROVE \E F : Upto(F, m + 1)
      OBVIOUS
    <2>1. PICK F : Upto(F, m)
      BY <1>1, <1>3
    <2> DEFINE last == Apply(w, F[m], q[m + 1])
               G == [i \in 0..(m + 1) |-> IF i = m + 1 THEN last ELSE F[i]]
    <2>2. last \in View
      <3>1. F[m] \in View /\ q[m + 1] \in Changes
        BY <1>1, <2>1
      <3> QED
        BY <3>1, ApplyType
    <2>3. G \in [0..(m + 1) -> View]
      <3> HIDE DEF last
      <3> QED
        BY <2>1, <2>2
    <2>4. G[0] = v0
      BY <2>1
    <2>5. ASSUME NEW j \in 1..(m + 1) PROVE G[j] = Apply(w, G[j - 1], q[j])
      <3>1. CASE j = m + 1
        <4>1. G[j] = last /\ j - 1 = m /\ G[j - 1] = F[m]
          BY <3>1
        <4> QED
          BY <3>1, <4>1
      <3>2. CASE j # m + 1
        <4>1. j \in 1..m /\ j \in 0..(m + 1) /\ j - 1 \in 0..(m + 1) /\ j - 1 # m + 1
          BY <3>2
        <4>2. G[j] = F[j] /\ G[j - 1] = F[j - 1]
          BY <3>2, <4>1
        <4> QED
          BY <2>1, <4>1, <4>2
      <3> QED
        BY <3>1, <3>2
    <2> HIDE DEF G
    <2> QED
      BY <2>3, <2>4, <2>5
  <1>4. PICK F : Upto(F, n)
    <2>1. n \in S
      <3> HIDE DEF S
      <3> QED
        BY <1>1, <1>2, <1>3, SetInduction
    <2> QED
      BY <1>1, <2>1
  <1>5. Follows(F, w, v0, q)
    BY <1>4 DEF Follows
  <1> QED
    BY <1>5

-----------------------------------------------------------------------------
(* A line makes of the beliefs what it makes of the channel *)

\* What w knows of a channel while a line is parsed.
Knows(w, v, a) ==
    /\ v.ops = {x \in DOMAIN a.status : "o" \in a.status[x]}
    /\ v.own = a.status[w]
    /\ v.asked => /\ v.modes = {x \in DOMAIN Table : Table[x] \in a.modes}
                  /\ v.bans = a.bans

\* The change ch leads from a, which w knows, to b.
Moved(D, w, v, a, ch, b) ==
    /\ w \in D /\ a \in Parsing(D) /\ b \in Parsing(D) /\ ch \in Changes /\ v \in View
    /\ Does(a, ch, b) /\ Knows(w, v, a)

\* Who knows the channel and hears of a change knows it after the change.
LEMMA ApplyKnows ==
  ASSUME NEW D, NEW w, NEW v, NEW a, NEW ch, NEW b, Moved(D, w, v, a, ch, b)
  PROVE  Knows(w, Apply(w, v, ch), b)
  <1> DEFINE x == ch.letter
             n == Apply(w, v, ch)
  <1>1. /\ w \in D /\ a \in Parsing(D) /\ b \in Parsing(D) /\ ch \in Changes /\ v \in View
        /\ Does(a, ch, b) /\ Knows(w, v, a)
    BY DEF Moved
  <1>2. /\ DOMAIN a.status = D /\ DOMAIN b.status = D
        /\ ch.add \in BOOLEAN /\ x \in DOMAIN Table
    BY <1>1, ParsingFields DEF Changes
  <1>3. \A y \in D : b.status[y] = IF x \in Status /\ y = ch.arg
                                     THEN Put(ch.add, a.status[y], x) ELSE a.status[y]
    BY <1>1, <1>2 DEF Does
  <1>4. /\ n.ops = IF x = "o" THEN Put(ch.add, v.ops, ch.arg) ELSE v.ops
        /\ n.own = IF x \in Status /\ ch.arg = w THEN Put(ch.add, v.own, x) ELSE v.own
        /\ n.modes = IF x \in Status \cup {"b"} THEN v.modes ELSE Noted(v, ch.add, v.modes, x)
        /\ n.bans = IF x = "b" THEN Noted(v, ch.add, v.bans, ch.arg) ELSE v.bans
        /\ n.asked = v.asked
    BY DEF Apply
  <1> HIDE DEF n
  <1>5. n.ops = {y \in DOMAIN b.status : "o" \in b.status[y]}
    <2>1. v.ops = {y \in D : "o" \in a.status[y]}
      BY <1>1, <1>2 DEF Knows
    <2>2. CASE x = "o"
      <3>1. ch.arg \in D /\ x \in Status
        BY <1>1, <1>2, <2>2 DEF Does, Status
      <3>2. n.ops = Put(ch.add, v.ops, ch.arg)
        BY <1>4, <2>2
      <3>3. \A y \in D : "o" \in b.status[y] <=>
               IF y = ch.arg THEN ch.add ELSE "o" \in a.status[y]
        BY <1>2, <1>3, <2>2, <3>1 DEF Put
      <3> QED
        BY <1>2, <2>1, <3>1, <3>2, <3>3 DEF Put
    <2>3. CASE x # "o"
      <3>1. \A y \in D : "o" \in b.status[y] <=> "o" \in a.status[y]
        BY <1>2, <1>3, <2>3 DEF Put
      <3> QED
        BY <1>2, <1>4, <2>1, <2>3, <3>1
    <2> QED
      BY <2>2, <2>3
  <1>6. n.own = b.status[w]
    BY <1>1, <1>3, <1>4 DEF Knows
  <1>7. ASSUME n.asked PROVE n.modes = {y \in DOMAIN Table : Table[y] \in b.modes}
    <2>1. v.asked /\ v.modes = {y \in DOMAIN Table : Table[y] \in a.modes}
      BY <1>1, <1>4, <1>7 DEF Knows
    <2>2. CASE x \in Status \cup {"b"}
      BY <1>1, <1>4, <2>1, <2>2 DEF Does
    <2>3. CASE x \notin Status \cup {"b"}
      <3>1. n.modes = Put(ch.add, v.modes, x) /\ b.modes = Put(ch.add, a.modes, Table[x])
        BY <1>1, <1>4, <2>1, <2>3 DEF Does, Noted
      <3>2. \A y, z \in DOMAIN Table : Table[y] = Table[z] => y = z
        BY TableType DEF Tables
      <3> QED
        BY <1>2, <2>1, <3>1, <3>2 DEF Put
    <2> QED
      BY <2>2, <2>3
  <1>8. ASSUME n.asked PROVE n.bans = b.bans
    BY <1>1, <1>4, <1>8 DEF Knows, Does, Noted
  <1> QED
    BY <1>5, <1>6, <1>7, <1>8 DEF Knows, n

\* What a line passes through from the state b.
Passes(p, D, b, u, line) ==
    /\ p[0] = b
    /\ \A i \in 0..Len(line.flags) : p[i] \in Parsing(D)
    /\ \A i \in 1..Len(line.flags) : p[i] = Letter(u, line.args, p[i - 1], line.flags[i])

\* A line passes, letter by letter, from the state it starts from to its result.
LEMMA ParsePasses ==
  ASSUME NEW D, NEW b \in Parsing(D), NEW u, NEW line \in Lines
  PROVE  \E p : /\ Passes(p, D, b, u, line)
                /\ p[Len(line.flags)] = Parsed(b, line.flags, u, line.args)
  <1> DEFINE q == line.flags
             n == Len(q)
             E == Range(q)
             A == Parsing(D)
             args == line.args
             H == ParseAt(A, q, u, args)
             r == Parsed(b, q, u, args)
  <1>1. q \in Seq(E) /\ args \in Seq(Words) /\ n \in Nat /\ b \in A
    BY TalkParams
  <1>2. ParsesOn(A, E, u, args)
    BY <1>1, LetterListed DEF ParsesOn
  <1>3. FoldsTo(A, n, b, H, r)
    <2> HIDE DEF A, E, q, args
    <2> QED
      BY <1>1, <1>2, ParseFold
  <1>4. PICK p : Runs(p, n, A, b, H) /\ p[n] = r
    <2> HIDE DEF A, n, H, r
    <2> QED
      BY <1>1, <1>3, FoldRun
  <1>5. p \in [0..n -> A] /\ p[0] = b /\ \A i \in 1..n : p[i] = H[p[i - 1], i]
    <2> HIDE DEF A, n, H
    <2> QED
      BY <1>4 DEF Runs
  <1>6. ASSUME NEW i \in 1..n PROVE p[i] = Letter(u, args, p[i - 1], q[i])
    <2>1. i - 1 \in 0..n
      BY <1>1
    <2>2. p[i - 1] \in A
      BY <1>5, <2>1
    <2> HIDE DEF A
    <2> QED
      BY <1>5, <2>2 DEF ParseAt
  <1>7. Passes(p, D, b, u, line)
    BY <1>5, <1>6 DEF Passes
  <1> QED
    BY <1>4, <1>7

\* Beliefs that follow the list agree with the channel after every letter.
Agrees(p, w, v0, i) ==
    \A F : Follows(F, w, v0, p[i].out) => Knows(w, F[Len(p[i].out)], p[i])

\* A line that w, who knows the channel, hears of.
Parses(p, D, b, u, line, w, v0) ==
    /\ b \in Parsing(D) /\ b.out = <<>> /\ line \in Lines /\ Passes(p, D, b, u, line)
    /\ w \in D /\ v0 \in View /\ Knows(w, v0, b)

\* By induction over the letters: the list tells what the letters did.
LEMMA ParseKnows ==
  ASSUME NEW p, NEW D, NEW b, NEW u, NEW line, NEW w, NEW v0,
         Parses(p, D, b, u, line, w, v0)
  PROVE  Agrees(p, w, v0, Len(line.flags))
  <1> DEFINE n == Len(line.flags)
             S == {i \in Nat : i =< n => Agrees(p, w, v0, i)}
  <1>1. /\ b \in Parsing(D) /\ b.out = <<>> /\ w \in D /\ v0 \in View /\ Knows(w, v0, b)
        /\ n \in Nat /\ line.args \in Seq(Words)
        /\ p[0] = b
        /\ \A i \in 0..n : p[i] \in Parsing(D)
        /\ \A i \in 1..n : p[i] = Letter(u, line.args, p[i - 1], line.flags[i])
    BY TalkParams DEF Parses, Passes
  <1> HIDE DEF n
  <1>2. 0 \in S
    <2> SUFFICES ASSUME NEW F, Follows(F, w, v0, p[0].out)
                 PROVE  Knows(w, F[Len(p[0].out)], p[0])
      BY DEF Agrees
    <2>1. F[0] = v0 /\ Len(p[0].out) = 0
      BY <1>1 DEF Follows
    <2> QED
      BY <1>1, <2>1
  <1>3. ASSUME NEW i \in Nat, i \in S PROVE i + 1 \in S
    <2> SUFFICES ASSUME i + 1 =< n, NEW F, Follows(F, w, v0, p[i + 1].out)
                 PROVE  Knows(w, F[Len(p[i + 1].out)], p[i + 1])
      BY DEF Agrees
    <2> DEFINE a == p[i]
               x == line.flags[i + 1]
               c == p[i + 1]
    <2>1. i \in 0..n /\ i + 1 \in 1..n /\ i + 1 \in 0..n /\ (i + 1) - 1 = i
      BY <1>1
    <2>2. a \in Parsing(D) /\ c \in Parsing(D) /\ c = Letter(u, line.args, a, x)
      BY <1>1, <2>1
    <2>3. Listed(a, c, x)
      BY <1>1, <2>2, LetterListed
    <2>4. a.out \in Seq(Changes)
      BY <2>2, ParsingFields
    <2>5. Agrees(p, w, v0, i)
      BY <1>3, <2>1
    <2> HIDE DEF a, c, x
    <2>6. CASE /\ c.out = a.out /\ c.status = a.status /\ c.modes = a.modes /\ c.bans = a.bans
      <3>1. Follows(F, w, v0, a.out) /\ Len(c.out) = Len(a.out)
        BY <2>6 DEF c
      <3>2. Knows(w, F[Len(a.out)], a)
        BY <2>5, <3>1 DEF Agrees, a
      <3>3. Knows(w, F[Len(c.out)], c)
        BY <2>6, <3>1, <3>2 DEF Knows
      <3> QED
        BY <3>3 DEF c
    <2>7. CASE \E ch \in Changes :
                  ch.letter = x /\ c.out = Append(a.out, ch) /\ Does(a, ch, c)
      <3>1. PICK ch \in Changes :
                  ch.letter = x /\ c.out = Append(a.out, ch) /\ Does(a, ch, c)
        BY <2>7
      <3> DEFINE q == a.out
                 r == Append(q, ch)
                 m == Len(q)
      <3>2. /\ m \in Nat /\ Len(r) = m + 1 /\ r[m + 1] = ch
            /\ \A j \in 1..m : r[j] = q[j]
        <4>1. Len(r) = m + 1
          BY <2>4, <3>1, AppendProperties
        <4>2. r[m + 1] = ch
          BY <2>4, <3>1, AppendProperties
        <4>3. \A j \in 1..m : r[j] = q[j]
          BY <2>4, <3>1, AppendProperties
        <4>4. m \in Nat
          BY <2>4
        <4> QED
          BY <4>1, <4>2, <4>3, <4>4
      <3>3. Follows(F, w, v0, r)
        BY <3>1 DEF c
      <3>4. c.out = r
        BY <3>1
      <3> HIDE DEF r, m, q
      <3>5. /\ F[0] = v0
            /\ \A j \in 0..(m + 1) : F[j] \in View
            /\ \A j \in 1..(m + 1) : F[j] = Apply(w, F[j - 1], r[j])
        BY <3>2, <3>3 DEF Follows
      <3>6. /\ 0..m \subseteq 0..(m + 1) /\ 1..m \subseteq 1..(m + 1)
            /\ m \in 0..m /\ m + 1 \in 1..(m + 1) /\ (m + 1) - 1 = m
        BY <3>2
      <3>7. Follows(F, w, v0, q)
        <4>1. \A j \in 1..m : F[j] = Apply(w, F[j - 1], q[j])
          BY <3>2, <3>5, <3>6
        <4> QED
          BY <3>5, <3>6, <4>1 DEF Follows, m
      <3>8. Knows(w, F[m], a)
        BY <2>5, <3>7 DEF Agrees, a, q, m
      <3>9. F[m + 1] = Apply(w, F[m], ch) /\ F[m] \in View
        BY <3>2, <3>5, <3>6
      <3>10. Moved(D, w, F[m], a, ch, c)
        BY <1>1, <2>2, <3>1, <3>8, <3>9 DEF Moved
      <3>11. Knows(w, Apply(w, F[m], ch), c)
        BY <3>10, ApplyKnows
      <3>12. Knows(w, F[Len(c.out)], c)
        BY <3>2, <3>4, <3>9, <3>11
      <3> QED
        BY <3>12 DEF c
    <2> QED
      BY <2>3, <2>6, <2>7 DEF Listed
  <1>4. n \in S
    <2> HIDE DEF S
    <2> QED
      BY <1>1, <1>2, <1>3, SetInduction
  <1> QED
    BY <1>1, <1>4 DEF n

-----------------------------------------------------------------------------
(* The invariant *)

\* Members and their flags.
Rolls == UNION {[S -> SUBSET Status] : S \in SUBSET Users}

Types ==
    /\ oper \subseteq Users /\ invisible \subseteq Users
    /\ status \in [Chans -> Rolls]
    /\ modes \in [Chans -> SUBSET Bits]
    /\ bans \in [Chans -> SUBSET Words]
    /\ topic \in [Chans -> Topics \cup {NoTopic}]
    /\ view \in [Users -> [Chans -> View]]

\* The beliefs v of the member w of c are right in what lines name openly.
Right(c, w, v) == v.names = Members(c) /\ v.topic = topic[c]

\* ... and in what is written in letters and signs.
Exact(c, w, v) ==
    /\ v.ops = NamedOps(c)
    /\ v.own = status[c][w]
    /\ v.asked => v.modes = Modestr(c) /\ v.bans = bans[c]

Believed(c, w) ==
    /\ Right(c, w, view[w][c])
    /\ ~view[w][c].misread => Exact(c, w, view[w][c])

IInv == Types /\ \A c \in Chans : \A w \in Members(c) : Believed(c, w)

\* A roll names users, each with some of the flags.
LEMMA RollFields ==
  ASSUME Types, NEW c \in Chans
  PROVE  /\ Members(c) \subseteq Users
         /\ status[c] \in [Members(c) -> SUBSET Status]
         /\ modes[c] \in SUBSET Bits
         /\ bans[c] \in SUBSET Words
         /\ topic[c] \in Topics \cup {NoTopic}
         /\ \A w \in Users : view[w][c] \in View
  <1>1. status[c] \in Rolls
    BY DEF Types
  <1>2. PICK S \in SUBSET Users : status[c] \in [S -> SUBSET Status]
    BY <1>1 DEF Rolls
  <1>3. Members(c) = S
    BY <1>2 DEF Members
  <1> QED
    BY <1>2, <1>3 DEF Types

\* A channel and the beliefs of a member that a step leaves as they are.
LEMMA Unmoved ==
  ASSUME NEW c \in Chans, NEW w, Believed(c, w),
         status'[c] = status[c], modes'[c] = modes[c], bans'[c] = bans[c],
         topic'[c] = topic[c], view'[w][c] = view[w][c]
  PROVE  Believed(c, w)'
  BY DEF Believed, Right, Exact, Members, NamedOps, Modestr, Has

\* The views after a broadcast.
LEMMA ToldViews ==
  ASSUME Types, NEW c \in Chans, NEW X, NEW now,
         \A w \in Members(c) \ X : now[w] \in View
  PROVE  /\ Told(c, X, now) \in [Users -> [Chans -> View]]
         /\ \A w \in Users, d \in Chans :
               Told(c, X, now)[w][d] = IF d = c /\ w \in Members(c) \ X THEN now[w]
                                       ELSE view[w][d]
  <1>1. view \in [Users -> [Chans -> View]]
    BY DEF Types
  <1>2. \A w \in Users : view[w] \in [Chans -> View]
    BY <1>1
  <1>3. ASSUME NEW w \in Users
        PROVE  /\ Told(c, X, now)[w] \in [Chans -> View]
               /\ \A d \in Chans :
                     Told(c, X, now)[w][d] = IF d = c /\ w \in Members(c) \ X THEN now[w]
                                             ELSE view[w][d]
    <2>1. CASE w \in Members(c) \ X
      <3>1. Told(c, X, now)[w] = [view[w] EXCEPT ![c] = now[w]]
        BY <2>1 DEF Told
      <3>2. now[w] \in View
        BY <2>1
      <3> QED
        BY <1>2, <2>1, <3>1, <3>2
    <2>2. CASE w \notin Members(c) \ X
      <3>1. Told(c, X, now)[w] = view[w]
        BY <2>2 DEF Told
      <3> QED
        BY <1>2, <2>2, <3>1
    <2> QED
      BY <2>1, <2>2
  <1>4. Told(c, X, now) = [w \in Users |-> Told(c, X, now)[w]]
    BY DEF Told
  <1>5. Told(c, X, now) \in [Users -> [Chans -> View]]
    <2> DEFINE t == Told(c, X, now)
    <2>1. \A w \in Users : t[w] \in [Chans -> View]
      BY <1>3
    <2>2. t = [w \in Users |-> t[w]]
      BY <1>4
    <2> HIDE DEF t
    <2>3. t \in [Users -> [Chans -> View]]
      BY <2>1, <2>2
    <2> QED
      BY <2>3 DEF t
  <1> QED
    BY <1>3, <1>5

-----------------------------------------------------------------------------
(* A mode line *)

\* A line is parsed from the state of its channel.
LEMMA LineParsed ==
  ASSUME Types, NEW u, NEW c \in Chans, NEW line \in Lines
  PROVE  \E b \in Parsing(Members(c)) : \E p :
            /\ b.add = TRUE /\ b.out = <<>> /\ b.status = status[c]
            /\ b.modes = modes[c] /\ b.bans = bans[c]
            /\ Passes(p, Members(c), b, u, line)
            /\ ParseLine(u, c, line) = p[Len(line.flags)]
            /\ ParseLine(u, c, line) \in Parsing(Members(c))
  <1> DEFINE b == [add |-> TRUE, par |-> 1, key |-> None, status |-> status[c],
                   modes |-> modes[c], bans |-> bans[c], out |-> <<>>]
             D == Members(c)
             n == Len(line.flags)
  <1>1. /\ status[c] \in [D -> SUBSET Status] /\ modes[c] \in SUBSET Bits
        /\ bans[c] \in SUBSET Words
    BY RollFields
  <1>2. b \in Parsing(D)
    <2>1. <<>> \in Seq(Changes)
      OBVIOUS
    <2> QED
      BY <1>1, <2>1 DEF Parsing
  <1>3. ParseLine(u, c, line) = Parsed(b, line.flags, u, line.args)
    BY DEF ParseLine, Parsed
  <1>4. /\ b.add = TRUE /\ b.out = <<>> /\ b.status = status[c]
        /\ b.modes = modes[c] /\ b.bans = bans[c]
    OBVIOUS
  <1> HIDE DEF b
  <1>5. PICK p : /\ Passes(p, D, b, u, line)
                 /\ p[n] = Parsed(b, line.flags, u, line.args)
    <2> HIDE DEF D
    <2> QED
      BY <1>2, ParsePasses
  <1>6. p[n] \in Parsing(D)
    <2>1. n \in Nat
      BY TalkParams
    <2> QED
      BY <1>5, <2>1 DEF Passes
  <1> QED
    BY <1>2, <1>3, <1>4, <1>5, <1>6

\* What the member w believes after the line.
Heard(w, c, a) == ReadLines(view[w][c], Pieces(a.out, a.key), w)

\* What is not garbled is legible.
LEMMA NotGarbled ==
  ASSUME NEW q \in Seq(Changes), NEW key, ~Garbled(q, key)
  PROVE  Legible(q, key)
  <1>1. Len(q) \in Nat /\ DOMAIN q = 1..Len(q)
    OBVIOUS
  <1> SUFFICES ASSUME NEW j \in 1..Len(q)
               PROVE  Clear(q[j], key) /\ (Bare(q[j], key) => j = Len(q))
    BY DEF Legible
  <1>2. ~ LET ch == q[j]
          IN  \/ ch.arg # None /\ ~Plain(ch.arg)
              \/ ch.letter = "k" /\ IF key = None THEN j < Len(q) ELSE ~Plain(key)
    BY <1>1 DEF Garbled
  <1>3. Clear(q[j], key)
    BY <1>2 DEF Clear
  <1>4. Bare(q[j], key) => ~(j < Len(q))
    BY <1>2 DEF Bare
  <1>5. j < Len(q) \/ j = Len(q)
    <2> DEFINE n == Len(q)
    <2>1. n \in Nat /\ j \in 1..n
      BY <1>1
    <2> HIDE DEF n
    <2>2. j < n \/ j = n
      BY ONLY <2>1
    <2> QED
      BY <2>2 DEF n
  <1> QED
    BY <1>3, <1>4, <1>5

\* A line that is not garbled tells each member what it did.
LEMMA LineTells ==
  ASSUME IInv, NEW u, NEW c \in Chans, NEW line \in Lines, NEW w \in Members(c)
  PROVE  /\ Heard(w, c, ParseLine(u, c, line)) \in Alike(view[w][c])
         /\ ~view[w][c].misread
            /\ ~Garbled(ParseLine(u, c, line).out, ParseLine(u, c, line).key) =>
               Knows(w, Heard(w, c, ParseLine(u, c, line)), ParseLine(u, c, line))
  <1> DEFINE D == Members(c)
             n == Len(line.flags)
             a == ParseLine(u, c, line)
             v == view[w][c]
             q == Pieces(a.out, a.key)
             A == Alike(v)
  <1>1. PICK b \in Parsing(D) : \E p :
            /\ b.add = TRUE /\ b.out = <<>> /\ b.status = status[c]
            /\ b.modes = modes[c] /\ b.bans = bans[c]
            /\ Passes(p, D, b, u, line)
            /\ a = p[n] /\ a \in Parsing(D)
    BY LineParsed DEF IInv
  <1>2. PICK p : /\ Passes(p, D, b, u, line)
                 /\ a = p[n] /\ a \in Parsing(D)
    BY <1>1
  <1>3. b.add = TRUE /\ b.out = <<>>
    BY <1>1
  <1>4. b.status = status[c] /\ b.modes = modes[c] /\ b.bans = bans[c]
    BY <1>1
  <1>5. v \in View /\ Believed(c, w)
    BY RollFields DEF IInv
  <1>6. a.out \in Seq(Changes) /\ a.key \in Words \cup {None}
    BY <1>2, ParsingFields
  <1>7. q \in Seq(Lines6)
    <2> HIDE DEF a
    <2> QED
      BY <1>6, PiecesType
  <1>8. v \in A
    BY <1>5 DEF Alike
  <1>9. Heard(w, c, a) = ReadLines(v, q, w)
    BY DEF Heard
  <1>10. ReadLines(v, q, w) \in A
    <2> DEFINE E == Lines6
    <2>1. ReadsLines(A, E, w)
      <3> HIDE DEF v
      <3> QED
        BY <1>5, ReadKeeps
    <2> HIDE DEF q, A, E, v
    <2>2. FoldsTo(A, Len(q), v, ReadLineAt(A, q, w), ReadLines(v, q, w))
      BY <1>7, <1>8, <2>1, ReadLinesFold DEF E
    <2> QED
      BY <2>2, FoldsWithin
  <1>11. ASSUME ~v.misread, ~Garbled(a.out, a.key) PROVE Knows(w, ReadLines(v, q, w), a)
    <2>1. Exact(c, w, v)
      BY <1>5, <1>11 DEF Believed
    <2>2. Knows(w, v, b)
      BY <1>4, <2>1 DEF Exact, Knows, NamedOps, Members, Modestr, Has, IsSet
    <2> HIDE DEF D, a, v
    <2>4. Legible(a.out, a.key)
      BY <1>6, <1>11, NotGarbled
    <2>5. PICK F : Follows(F, w, v, a.out)
      BY <1>5, <1>6, FollowExists
    <2>6. Parses(p, D, b, u, line, w, v)
      BY <1>2, <1>3, <1>5, <2>2 DEF Parses, D
    <2>7. Agrees(p, w, v, n)
      BY <2>6, ParseKnows
    <2>8. Knows(w, F[Len(a.out)], a)
      BY <1>2, <2>5, <2>7 DEF Agrees
    <2>9. PieceOf(w, v, a.out, a.key, F)
      BY <1>5, <1>6, <2>4, <2>5 DEF PieceOf
    <2>10. ReadLines(v, q, w) = F[Len(a.out)]
      BY <2>9, LinesRead
    <2> QED
      BY <2>8, <2>10
  <1> QED
    BY <1>9, <1>10, <1>11

-----------------------------------------------------------------------------
(* Every step keeps the invariant *)

\* A user in no channel believes nothing.
LEMMA BlankView == Blank \in View
  BY DEF Blank, View

\* A roll names users.
LEMMA RollUsers ==
  ASSUME NEW roll \in Rolls
  PROVE  DOMAIN roll \subseteq Users
  BY DEF Rolls

\* The first member to come is the operator.
LEMMA JoinKeeps ==
  ASSUME IInv, NEW u \in Users, NEW c \in Chans, Join(u, c)
  PROVE  IInv'
  <1> DEFINE flags == IF Members(c) = {} THEN {"o"} ELSE {}
             now == [w \in Users |-> [view[w][c] EXCEPT !.names = @ \cup {u}]]
             told == Told(c, {}, now)
             own == [Blank EXCEPT
                       !.names = Names(c) \cup {u},
                       !.ops = NamedOps(c) \cup (IF flags = {} THEN {} ELSE {u}),
                       !.own = flags,
                       !.topic = topic[c]]
             roll == [v \in Members(c) \cup {u} |-> IF v = u THEN flags ELSE status[c][v]]
  <1>1. /\ u \notin Members(c)
        /\ status' = [status EXCEPT ![c] = roll]
        /\ view' = [told EXCEPT ![u][c] = own]
        /\ UNCHANGED <<oper, invisible, modes, bans, topic>>
    BY DEF Join
  <1>2. Types /\ \A d \in Chans : \A w \in Members(d) : Believed(d, w)
    BY DEF IInv
  <1>3. /\ Members(c) \subseteq Users
        /\ status[c] \in [Members(c) -> SUBSET Status]
        /\ topic[c] \in Topics \cup {NoTopic}
        /\ \A w \in Users : view[w][c] \in View
    BY <1>2, RollFields
  <1>4. flags \in SUBSET Status
    BY DEF Status
  <1> HIDE DEF flags
  <1>5. own = [names |-> Members(c) \cup {u},
               ops |-> NamedOps(c) \cup (IF flags = {} THEN {} ELSE {u}),
               own |-> flags, topic |-> topic[c], asked |-> FALSE,
               modes |-> {}, bans |-> {}, misread |-> FALSE]
    <2> DEFINE N == Names(c) \cup {u}
               O == NamedOps(c) \cup (IF flags = {} THEN {} ELSE {u})
               T == topic[c]
    <2>1. PICK v : v = Blank
      OBVIOUS
    <2>2. v = [names |-> {}, ops |-> {}, own |-> {}, topic |-> NoTopic, asked |-> FALSE,
               modes |-> {}, bans |-> {}, misread |-> FALSE]
      BY <2>1 DEF Blank
    <2>3. own = [v EXCEPT !.names = N, !.ops = O, !.own = flags, !.topic = T]
      BY <2>1
    <2>4. N = Members(c) \cup {u}
      BY DEF Names
    <2> HIDE DEF N, O, T, own
    <2>5. own = [names |-> N, ops |-> O, own |-> flags, topic |-> T, asked |-> FALSE,
                 modes |-> {}, bans |-> {}, misread |-> FALSE]
      BY <2>2, <2>3
    <2> QED
      BY <2>4, <2>5 DEF O, T
  <1>6. own \in View
    <2> HIDE DEF own
    <2>1. NamedOps(c) \subseteq Users /\ Users \subseteq Known
      BY <1>3 DEF NamedOps, Known, Wire, Words
    <2> QED
      BY <1>3, <1>4, <1>5, <2>1 DEF View
  <1>7. ASSUME NEW w \in Members(c) \ {} PROVE now[w] \in View
    <2> DEFINE v == view[w][c]
    <2>1. w \in Users /\ v \in View
      BY <1>3
    <2>2. now[w] = [v EXCEPT !.names = @ \cup {u}]
      BY <2>1
    <2> HIDE DEF now, v
    <2> QED
      BY <2>1, <2>2 DEF View
  <1>8. /\ told \in [Users -> [Chans -> View]]
        /\ \A w \in Users, d \in Chans :
              told[w][d] = IF d = c /\ w \in Members(c) \ {} THEN now[w] ELSE view[w][d]
    <2> HIDE DEF now
    <2> QED
      BY <1>2, <1>7, ToldViews
  <1> HIDE DEF told, own
  <1>9. /\ view' \in [Users -> [Chans -> View]]
        /\ \A w \in Users, d \in Chans :
              view'[w][d] = IF w = u /\ d = c THEN own ELSE told[w][d]
    BY <1>1, <1>6, <1>8
  <1>10. roll \in [Members(c) \cup {u} -> SUBSET Status]
    BY <1>3, <1>4
  <1>11. status' \in [Chans -> Rolls]
    <2>1. Members(c) \cup {u} \in SUBSET Users
      BY <1>3
    <2>2. roll \in Rolls
      <3> HIDE DEF roll
      <3> QED
        BY <1>10, <2>1 DEF Rolls
    <2> HIDE DEF roll
    <2> QED
      BY <1>1, <1>2, <2>2 DEF Types
  <1>12. Types'
    BY <1>1, <1>2, <1>9, <1>11 DEF Types
  <1>13. status'[c] = roll /\ \A d \in Chans \ {c} : status'[d] = status[d]
    BY <1>1, <1>2 DEF Types
  <1>14. Members(c)' = Members(c) \cup {u}
    BY <1>13 DEF Members
  <1>15. \A w \in Members(c) : status'[c][w] = status[c][w]
    BY <1>1, <1>13
  <1>16. status'[c][u] = flags
    BY <1>13
  <1>17. NamedOps(c)' = NamedOps(c) \cup (IF flags = {} THEN {} ELSE {u})
    <2>1. \A w \in Members(c) : "o" \in status'[c][w] <=> "o" \in status[c][w]
      BY <1>15
    <2>2. "o" \in status'[c][u] <=> flags # {}
      BY <1>16 DEF flags
    <2>3. NamedOps(c)' = {w \in Members(c) \cup {u} : "o" \in status'[c][w]}
      BY <1>14 DEF NamedOps
    <2> QED
      BY <1>1, <2>1, <2>2, <2>3 DEF NamedOps
  <1>18. ASSUME NEW d \in Chans, NEW w \in Members(d)' PROVE Believed(d, w)'
    <2>1. w \in Users
      BY <1>11, <1>18, RollUsers DEF Members
    <2>2. CASE d # c
      <3>1. w \in Members(d) /\ view'[w][d] = view[w][d]
        <4>1. Members(d)' = Members(d)
          BY <1>13, <2>2 DEF Members
        <4>2. view'[w][d] = told[w][d] /\ told[w][d] = view[w][d]
          BY <1>8, <1>9, <2>1, <2>2
        <4> QED
          BY <1>18, <4>1, <4>2
      <3> QED
        BY <1>1, <1>2, <1>13, <2>2, <3>1, Unmoved
    <2>3. CASE d = c /\ w = u
      <3>1. view'[u][c] = own
        BY <1>9
      <3>2. /\ own.names = Members(c) \cup {u} /\ own.topic = topic[c]
            /\ own.ops = NamedOps(c) \cup (IF flags = {} THEN {} ELSE {u})
            /\ own.own = flags /\ own.asked = FALSE
        BY <1>5
      <3> QED
        BY <1>1, <1>14, <1>16, <1>17, <2>3, <3>1, <3>2 DEF Believed, Right, Exact
    <2>4. CASE d = c /\ w # u
      <3>1. w \in Members(c) /\ Members(c) # {}
        BY <1>14, <2>4
      <3>2. view'[w][c] = [view[w][c] EXCEPT !.names = @ \cup {u}]
        BY <1>8, <1>9, <2>1, <2>4, <3>1
      <3>3. view[w][c] \in View /\ Believed(c, w)
        BY <1>2, <1>3, <2>1, <3>1
      <3>4. flags = {}
        BY <3>1 DEF flags
      <3>5. NamedOps(c)' = NamedOps(c)
        BY <1>17, <3>4
      <3>6. Modestr(c)' = Modestr(c)
        BY <1>1 DEF Modestr, Has
      <3>7. /\ view'[w][c].names = view[w][c].names \cup {u}
            /\ view'[w][c].topic = view[w][c].topic
            /\ view'[w][c].ops = view[w][c].ops
            /\ view'[w][c].own = view[w][c].own
            /\ view'[w][c].asked = view[w][c].asked
            /\ view'[w][c].modes = view[w][c].modes
            /\ view'[w][c].bans = view[w][c].bans
            /\ view'[w][c].misread = view[w][c].misread
        BY <3>2, <3>3 DEF View
      <3> QED
        BY <1>1, <1>14, <1>15, <2>4, <3>1, <3>3, <3>5, <3>6, <3>7 DEF Believed, Right, Exact
    <2> QED
      BY <2>2, <2>3, <2>4
  <1> QED
    BY <1>12, <1>18 DEF IInv

\* A step that leaves channels and beliefs alone.
LEMMA UsersKeep ==
  ASSUME IInv, UNCHANGED <<status, modes, bans, topic, view>>,
         oper' \subseteq Users, invisible' \subseteq Users
  PROVE  IInv'
  <1>1. Types'
    BY DEF IInv, Types
  <1>2. ASSUME NEW d \in Chans, NEW w \in Members(d)' PROVE Believed(d, w)'
    <2>1. w \in Members(d) /\ Believed(d, w)
      BY <1>2 DEF IInv, Members
    <2> QED
      BY <2>1, Unmoved
  <1> QED
    BY <1>1, <1>2 DEF IInv

\* MODE #c and MODE #c b answer what the channel has; a list of plain masks
\* reads as it is.
LEMMA AskKeeps ==
  ASSUME IInv, NEW u \in Users, NEW c \in Chans, Ask(u, c)
  PROVE  IInv'
  <1> DEFINE old == view[u][c]
             odd == \E m \in BanList(c) : ~Plain(m)
             AsRead(s) == {ListedAs(m, s) : m \in BanList(c)}
             New(s) == [old EXCEPT !.asked = TRUE, !.modes = Modestr(c),
                                   !.bans = AsRead(s), !.misread = old.misread \/ odd]
  <1>1. Types /\ \A d \in Chans : \A w \in Members(d) : Believed(d, w)
    BY DEF IInv
  <1>2. u \in Members(c) /\ UNCHANGED <<oper, invisible, status, modes, bans, topic>>
    BY DEF Ask
  <1>3. PICK s \in Users : view' = [view EXCEPT ![u][c] = New(s)]
    BY DEF Ask
  <1> DEFINE listed == AsRead(s)
             new == New(s)
  <1>4. old \in View /\ bans[c] \in SUBSET Words /\ BanList(c) = bans[c]
    BY <1>1, RollFields DEF BanList
  <1>5. listed \in SUBSET Known
    <2> SUFFICES ASSUME NEW m \in Words PROVE ListedAs(m, s) \in Known
      BY <1>4
    <2>1. OnWire[m] \in Seq(Words) /\ s \in Words
      BY TalkParams DEF Words
    <2>2. OnWire[m] # <<>> => Head(OnWire[m]) \in Words
      <3> DEFINE q == OnWire[m]
      <3>1. q \in Seq(Words)
        BY <2>1
      <3> HIDE DEF q, Words
      <3> QED
        BY <3>1, HeadTailProperties DEF q
    <2> QED
      BY <2>1, <2>2 DEF ListedAs, Known, Wire
  <1>6. ~odd => listed = bans[c]
    <2> SUFFICES ASSUME ~odd PROVE \A m \in bans[c] : ListedAs(m, s) = m
      BY <1>4
    <2>1. \A m \in bans[c] : OnWire[m] = <<m>>
      BY <1>4 DEF Plain
    <2> QED
      BY <2>1 DEF ListedAs
  <1>7. Modestr(c) \in SUBSET Sent
    BY DEF Modestr, Sent
  <1>8. /\ new = [names |-> old.names, ops |-> old.ops, own |-> old.own, topic |-> old.topic,
                  asked |-> TRUE, modes |-> Modestr(c), bans |-> listed,
                  misread |-> old.misread \/ odd]
        /\ new \in View
    <2> DEFINE M == Modestr(c)
               X == old.misread \/ odd
    <2>1. new = [old EXCEPT !.asked = TRUE, !.modes = M, !.bans = listed, !.misread = X]
      OBVIOUS
    <2>2. X \in BOOLEAN
      BY <1>4 DEF View
    <2> HIDE DEF old, new, M, X, listed
    <2>3. new = [names |-> old.names, ops |-> old.ops, own |-> old.own, topic |-> old.topic,
                 asked |-> TRUE, modes |-> M, bans |-> listed, misread |-> X]
      BY <1>4, <2>1 DEF View
    <2>4. M \in SUBSET Sent /\ M = Modestr(c)
      BY <1>7 DEF M
    <2> QED
      BY <1>4, <1>5, <2>2, <2>3, <2>4 DEF View, X
  <1> HIDE DEF new, listed, odd, New
  <1>9. /\ view' \in [Users -> [Chans -> View]]
        /\ \A w \in Users, d \in Chans :
              view'[w][d] = IF w = u /\ d = c THEN new ELSE view[w][d]
    BY <1>1, <1>3, <1>8 DEF Types, new
  <1>10. Types'
    BY <1>1, <1>2, <1>9 DEF Types
  <1>11. ASSUME NEW d \in Chans, NEW w \in Members(d)' PROVE Believed(d, w)'
    <2>1. w \in Members(d) /\ w \in Users /\ Believed(d, w)
      BY <1>1, <1>2, <1>11, RollFields DEF Members
    <2>2. CASE w = u /\ d = c
      <3>1. view'[u][c] = new
        BY <1>9
      <3>2. /\ new.names = old.names /\ new.topic = old.topic /\ new.ops = old.ops
            /\ new.own = old.own /\ new.modes = Modestr(c) /\ new.bans = listed
            /\ new.misread <=> old.misread \/ odd
        BY <1>8
      <3>3. /\ Members(c)' = Members(c) /\ NamedOps(c)' = NamedOps(c)
            /\ Modestr(c)' = Modestr(c)
        BY <1>2 DEF Members, NamedOps, Modestr, Has
      <3>4. ~new.misread => ~old.misread /\ new.bans = bans[c]
        BY <1>6, <3>2
      <3> QED
        BY <1>2, <2>1, <2>2, <3>1, <3>2, <3>3, <3>4 DEF Believed, Right, Exact
    <2>3. CASE ~(w = u /\ d = c)
      <3>1. view'[w][d] = view[w][d]
        BY <1>9, <2>1, <2>3
      <3> QED
        BY <1>2, <2>1, <3>1, Unmoved
    <2> QED
      BY <2>2, <2>3
  <1> QED
    BY <1>10, <1>11 DEF IInv

\* Every member is told the new topic.
LEMMA TopicKeeps ==
  ASSUME IInv, NEW u \in Users, NEW c \in Chans, NEW t \in Topics, SetTopic(u, c, t)
  PROVE  IInv'
  <1> DEFINE now == [w \in Users |-> [view[w][c] EXCEPT !.topic = t]]
  <1>1. Types /\ \A d \in Chans : \A w \in Members(d) : Believed(d, w)
    BY DEF IInv
  <1>2. /\ topic' = [topic EXCEPT ![c] = t]
        /\ view' = Told(c, {}, now)
        /\ UNCHANGED <<oper, invisible, status, modes, bans>>
    BY DEF SetTopic
  <1>3. Members(c) \subseteq Users /\ \A w \in Users : view[w][c] \in View
    BY <1>1, RollFields
  <1>4. ASSUME NEW w \in Members(c) \ {}
        PROVE  /\ now[w] \in View
               /\ now[w] = [view[w][c] EXCEPT !.topic = t]
    <2> DEFINE v == view[w][c]
    <2>1. v \in View /\ now[w] = [v EXCEPT !.topic = t]
      BY <1>3
    <2> HIDE DEF v, now
    <2>2. now[w] \in View
      BY <2>1 DEF View
    <2> QED
      BY <2>1, <2>2 DEF v
  <1> HIDE DEF now
  <1>5. /\ view' \in [Users -> [Chans -> View]]
        /\ \A w \in Users, d \in Chans :
              view'[w][d] = IF d = c /\ w \in Members(c) \ {} THEN now[w] ELSE view[w][d]
    <2>1. \A w \in Members(c) \ {} : now[w] \in View
      BY <1>4
    <2> QED
      BY <1>1, <1>2, <2>1, ToldViews
  <1>6. /\ topic' \in [Chans -> Topics \cup {NoTopic}]
        /\ topic'[c] = t /\ \A d \in Chans \ {c} : topic'[d] = topic[d]
    BY <1>1, <1>2 DEF Types
  <1>7. Types'
    BY <1>1, <1>2, <1>5, <1>6 DEF Types
  <1>8. ASSUME NEW d \in Chans, NEW w \in Members(d)' PROVE Believed(d, w)'
    <2>1. w \in Members(d) /\ w \in Users /\ Believed(d, w)
      BY <1>1, <1>2, <1>8, RollFields DEF Members
    <2>2. CASE d = c
      <3> DEFINE v == view[w][c]
                 n == view'[w][c]
      <3>1. v \in View /\ n = [v EXCEPT !.topic = t]
        BY <1>3, <1>4, <1>5, <2>1, <2>2
      <3>2. Believed(c, w)
        BY <2>1, <2>2
      <3>3. /\ Members(c)' = Members(c) /\ NamedOps(c)' = NamedOps(c)
            /\ Modestr(c)' = Modestr(c)
        BY <1>2 DEF Members, NamedOps, Modestr, Has
      <3> HIDE DEF n, v
      <3>4. /\ n.names = v.names /\ n.topic = t /\ n.ops = v.ops /\ n.own = v.own
            /\ n.asked = v.asked /\ n.modes = v.modes /\ n.bans = v.bans
            /\ n.misread = v.misread
        BY <3>1 DEF View
      <3> QED
        BY <1>2, <1>6, <2>2, <3>2, <3>3, <3>4 DEF Believed, Right, Exact, n, v
    <2>3. CASE d # c
      <3>1. view'[w][d] = view[w][d] /\ topic'[d] = topic[d]
        BY <1>5, <1>6, <2>1, <2>3
      <3> QED
        BY <1>2, <2>1, <3>1, Unmoved
    <2> QED
      BY <2>2, <2>3
  <1> QED
    BY <1>7, <1>8 DEF IInv

\* A mode line changes the channel and tells every member what it changed.
LEMMA ModeKeeps ==
  ASSUME IInv, NEW u \in Users, NEW c \in Chans, NEW line \in Lines, Mode(u, c, line)
  PROVE  IInv'
  <1> DEFINE a == ParseLine(u, c, line)
             odd == Garbled(a.out, a.key)
             now == [w \in Users |->
                [FoldLeft(LAMBDA b, p : Read(w, b, p), view[w][c], Pieces(a.out, a.key))
                    EXCEPT !.misread = @ \/ odd]]
             D == Members(c)
  <1>1. Types /\ \A d \in Chans : \A w \in Members(d) : Believed(d, w)
    BY DEF IInv
  <1>2. /\ status' = [status EXCEPT ![c] = a.status]
        /\ modes' = [modes EXCEPT ![c] = a.modes]
        /\ bans' = [bans EXCEPT ![c] = a.bans]
        /\ view' = Told(c, {}, now)
        /\ UNCHANGED <<oper, invisible, topic>>
    BY DEF Mode
  <1>3. D \subseteq Users /\ \A w \in Users : view[w][c] \in View
    BY <1>1, RollFields
  <1>4. a \in Parsing(D)
    BY <1>1, LineParsed
  <1>5. ASSUME NEW w \in D
        PROVE  /\ now[w] \in View
               /\ now[w].names = view[w][c].names /\ now[w].topic = view[w][c].topic
               /\ ~now[w].misread => ~view[w][c].misread /\ Knows(w, now[w], a)
    <2> DEFINE v == view[w][c]
               h == Heard(w, c, a)
               n == now[w]
    <2>1. n = [h EXCEPT !.misread = @ \/ odd]
      BY <1>3 DEF Heard, ReadLines
    <2>2. h \in Alike(v) /\ (~v.misread /\ ~odd => Knows(w, h, a))
      BY LineTells
    <2> HIDE DEF now, a, D, h, odd, n, v
    <2>3. /\ h \in View /\ h.names = v.names /\ h.topic = v.topic /\ h.misread = v.misread
          /\ v.misread \in BOOLEAN
      BY <2>2 DEF Alike, View
    <2>4. /\ n \in View /\ n.names = h.names /\ n.topic = h.topic /\ n.ops = h.ops
          /\ n.own = h.own /\ n.asked = h.asked /\ n.modes = h.modes /\ n.bans = h.bans
          /\ n.misread <=> h.misread \/ odd
      BY <2>1, <2>3 DEF View
    <2>5. ~n.misread => ~v.misread /\ Knows(w, n, a)
      BY <2>2, <2>3, <2>4 DEF Knows
    <2> QED
      BY <2>3, <2>4, <2>5 DEF n, v
  <1> HIDE DEF now, a
  <1>6. /\ a.status \in [D -> SUBSET Status] /\ a.modes \in SUBSET Bits
        /\ a.bans \in SUBSET Words
    BY <1>4, ParsingFields
  <1>7. \A w \in Members(c) \ {} : now[w] \in View
    BY <1>5
  <1>8. /\ view' \in [Users -> [Chans -> View]]
        /\ \A w \in Users, d \in Chans :
              view'[w][d] = IF d = c /\ w \in Members(c) \ {} THEN now[w] ELSE view[w][d]
    BY <1>1, <1>2, <1>7, ToldViews
  <1>9. a.status \in Rolls
    BY <1>3, <1>6 DEF Rolls
  <1>10. /\ status' \in [Chans -> Rolls] /\ modes' \in [Chans -> SUBSET Bits]
         /\ bans' \in [Chans -> SUBSET Words]
    BY <1>1, <1>2, <1>6, <1>9 DEF Types
  <1>11. Types'
    BY <1>1, <1>2, <1>8, <1>10 DEF Types
  <1>12. /\ status'[c] = a.status /\ modes'[c] = a.modes /\ bans'[c] = a.bans
         /\ \A d \in Chans \ {c} :
               status'[d] = status[d] /\ modes'[d] = modes[d] /\ bans'[d] = bans[d]
    BY <1>1, <1>2 DEF Types
  <1>13. Members(c)' = D
    BY <1>6, <1>12 DEF Members
  <1>14. ASSUME NEW d \in Chans, NEW w \in Members(d)' PROVE Believed(d, w)'
    <2>1. CASE d = c
      <3> DEFINE n == view[w][c]
      <3>1. w \in D /\ w \in Users
        BY <1>3, <1>13, <1>14, <2>1
      <3>2. n' = now[w]
        BY <1>8, <3>1
      <3>3. Believed(c, w)
        BY <1>1, <3>1
      <3> HIDE DEF n
      <3>4. n'.names = view[w][c].names /\ n'.topic = view[w][c].topic
        BY <1>5, <3>1, <3>2
      <3>5. Right(c, w, n)'
        BY <1>2, <1>13, <3>3, <3>4 DEF Believed, Right, n
      <3>6. ASSUME ~n'.misread PROVE Exact(c, w, n)'
        <4>1. Knows(w, n', a)
          BY <1>5, <3>1, <3>2, <3>6
        <4> QED
          BY <1>12, <4>1 DEF Knows, Exact, NamedOps, Members, Modestr, Has, IsSet, n
      <3> QED
        BY <2>1, <3>5, <3>6 DEF Believed, n
    <2>2. CASE d # c
      <3>1. Members(d)' = Members(d)
        BY <1>12, <2>2 DEF Members
      <3>2. w \in Members(d) /\ w \in Users /\ Believed(d, w)
        BY <1>1, <1>14, <3>1, RollFields
      <3>3. view'[w][d] = view[w][d]
        BY <1>8, <2>2, <3>2
      <3> QED
        BY <1>2, <1>12, <2>2, <3>2, <3>3, Unmoved
    <2> QED
      BY <2>1, <2>2
  <1> QED
    BY <1>11, <1>14 DEF IInv

\* Whoever stays in a channel that a user leaves keeps everything.
Stays(u, C) ==
    /\ \A d \in Chans \ C : /\ status'[d] = status[d] /\ modes'[d] = modes[d]
                            /\ bans'[d] = bans[d] /\ topic'[d] = topic[d]
    /\ \A d \in C : /\ Members(d)' = Members(d) \ {u}
                    /\ \A w \in Members(d) \ {u} :
                          /\ status'[d][w] = status[d][w] /\ modes'[d] = modes[d]
                          /\ bans'[d] = bans[d] /\ topic'[d] = topic[d]

\* What a departure leaves of the channels.
LEMMA Removed ==
  ASSUME Types, NEW u, NEW C \in SUBSET Chans, RemoveFrom(u, C)
  PROVE  /\ status' \in [Chans -> Rolls] /\ modes' \in [Chans -> SUBSET Bits]
         /\ bans' \in [Chans -> SUBSET Words] /\ topic' \in [Chans -> Topics \cup {NoTopic}]
         /\ Stays(u, C)
  <1> DEFINE gone == {c \in C : Members(c) = {u}}
             less(c) == [v \in Members(c) \ {u} |-> status[c][v]]
  <1>1. /\ status' = [c \in Chans |-> IF c \in C THEN less(c) ELSE status[c]]
        /\ modes' = [c \in Chans |-> IF c \in gone THEN {} ELSE modes[c]]
        /\ bans' = [c \in Chans |-> IF c \in gone THEN {} ELSE bans[c]]
        /\ topic' = [c \in Chans |-> IF c \in gone THEN NoTopic ELSE topic[c]]
    BY DEF RemoveFrom
  <1>2. /\ modes \in [Chans -> SUBSET Bits] /\ bans \in [Chans -> SUBSET Words]
        /\ topic \in [Chans -> Topics \cup {NoTopic}]
        /\ status \in [Chans -> Rolls]
    BY DEF Types
  <1>3. /\ modes' \in [Chans -> SUBSET Bits] /\ bans' \in [Chans -> SUBSET Words]
        /\ topic' \in [Chans -> Topics \cup {NoTopic}]
    BY <1>1, <1>2
  <1>4. ASSUME NEW c \in Chans PROVE less(c) \in Rolls
    <2>1. Members(c) \subseteq Users /\ status[c] \in [Members(c) -> SUBSET Status]
      BY RollFields
    <2>2. Members(c) \ {u} \in SUBSET Users
      BY <2>1
    <2>3. less(c) \in [Members(c) \ {u} -> SUBSET Status]
      BY <2>1
    <2> QED
      BY <2>2, <2>3 DEF Rolls
  <1>5. status' \in [Chans -> Rolls]
    <2> HIDE DEF less
    <2> QED
      BY <1>1, <1>2, <1>4
  <1>6. ASSUME NEW d \in Chans \ C
        PROVE  /\ status'[d] = status[d] /\ modes'[d] = modes[d]
               /\ bans'[d] = bans[d] /\ topic'[d] = topic[d]
    BY <1>1
  <1>7. ASSUME NEW d \in C PROVE Members(d)' = Members(d) \ {u}
    BY <1>1 DEF Members
  <1>8. ASSUME NEW d \in C, NEW w \in Members(d) \ {u}
        PROVE  /\ status'[d][w] = status[d][w] /\ modes'[d] = modes[d]
               /\ bans'[d] = bans[d] /\ topic'[d] = topic[d]
    <2>1. d \notin gone /\ d \in Chans
      OBVIOUS
    <2>2. status'[d] = less(d)
      BY <1>1, <2>1
    <2> HIDE DEF gone
    <2> QED
      BY <1>1, <2>1, <2>2
  <1> QED
    BY <1>3, <1>5, <1>6, <1>7, <1>8 DEF Stays

\* A member who is told that u has left believes what is right.
LEMMA OneLess ==
  ASSUME Types, NEW u, NEW C \in SUBSET Chans, Stays(u, C), NEW d \in C,
         NEW w \in Members(d) \ {u}, Believed(d, w),
         view'[w][d] = Without(view[w][d], u)
  PROVE  Believed(d, w)'
  <1> DEFINE v == view[w][d]
  <1>1. Members(d) \subseteq Users /\ v \in View
    <2>1. Members(d) \subseteq Users /\ \A x \in Users : view[x][d] \in View
      BY RollFields
    <2> QED
      BY <2>1
  <1> DEFINE n == Without(v, u)
  <1>2. /\ n.names = v.names \ {u} /\ n.topic = v.topic /\ n.ops = v.ops \ {u}
        /\ n.own = v.own /\ n.asked = v.asked /\ n.modes = v.modes /\ n.bans = v.bans
        /\ n.misread = v.misread
    <2> HIDE DEF v
    <2> QED
      BY <1>1 DEF View, Without
  <1>3. view'[w][d] = n
    OBVIOUS
  <1> HIDE DEF n
  <1>4. /\ Members(d)' = Members(d) \ {u}
        /\ \A x \in Members(d) \ {u} :
              /\ status'[d][x] = status[d][x] /\ modes'[d] = modes[d]
              /\ bans'[d] = bans[d] /\ topic'[d] = topic[d]
    BY DEF Stays
  <1>5. NamedOps(d)' = NamedOps(d) \ {u}
    <2>1. NamedOps(d)' = {x \in Members(d)' : "o" \in status'[d][x]}
      BY DEF NamedOps
    <2> QED
      BY <1>4, <2>1 DEF NamedOps
  <1>6. modes'[d] = modes[d] /\ bans'[d] = bans[d] /\ topic'[d] = topic[d]
        /\ status'[d][w] = status[d][w]
    BY <1>4
  <1>7. Modestr(d)' = Modestr(d)
    BY <1>6 DEF Modestr, Has
  <1> QED
    BY <1>2, <1>3, <1>4, <1>5, <1>6, <1>7 DEF Believed, Right, Exact

\* Everybody in the channel is told who leaves.
LEMMA LeaveKeeps ==
  ASSUME IInv, NEW u \in Users, NEW c \in Chans, Leave(u, c)
  PROVE  IInv'
  <1> DEFINE now == [w \in Users |-> Without(view[w][c], u)]
             told == Told(c, {u}, now)
             C == {c}
  <1>1. Types /\ \A d \in Chans : \A w \in Members(d) : Believed(d, w)
    BY DEF IInv
  <1>2. /\ RemoveFrom(u, C)
        /\ view' = [told EXCEPT ![u][c] = Blank]
        /\ UNCHANGED <<oper, invisible>>
    BY DEF Leave
  <1>3. Members(c) \subseteq Users /\ \A w \in Users : view[w][c] \in View
    BY <1>1, RollFields
  <1>4. ASSUME NEW w \in Members(c) \ {u}
        PROVE  now[w] \in View /\ now[w] = Without(view[w][c], u)
    <2> DEFINE v == view[w][c]
    <2>1. v \in View /\ now[w] = Without(v, u)
      BY <1>3
    <2> HIDE DEF v, now
    <2>2. now[w] \in View
      BY <2>1 DEF View, Without
    <2> QED
      BY <2>1, <2>2 DEF v
  <1> HIDE DEF now
  <1>5. /\ told \in [Users -> [Chans -> View]]
        /\ \A w \in Users, d \in Chans :
              told[w][d] = IF d = c /\ w \in Members(c) \ {u} THEN now[w] ELSE view[w][d]
    <2>1. \A w \in Members(c) \ {u} : now[w] \in View
      BY <1>4
    <2> QED
      BY <1>1, <2>1, ToldViews
  <1> HIDE DEF told
  <1>6. /\ view' \in [Users -> [Chans -> View]]
        /\ \A w \in Users, d \in Chans :
              view'[w][d] = IF w = u /\ d = c THEN Blank ELSE told[w][d]
    BY <1>2, <1>5, BlankView
  <1>7. /\ status' \in [Chans -> Rolls] /\ modes' \in [Chans -> SUBSET Bits]
        /\ bans' \in [Chans -> SUBSET Words] /\ topic' \in [Chans -> Topics \cup {NoTopic}]
        /\ Stays(u, C)
    <2>1. C \in SUBSET Chans
      OBVIOUS
    <2> HIDE DEF C
    <2> QED
      BY <1>1, <1>2, <2>1, Removed
  <1>8. Types'
    BY <1>1, <1>2, <1>6, <1>7 DEF Types
  <1>9. ASSUME NEW d \in Chans, NEW w \in Members(d)' PROVE Believed(d, w)'
    <2>1. CASE d = c
      <3>1. w \in Members(c) \ {u}
        BY <1>7, <1>9, <2>1 DEF Stays
      <3>2. view'[w][c] = Without(view[w][c], u) /\ Believed(c, w)
        BY <1>1, <1>3, <1>4, <1>5, <1>6, <3>1
      <3>3. C \in SUBSET Chans /\ c \in C
        OBVIOUS
      <3> HIDE DEF C
      <3> QED
        BY <1>1, <1>7, <2>1, <3>1, <3>2, <3>3, OneLess
    <2>2. CASE d # c
      <3>1. /\ status'[d] = status[d] /\ modes'[d] = modes[d]
            /\ bans'[d] = bans[d] /\ topic'[d] = topic[d]
        BY <1>7, <2>2 DEF Stays
      <3>2. w \in Members(d) /\ w \in Users /\ Believed(d, w)
        BY <1>1, <1>9, <3>1, RollFields DEF Members
      <3>3. view'[w][d] = view[w][d]
        BY <1>5, <1>6, <2>2, <3>2
      <3> QED
        BY <3>1, <3>2, <3>3, Unmoved
    <2> QED
      BY <2>1, <2>2
  <1> QED
    BY <1>8, <1>9 DEF IInv

\* Everybody in any of the user's channels is told.
LEMMA QuitKeeps ==
  ASSUME IInv, NEW u \in Users, Quit(u)
  PROVE  IInv'
  <1> DEFINE C == {c \in Chans : u \in Members(c)}
  <1>1. Types /\ \A d \in Chans : \A w \in Members(d) : Believed(d, w)
    BY DEF IInv
  <1>2. /\ RemoveFrom(u, C)
        /\ view' = [w \in Users |-> [c \in Chans |->
              IF w = u THEN Blank
              ELSE IF c \in C /\ w \in Members(c) THEN Without(view[w][c], u)
              ELSE view[w][c]]]
        /\ oper' \subseteq Users /\ invisible' \subseteq Users
    BY <1>1 DEF Quit, Types
  <1>3. C \in SUBSET Chans /\ \A d \in Chans \ C : u \notin Members(d)
    OBVIOUS
  <1> HIDE DEF C
  <1>4. \A w \in Users, d \in Chans :
           view'[w][d] = IF w = u THEN Blank
                         ELSE IF d \in C /\ w \in Members(d) THEN Without(view[w][d], u)
                         ELSE view[w][d]
    BY <1>2
  <1>5. ASSUME NEW w \in Users, NEW d \in Chans PROVE view'[w][d] \in View
    <2> DEFINE v == view[w][d]
    <2>1. v \in View
      BY <1>1, RollFields
    <2>2. Without(v, u) \in View
      <3> HIDE DEF v
      <3> QED
        BY <2>1 DEF View, Without
    <2> QED
      BY <1>4, <2>1, <2>2, BlankView
  <1>6. view' \in [Users -> [Chans -> View]]
    <2> DEFINE f == view'
    <2>1. f = [w \in Users |-> [d \in Chans |-> f[w][d]]]
      BY <1>2, <1>4
    <2>2. \A w \in Users, d \in Chans : f[w][d] \in View
      BY <1>5
    <2> HIDE DEF f
    <2>3. f \in [Users -> [Chans -> View]]
      BY <2>1, <2>2
    <2> QED
      BY <2>3 DEF f
  <1>7. /\ status' \in [Chans -> Rolls] /\ modes' \in [Chans -> SUBSET Bits]
        /\ bans' \in [Chans -> SUBSET Words] /\ topic' \in [Chans -> Topics \cup {NoTopic}]
        /\ Stays(u, C)
    BY <1>1, <1>2, <1>3, Removed
  <1>8. Types'
    BY <1>2, <1>6, <1>7 DEF Types
  <1>9. ASSUME NEW d \in Chans, NEW w \in Members(d)' PROVE Believed(d, w)'
    <2>1. CASE d \in C
      <3>1. w \in Members(d) \ {u}
        BY <1>7, <1>9, <2>1 DEF Stays
      <3>2. w \in Users
        BY <1>1, <3>1, RollFields
      <3>3. view'[w][d] = Without(view[w][d], u) /\ Believed(d, w)
        BY <1>1, <1>4, <2>1, <3>1, <3>2
      <3> QED
        BY <1>1, <1>3, <1>7, <2>1, <3>1, <3>3, OneLess
    <2>2. CASE d \notin C
      <3>1. /\ status'[d] = status[d] /\ modes'[d] = modes[d]
            /\ bans'[d] = bans[d] /\ topic'[d] = topic[d]
        BY <1>7, <2>2 DEF Stays
      <3>2. w \in Members(d) /\ w \in Users /\ Believed(d, w)
        BY <1>1, <1>9, <3>1, RollFields DEF Members
      <3>3. view'[w][d] = view[w][d]
        BY <1>3, <1>4, <2>2, <3>2
      <3> QED
        BY <3>1, <3>2, <3>3, Unmoved
    <2> QED
      BY <2>1, <2>2
  <1> QED
    BY <1>8, <1>9 DEF IInv

\* At first nobody is in a channel.
LEMMA InitIInv == Init => IInv
  <1> SUFFICES ASSUME Init PROVE IInv
    OBVIOUS
  <1>1. [u \in {} |-> {}] \in Rolls /\ DOMAIN [u \in {} |-> {}] = {}
    <2>1. {} \in SUBSET Users /\ [u \in {} |-> {}] \in [{} -> SUBSET Status]
      OBVIOUS
    <2> QED
      BY <2>1 DEF Rolls
  <1>2. status \in [Chans -> Rolls]
    BY <1>1 DEF Init
  <1>3. Types
    BY <1>2, BlankView DEF Init, Types
  <1>4. \A c \in Chans : Members(c) = {}
    BY <1>1 DEF Init, Members
  <1> QED
    BY <1>3, <1>4 DEF IInv

\* The step lemmas together.
LEMMA NextIInv == IInv /\ [Next]_vars => IInv'
  <1> SUFFICES ASSUME IInv, [Next]_vars PROVE IInv'
    OBVIOUS
  <1>1. oper \subseteq Users /\ invisible \subseteq Users
    BY DEF IInv, Types
  <1>2. CASE UNCHANGED vars
    BY <1>1, <1>2, UsersKeep DEF vars
  <1>3. ASSUME NEW u \in Users, Oper(u) PROVE IInv'
    BY <1>1, <1>3, UsersKeep DEF Oper
  <1>4. ASSUME NEW u \in Users, ToggleInvisible(u) PROVE IInv'
    BY <1>1, <1>4, UsersKeep DEF ToggleInvisible
  <1>5. ASSUME NEW u \in Users, Quit(u) PROVE IInv'
    BY <1>5, QuitKeeps
  <1>6. ASSUME NEW u \in Users, NEW c \in Chans, Join(u, c) PROVE IInv'
    BY <1>6, JoinKeeps
  <1>7. ASSUME NEW u \in Users, NEW c \in Chans, Part(u, c) PROVE IInv'
    BY <1>7, LeaveKeeps DEF Part
  <1>8. ASSUME NEW u \in Users, NEW c \in Chans, Ask(u, c) PROVE IInv'
    BY <1>8, AskKeeps
  <1>9. ASSUME NEW u \in Users, NEW c \in Chans, NEW v \in Users, Kick(u, c, v) PROVE IInv'
    BY <1>9, LeaveKeeps DEF Kick
  <1>10. ASSUME NEW u \in Users, NEW c \in Chans, NEW t \in Topics, SetTopic(u, c, t)
        PROVE  IInv'
    BY <1>10, TopicKeeps
  <1>11. ASSUME NEW u \in Users, NEW c \in Chans, NEW l \in Lines, Mode(u, c, l) PROVE IInv'
    BY <1>11, ModeKeeps
  <1> QED
    BY <1>2, <1>3, <1>4, <1>5, <1>6, <1>7, <1>8, <1>9, <1>10, <1>11 DEF Next

-----------------------------------------------------------------------------
(* Theorems *)

\* Whatever is done, in any order: every member has the right beliefs.
THEOREM TalkInductive == Spec => []IInv
  BY InitIInv, NextIInv, PTL DEF Spec

\* Members know who is in their channel and its topic.
THEOREM AlwaysMembersKnown == Spec => []MembersKnown
  <1>1. IInv => MembersKnown
    BY DEF IInv, Believed, Right, MembersKnown
  <1> QED
    BY <1>1, TalkInductive, PTL

\* The invariant says it of each member.
LEMMA ExactEcho == IInv => EchoExact
  BY DEF IInv, Believed, Exact, EchoExact, BanList

\* Members know the operators and, once they asked, modes and bans, until they
\* are sent a line or list that does not read as it was meant: what modebufSend
\* writes reads as what parseModeChange did.
THEOREM AlwaysEchoExact == Spec => []EchoExact
  BY ExactEcho, TalkInductive, PTL

\* Letters that the table has if it has room.
LEMMA TableHas == Width >= 12 => {"m", "p", "s"} \subseteq DOMAIN Table
  BY TableComplete, RegistryFacts

\* What a client that has asked and can read what it is sent believes.
LEMMA AskedKnows ==
  ASSUME IInv, NEW c \in Chans, NEW u \in Members(c), view[u][c].asked, ~view[u][c].misread
  PROVE  LET v == view[u][c]
         IN  /\ v.names = Members(c) /\ v.own = status[c][u]
             /\ v.modes = Modestr(c) /\ v.bans = bans[c]
  BY DEF IInv, Believed, Right, Exact

\* What it concludes of its messages.
LEMMA ExactHeard == Width >= 12 /\ IInv => KnowsWhetherHeard
  <1> SUFFICES ASSUME Width >= 12, IInv PROVE KnowsWhetherHeard
    OBVIOUS
  <1>1. "m" \in DOMAIN Table
    BY TableHas
  <1>2. ASSUME NEW c \in Chans, NEW u \in Members(c) \ oper,
               view[u][c].asked, ~view[u][c].misread
        PROVE  LET v == view[u][c]
                   heard == /\ "m" \in v.modes => v.own # {}
                            /\ \A m \in v.bans : <<u, m>> \notin Matches
               IN  /\ Hears(u, c) = IF heard THEN v.names \ {u} ELSE {}
                   /\ Notices(u, c) = Hears(u, c)
    <2> DEFINE v == view[u][c]
    <2>1. /\ v.names = Members(c) /\ v.own = status[c][u]
          /\ v.modes = Modestr(c) /\ v.bans = bans[c]
      BY <1>2, AskedKnows
    <2>2. "m" \in v.modes <=> Has(c, "m")
      BY <1>1, <2>1 DEF Modestr
    <2> HIDE DEF v
    <2>3. CanSend(u, c) <=> /\ "m" \in v.modes => v.own # {}
                            /\ \A m \in v.bans : <<u, m>> \notin Matches
      BY <1>2, <2>1, <2>2 DEF CanSend, Banned
    <2> QED
      BY <2>1, <2>3 DEF Hears, Notices, v
  <1> QED
    BY <1>2 DEF KnowsWhetherHeard

\* A client that asked knows whether it is heard and by whom.
THEOREM AlwaysKnowsWhetherHeard == Width >= 12 => (Spec => []KnowsWhetherHeard)
  <1> SUFFICES ASSUME Width >= 12 PROVE Spec => []KnowsWhetherHeard
    OBVIOUS
  <1>1. IInv => KnowsWhetherHeard
    BY ExactHeard
  <1> QED
    BY <1>1, TalkInductive, PTL

\* What it concludes of what WHO, WHOIS and LIST tell others.
LEMMA ExactSees == Width >= 12 /\ IInv => KnowsWhoSees
  <1> SUFFICES ASSUME Width >= 12, IInv, NEW c \in Chans, NEW u \in Members(c),
                      view[u][c].asked, ~view[u][c].misread
               PROVE  LET v == view[u][c]
                          ByMask(w) == LET who == WhoMask(w)
                                       IN  u \in DOMAIN who /\ c \in who[u]
                      IN  /\ c \in List <=> v.modes \cap {"p", "s"} = {}
                          /\ {w \in Users : c \in Whois(w, u)} =
                                IF "s" \in v.modes THEN oper ELSE Users
                          /\ {w \in Users : ByMask(w)} = v.names
                          /\ {w \in Users : u \in WhoChannel(w, c)} =
                                IF u \in invisible THEN v.names \cup oper ELSE Users
    BY DEF KnowsWhoSees
  <1> DEFINE v == view[u][c]
             ByMask(w) == LET who == WhoMask(w) IN u \in DOMAIN who /\ c \in who[u]
  <1>1. v.names = Members(c) /\ v.modes = Modestr(c)
    BY AskedKnows
  <1>2. /\ "s" \in v.modes <=> Has(c, "s")
        /\ "p" \in v.modes <=> Has(c, "p")
    BY <1>1, TableHas DEF Modestr
  <1>3. Members(c) \subseteq Users /\ oper \subseteq Users
    BY RollFields DEF IInv, Types
  <1> HIDE DEF v
  <1>4. c \in List <=> v.modes \cap {"p", "s"} = {}
    BY <1>2 DEF List
  <1>5. {w \in Users : c \in Whois(w, u)} = IF "s" \in v.modes THEN oper ELSE Users
    BY <1>2, <1>3 DEF Whois
  <1>6. ASSUME NEW w \in Users PROVE ByMask(w) <=> w \in Members(c)
    <2> DEFINE D == {x \in Users : x \in invisible => Shared(w, x) # {} \/ w \in oper \/ w = x}
    <2>1. WhoMask(w) = [x \in D |-> Shared(w, x)]
      BY DEF WhoMask
    <2>2. c \in Shared(w, u) <=> w \in Members(c)
      BY DEF Shared
    <2>3. w \in Members(c) => u \in D
      BY <1>3, <2>2
    <2> HIDE DEF D
    <2> QED
      BY <2>1, <2>2, <2>3
  <1>7. {w \in Users : ByMask(w)} = v.names
    BY <1>1, <1>3, <1>6
  <1>8. {w \in Users : u \in WhoChannel(w, c)} =
           IF u \in invisible THEN v.names \cup oper ELSE Users
    BY <1>1, <1>3 DEF WhoChannel
  <1> QED
    BY <1>4, <1>5, <1>7, <1>8 DEF v

\* A client that asked knows to whom its membership is named.
THEOREM AlwaysKnowsWhoSees == Width >= 12 => (Spec => []KnowsWhoSees)
  <1> SUFFICES ASSUME Width >= 12 PROVE Spec => []KnowsWhoSees
    OBVIOUS
  <1>1. IInv => KnowsWhoSees
    BY ExactSees
  <1> QED
    BY <1>1, TalkInductive, PTL
=============================================================================
