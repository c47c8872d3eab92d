----------------------------- MODULE StatsProofs -----------------------------
(***************************************************************************)
(* Stats: the counters count, and users know their modes.                  *)
(*                                                                         *)
(* A mode line is a fold over its letters and what the user makes of the   *)
(* echo is a fold over that, so the first part gives both folds the        *)
(* equations FoldProofs offers: HeardMore for the reader, who reads one    *)
(* element more, and LineFold for the line, which keeps to every set that  *)
(* no letter leads out of.  Partial is that set: what the echo says so     *)
(* far is what the line did so far, and the counters moved with it.        *)
(*                                                                         *)
(* IInv says what each counter counts.  It needs that who is gone has no   *)
(* modes (Known), since a socket comes back as another user, and that a    *)
(* doomed user has no slot (Places), since its second report would free    *)
(* one again.                                                              *)
(***************************************************************************)
EXTENDS Stats, FoldProofs, FiniteSetTheorems, SequenceTheorems

\* What the server writes, and what a user has read of it.
Said == UserModes \cup {"+", "-"}
Reader == [sign : {"+", "-"}, seen : SUBSET UserModes]
Heard(b, q) == FoldLeft(ReadLetter, b, q)

LEMMA ReadLetterType ==
  ASSUME NEW v \in Reader, NEW c \in Said
  PROVE  ReadLetter(v, c) \in Reader
  BY DEF ReadLetter, Reader, Said

ReadAt(q) == [p \in Reader \X (1..Len(q)) |-> ReadLetter(p[1], q[p[2]])]

\* What the client has read of q is the value of the recursion at all
\* positions of q.
LEMMA HeardFold ==
  ASSUME NEW q \in Seq(Said), NEW b \in Reader
  PROVE  \E f \in [SUBSET (1..Len(q)) -> Reader] :
            Recursion(f, Len(q), b, ReadAt(q)) /\ Heard(b, q) = f[1..Len(q)]
  <1> DEFINE n == Len(q)
             D == 1..n
             H == ReadAt(q)
             E(h) == [s \in SUBSET DOMAIN q |->
                        IF s = {} THEN b ELSE ReadLetter(h[s \ {Max(s)}], q[Max(s)])]
             g == CHOOSE h : h = E(h)
  <1>1. n \in Nat /\ D = DOMAIN q /\ \A i \in D : q[i] \in Said
    OBVIOUS
  <1>2. H \in [Reader \X D -> Reader]
    BY <1>1, ReadLetterType DEF ReadAt
  <1>3. PICK f \in [SUBSET D -> Reader] : Recursion(f, n, b, H)
    <2> HIDE DEF H
    <2> QED
      BY <1>1, <1>2, FoldExists
  <1>4. \A s \in SUBSET D : s # {} => Max(s) \in D /\ Before(s) \in SUBSET D
    BY <1>1, LastPosition DEF Before
  <1>5. f = E(f)
    <2>1. \A s \in SUBSET D : s # {} =>
             H[f[Before(s)], Max(s)] = ReadLetter(f[Before(s)], q[Max(s)])
      BY <1>3, <1>4 DEF ReadAt
    <2>2. \A s \in SUBSET D :
             f[s] = IF s = {} THEN b ELSE ReadLetter(f[Before(s)], q[Max(s)])
      BY <1>3, <2>1 DEF Recursion
    <2> QED
      BY <1>1, <1>3, <2>2 DEF Before
  <1>6. g = E(g)
    BY <1>5
  <1>7. Heard(b, q) = g[D]
    BY <1>1 DEF Heard, FoldLeft, MapThenFoldSet
  <1> HIDE DEF g
  <1>8. /\ g[{}] = b
        /\ \A s \in SUBSET D : s # {} => g[s] = ReadLetter(g[Before(s)], q[Max(s)])
    BY <1>1, <1>6 DEF Before
  <1>9. \A s \in SUBSET D : g[s] = f[s]
    <2> DEFINE Q == {s \in SUBSET D : g[s] = f[s]}
    <2>1. f[{}] = b /\ \A s \in SUBSET D : s # {} => f[s] = ReadLetter(f[Before(s)], q[Max(s)])
      BY <1>1, <1>5 DEF Before
    <2>2. {} \in Q
      BY <1>8, <2>1
    <2>3. \A s \in SUBSET D : s # {} /\ Before(s) \in Q => s \in Q
      <3> SUFFICES ASSUME NEW s \in SUBSET D, s # {}, Before(s) \in Q PROVE g[s] = f[s]
        OBVIOUS
      <3>1. g[Before(s)] = f[Before(s)]
        OBVIOUS
      <3> QED
        BY <1>8, <2>1, <3>1
    <2>4. SUBSET D \subseteq Q
      <3> HIDE DEF Q
      <3> QED
        BY <1>1, <2>2, <2>3, PositionInduction
    <2> QED
      BY <2>4
  <1>10. Heard(b, q) = f[D]
    BY <1>7, <1>9
  <1> QED
    BY <1>3, <1>10

\* Nothing was read of nothing, and one element more is read after the rest.
LEMMA HeardMore ==
  ASSUME NEW q \in Seq(Said), NEW b \in Reader, NEW c \in Said
  PROVE  /\ Heard(b, q) \in Reader
         /\ Heard(b, <<>>) = b
         /\ Heard(b, Append(q, c)) = ReadLetter(Heard(b, q), c)
  <1> DEFINE n == Len(q)
             r == Append(q, c)
             m == Len(r)
  <1>1. /\ n \in Nat /\ r \in Seq(Said) /\ m \in Nat /\ m = n + 1 /\ r[m] = c
        /\ \A i \in 1..n : r[i] = q[i]
    <2>1. r \in Seq(Said)
      BY AppendProperties
    <2>2. m = n + 1
      BY AppendProperties
    <2>3. r[n + 1] = c
      BY AppendProperties
    <2>4. \A i \in 1..n : r[i] = q[i]
      BY AppendProperties
    <2>5. n \in Nat /\ m \in Nat
      BY <2>1, LenProperties
    <2> QED
      BY <2>1, <2>2, <2>3, <2>4, <2>5
  <1> HIDE DEF r
  <1>2. 1..n \subseteq 1..m /\ m \in 1..m
    BY <1>1, OneMore
  <1>3. PICK f \in [SUBSET (1..n) -> Reader] :
           Recursion(f, n, b, ReadAt(q)) /\ Heard(b, q) = f[1..n]
    BY HeardFold
  <1>4. PICK h \in [SUBSET (1..m) -> Reader] :
           Recursion(h, m, b, ReadAt(r)) /\ Heard(b, r) = h[1..m]
    BY <1>1, HeardFold
  <1>5. Heard(b, q) \in Reader
    BY <1>3
  <1>6. Heard(b, <<>>) = b
    <2> DEFINE e == <<>>
    <2>1. e \in Seq(Said) /\ Len(e) = 0 /\ 1..0 = {}
      OBVIOUS
    <2> HIDE DEF e
    <2>2. PICK k \in [SUBSET (1..Len(e)) -> Reader] :
             Recursion(k, Len(e), b, ReadAt(e)) /\ Heard(b, e) = k[1..Len(e)]
      BY <2>1, HeardFold
    <2>3. k[{}] = b
      BY <2>2 DEF Recursion
    <2> QED
      BY <2>1, <2>2, <2>3 DEF e
  <1>7. \A a \in Reader, i \in 1..n : ReadAt(q)[a, i] = ReadAt(r)[a, i]
    BY <1>1, <1>2 DEF ReadAt
  <1>8. h[1..m] = ReadAt(r)[f[1..n], m]
    <2> DEFINE H == ReadAt(q)
               K == ReadAt(r)
    <2>1. OneLonger(Reader, b, H, f, n, K, h, m)
      BY <1>1, <1>3, <1>4, <1>7 DEF OneLonger
    <2> HIDE DEF n, m, H, K
    <2>2. TakesOneMore(f, n, K, h, m)
      BY <2>1, FoldMore
    <2> QED
      BY <2>2 DEF K, TakesOneMore
  <1>9. ReadAt(r)[f[1..n], m] = ReadLetter(f[1..n], c)
    <2>1. f[1..n] \in Reader /\ m \in 1..Len(r)
      BY <1>2, <1>3
    <2> QED
      BY <1>1, <2>1 DEF ReadAt
  <1> QED
    BY <1>3, <1>4, <1>5, <1>6, <1>8, <1>9 DEF r

LetterAt(A, line) == [p \in A \X (1..Len(line)) |-> Letter(p[1], line[p[2]])]

\* What a mode line makes of a keeps to a set that no letter leads out of.
LEMMA LineFold ==
  ASSUME NEW line \in Seq(STRING), NEW A, NEW b \in A,
         \A a \in A, c \in STRING : Letter(a, c) \in A
  PROVE  FoldLeft(Letter, b, line) \in A
  <1> DEFINE n == Len(line)
             D == 1..n
             H == LetterAt(A, line)
             E(h) == [s \in SUBSET DOMAIN line |->
                        IF s = {} THEN b ELSE Letter(h[s \ {Max(s)}], line[Max(s)])]
             g == CHOOSE h : h = E(h)
  <1>1. n \in Nat /\ D = DOMAIN line /\ \A i \in D : line[i] \in STRING
    OBVIOUS
  <1>2. H \in [A \X D -> A]
    BY <1>1 DEF LetterAt
  <1>3. PICK f \in [SUBSET D -> A] : Recursion(f, n, b, H)
    <2> HIDE DEF H
    <2> QED
      BY <1>1, <1>2, FoldExists
  <1>4. \A s \in SUBSET D : s # {} => Max(s) \in D /\ Before(s) \in SUBSET D
    BY <1>1, LastPosition DEF Before
  <1>5. f = E(f)
    <2>1. \A s \in SUBSET D : s # {} =>
             H[f[Before(s)], Max(s)] = Letter(f[Before(s)], line[Max(s)])
      BY <1>3, <1>4 DEF LetterAt
    <2>2. \A s \in SUBSET D :
             f[s] = IF s = {} THEN b ELSE Letter(f[Before(s)], line[Max(s)])
      BY <1>3, <2>1 DEF Recursion
    <2> QED
      BY <1>1, <1>3, <2>2 DEF Before
  <1>6. g = E(g)
    BY <1>5
  <1>7. FoldLeft(Letter, b, line) = g[D]
    BY <1>1 DEF FoldLeft, MapThenFoldSet
  <1> HIDE DEF g
  <1>8. /\ g[{}] = b
        /\ \A s \in SUBSET D : s # {} => g[s] = Letter(g[Before(s)], line[Max(s)])
    BY <1>1, <1>6 DEF Before
  <1>9. \A s \in SUBSET D : g[s] \in A
    <2> DEFINE Q == {s \in SUBSET D : g[s] \in A}
    <2>1. {} \in Q
      BY <1>8
    <2>2. \A s \in SUBSET D : s # {} /\ Before(s) \in Q => s \in Q
      <3> SUFFICES ASSUME NEW s \in SUBSET D, s # {}, Before(s) \in Q PROVE g[s] \in A
        OBVIOUS
      <3>1. Max(s) \in D /\ g[Before(s)] \in A
        BY <1>4
      <3>2. line[Max(s)] \in STRING
        BY <1>1, <3>1
      <3>3. Letter(g[Before(s)], line[Max(s)]) \in A
        BY <3>1, <3>2
      <3> QED
        BY <1>8, <3>3
    <2>3. SUBSET D \subseteq Q
      <3> HIDE DEF Q
      <3> QED
        BY <1>1, <2>1, <2>2, PositionInduction
    <2> QED
      BY <2>3
  <1> QED
    BY <1>7, <1>9

-----------------------------------------------------------------------------
(* A mode line *)

One(data, c) == IF c \in data THEN 1 ELSE 0

Halfway == [sign : {"+", "-"}, last : {"+", "-", ""}, out : Seq(Said),
            modes : SUBSET UserModes, st : [Counters -> Int]]

\* What the echo says so far, read by who had the modes data, is what the
\* line did so far, and the counters moved with it from stats.
EchoSoFar(data, out) == Heard(Unread(data), out)
Told(a, data) ==
    /\ EchoSoFar(data, a.out).seen = a.modes
    /\ a.last = "" => a.out = <<>>
    /\ a.last # "" => EchoSoFar(data, a.out).sign = a.last /\ Len(a.out) >= 1
    /\ a.modes # data => Len(a.out) > 1
Moved(a, data, stats) ==
    /\ \A k \in Counters \ {"inv", "opers"} : a.st[k] = stats[k]
    /\ a.st["inv"] + One(data, "i") = stats["inv"] + One(a.modes, "i")
    /\ a.st["opers"] + One(data, "o") = stats["opers"] + One(a.modes, "o")
Partial(data, stats) == {a \in Halfway : Told(a, data) /\ Moved(a, data, stats)}

LEMMA UnreadType ==
  ASSUME NEW data \in SUBSET UserModes
  PROVE  Unread(data) \in Reader
  BY DEF Unread, Reader

\* A sign is written after the letters of the other sign.
LEMMA SignedKeeps ==
  ASSUME NEW data \in SUBSET UserModes, NEW stats \in [Counters -> Nat],
         NEW a \in Partial(data, stats)
  PROVE  /\ Signed(a) \in Partial(data, stats)
         /\ Signed(a).last = a.sign /\ Signed(a).sign = a.sign
         /\ Signed(a).modes = a.modes
  <1> DEFINE z == Signed(a)
             b == Unread(data)
  <1>1. a \in Halfway /\ Told(a, data) /\ Moved(a, data, stats)
    BY DEF Partial
  <1>2. a.sign \in Said /\ a.out \in Seq(Said) /\ a.sign \in {"+", "-"}
    BY <1>1 DEF Halfway, Said
  <1>3. CASE a.last = a.sign
    <2>1. z = a
      BY <1>3 DEF Signed
    <2> QED
      BY <1>3, <2>1
  <1>4. CASE a.last # a.sign
    <2>1. /\ z.sign = a.sign /\ z.last = a.sign /\ z.out = Append(a.out, a.sign)
          /\ z.modes = a.modes /\ z.st = a.st
      BY <1>1, <1>4 DEF Signed, Halfway
    <2>2. z \in Halfway
      <3>1. Append(a.out, a.sign) \in Seq(Said)
        BY <1>2, AppendProperties
      <3> QED
        BY <1>1, <1>2, <1>4, <3>1 DEF Signed, Halfway
    <2>3. Len(z.out) = Len(a.out) + 1
      BY <1>2, <2>1, AppendProperties
    <2>4. Len(a.out) \in Nat
      BY <1>2, LenProperties
    <2> HIDE DEF z
    <2>5. /\ Heard(b, a.out) \in Reader
          /\ Heard(b, z.out) = ReadLetter(Heard(b, a.out), a.sign)
      BY <1>2, <2>1, UnreadType, HeardMore
    <2>6. Heard(b, z.out).sign = a.sign /\ Heard(b, z.out).seen = Heard(b, a.out).seen
      BY <1>2, <2>5 DEF ReadLetter
    <2>7. Told(z, data)
      <3>1. EchoSoFar(data, z.out).seen = z.modes
        BY <1>1, <2>1, <2>6 DEF Told, EchoSoFar
      <3>2. z.last # "" /\ EchoSoFar(data, z.out).sign = z.last /\ Len(z.out) >= 1
        <4>1. a.sign # ""
          BY <1>2
        <4>2. Len(z.out) >= 1
          BY <2>3, <2>4
        <4> QED
          BY <2>1, <2>6, <4>1, <4>2 DEF EchoSoFar
      <3>3. z.modes # data => Len(z.out) > 1
        <4>1. a.modes # data => Len(a.out) > 1
          BY <1>1 DEF Told
        <4>2. Len(a.out) > 1 => Len(z.out) > 1
          BY <2>3, <2>4
        <4> QED
          BY <2>1, <4>1, <4>2
      <3> QED
        BY <3>1, <3>2, <3>3 DEF Told
    <2>8. Moved(z, data, stats)
      BY <1>1, <2>1 DEF Moved
    <2> QED
      BY <2>1, <2>2, <2>7, <2>8 DEF Partial, z
  <1> QED
    BY <1>3, <1>4

\* A letter that changes the flag is written after its sign, and takes its
\* counter along.
LEMMA FlagKeeps ==
  ASSUME NEW data \in SUBSET UserModes, NEW stats \in [Counters -> Nat],
         NEW a \in Partial(data, stats), a.last = a.sign, NEW c \in UserModes
  PROVE  Flag(a, c) \in Partial(data, stats)
  <1> DEFINE z == Flag(a, c)
             b == Unread(data)
             add == a.sign = "+"
             stat == IF c = "i" THEN {"inv"} ELSE IF c = "o" THEN {"opers"} ELSE {}
  <1>1. a \in Halfway /\ Told(a, data) /\ Moved(a, data, stats)
    BY DEF Partial
  <1>2. /\ a.sign \in {"+", "-"} /\ a.sign # "" /\ a.out \in Seq(Said)
        /\ a.last \in {"+", "-", ""} /\ c \in Said
        /\ a.modes \in SUBSET UserModes /\ a.st \in [Counters -> Int]
    BY <1>1 DEF Halfway, Said
  <1>3. CASE (c \in a.modes) = add \/ (add /\ c = "o")
    <2>1. z = a
      BY <1>3 DEF Flag
    <2> QED
      BY <2>1
  <1>4. CASE ~((c \in a.modes) = add \/ (add /\ c = "o"))
    <2>1. /\ z.sign = a.sign /\ z.last = a.last /\ z.out = Append(a.out, c)
          /\ z.modes = IF add THEN a.modes \cup {c} ELSE a.modes \ {c}
          /\ z.st = [k \in Counters |->
                       IF k \notin stat THEN a.st[k]
                       ELSE IF add THEN a.st[k] + 1 ELSE a.st[k] - 1]
      BY <1>4 DEF Flag
    <2>2. z.st \in [Counters -> Int]
      <3> DEFINE e(k) == IF k \notin stat THEN a.st[k]
                         ELSE IF add THEN a.st[k] + 1 ELSE a.st[k] - 1
      <3>1. \A k \in Counters : a.st[k] \in Int
        BY <1>2
      <3>2. \A k \in Counters : e(k) \in Int
        BY <3>1
      <3>3. z.st = [k \in Counters |-> e(k)]
        BY <2>1
      <3> HIDE DEF e, z
      <3> QED
        BY <3>2, <3>3
    <2>3. z \in Halfway
      <3>1. Append(a.out, c) \in Seq(Said)
        BY <1>2, AppendProperties
      <3>2. z.modes \in SUBSET UserModes
        <4>1. a.modes \cup {c} \in SUBSET UserModes /\ a.modes \ {c} \in SUBSET UserModes
          BY <1>2
        <4>2. z.modes = a.modes \cup {c} \/ z.modes = a.modes \ {c}
          BY <2>1
        <4> QED
          BY <4>1, <4>2
      <3>3. z = [sign |-> z.sign, last |-> z.last, out |-> z.out, modes |-> z.modes,
                 st |-> z.st]
        BY <1>4 DEF Flag
      <3> HIDE DEF z
      <3>4. z.sign \in {"+", "-"} /\ z.last \in {"+", "-", ""} /\ z.out \in Seq(Said)
        BY <1>2, <2>1, <3>1
      <3> QED
        BY <2>2, <3>2, <3>3, <3>4 DEF Halfway
    <2> DEFINE q == a.out
    <2>w. z.out = Append(q, c) /\ q \in Seq(Said) /\ c \in Said
      BY <1>2, <2>1
    <2>4. Len(z.out) = Len(a.out) + 1
      <3> HIDE DEF z, q
      <3>1. Len(Append(q, c)) = Len(q) + 1
        BY <2>w, AppendProperties
      <3> QED
        BY <2>w, <3>1 DEF q
    <2>5. Len(a.out) \in Nat /\ Len(a.out) >= 1
      <3>1. Len(a.out) \in Nat
        BY <1>2, LenProperties
      <3> QED
        BY <1>1, <1>2, <3>1 DEF Told
    <2> HIDE DEF z
    <2>6. /\ Heard(b, a.out) \in Reader
          /\ Heard(b, z.out) = ReadLetter(Heard(b, a.out), c)
      <3>1. b \in Reader
        BY UnreadType
      <3> HIDE DEF b, q
      <3>2. Heard(b, q) \in Reader /\ Heard(b, Append(q, c)) = ReadLetter(Heard(b, q), c)
        BY <2>w, <3>1, HeardMore
      <3> QED
        BY <2>w, <3>2 DEF q
    <2>7. /\ Heard(b, a.out).sign = a.sign
          /\ Heard(b, a.out).seen = a.modes
      BY <1>1, <1>2 DEF Told, EchoSoFar
    <2>8. /\ Heard(b, z.out).sign = a.sign
          /\ Heard(b, z.out).seen = z.modes
      <3>1. c \notin {"+", "-"}
        BY DEF UserModes
      <3>2. Heard(b, z.out) =
              [sign |-> a.sign,
               seen |-> IF a.sign = "+" THEN a.modes \cup {c} ELSE a.modes \ {c}]
        BY <2>6, <2>7, <3>1 DEF ReadLetter
      <3> QED
        BY <2>1, <3>2
    <2>9. Told(z, data)
      <3>1. EchoSoFar(data, z.out).seen = z.modes
        BY <2>8 DEF EchoSoFar
      <3>2. Len(z.out) > 1 /\ Len(z.out) >= 1
        BY <2>4, <2>5
      <3>3. z.last # "" /\ EchoSoFar(data, z.out).sign = z.last
        BY <1>2, <2>1, <2>8 DEF EchoSoFar
      <3> QED
        BY <3>1, <3>2, <3>3 DEF Told
    <2>10. Moved(z, data, stats)
      <3>1. stat \subseteq {"inv", "opers"}
        OBVIOUS
      <3>2. \A k \in Counters \ {"inv", "opers"} : z.st[k] = stats[k]
        BY <1>1, <2>1, <3>1 DEF Moved
      <3>3. "inv" \in Counters /\ "opers" \in Counters
        BY DEF Counters
      <3>4. a.st["inv"] \in Int /\ a.st["opers"] \in Int
        BY <1>2, <3>3
      <3>0. /\ a.st["inv"] + One(data, "i") = stats["inv"] + One(a.modes, "i")
            /\ a.st["opers"] + One(data, "o") = stats["opers"] + One(a.modes, "o")
            /\ stats["inv"] \in Int /\ stats["opers"] \in Int
            /\ One(data, "i") \in Int /\ One(data, "o") \in Int
            /\ One(a.modes, "i") \in Int /\ One(a.modes, "o") \in Int
        <4>1. /\ a.st["inv"] + One(data, "i") = stats["inv"] + One(a.modes, "i")
              /\ a.st["opers"] + One(data, "o") = stats["opers"] + One(a.modes, "o")
          BY <1>1 DEF Moved
        <4>2. stats["inv"] \in Int /\ stats["opers"] \in Int
          BY <3>3
        <4>3. /\ One(data, "i") \in Int /\ One(data, "o") \in Int
              /\ One(a.modes, "i") \in Int /\ One(a.modes, "o") \in Int
          BY DEF One
        <4> QED
          BY <4>1, <4>2, <4>3
      <3>5. CASE add
        <4>1. c \notin a.modes /\ c # "o" /\ z.modes = a.modes \cup {c}
          BY <1>4, <2>1, <3>5
        <4>2. /\ One(z.modes, "i") = IF c = "i" THEN 1 ELSE One(a.modes, "i")
              /\ c = "i" => One(a.modes, "i") = 0
              /\ One(z.modes, "o") = One(a.modes, "o")
          BY <4>1 DEF One
        <4>3. /\ z.st["inv"] = IF c = "i" THEN a.st["inv"] + 1 ELSE a.st["inv"]
              /\ z.st["opers"] = a.st["opers"]
          BY <2>1, <3>3, <3>5, <4>1
        <4>4. z.st["inv"] + One(data, "i") = stats["inv"] + One(z.modes, "i")
          BY <3>0, <3>4, <4>2, <4>3
        <4>5. z.st["opers"] + One(data, "o") = stats["opers"] + One(z.modes, "o")
          BY <3>0, <3>4, <4>2, <4>3
        <4> QED
          BY <3>2, <4>4, <4>5 DEF Moved
      <3>6. CASE ~add
        <4>1. c \in a.modes /\ z.modes = a.modes \ {c}
          BY <1>4, <2>1, <3>6
        <4>2. /\ One(z.modes, "i") = IF c = "i" THEN 0 ELSE One(a.modes, "i")
              /\ c = "i" => One(a.modes, "i") = 1
              /\ One(z.modes, "o") = IF c = "o" THEN 0 ELSE One(a.modes, "o")
              /\ c = "o" => One(a.modes, "o") = 1
          BY <4>1 DEF One
        <4>3. /\ z.st["inv"] = IF c = "i" THEN a.st["inv"] - 1 ELSE a.st["inv"]
              /\ z.st["opers"] = IF c = "o" THEN a.st["opers"] - 1 ELSE a.st["opers"]
          BY <2>1, <3>3, <3>6
        <4>4. z.st["inv"] + One(data, "i") = stats["inv"] + One(z.modes, "i")
          <5>1. CASE c = "i"
            <6>1. /\ One(z.modes, "i") = 0 /\ One(a.modes, "i") = 1
                  /\ z.st["inv"] = a.st["inv"] - 1
              BY <4>2, <4>3, <5>1
            <6>2. a.st["inv"] + One(data, "i") = stats["inv"] + 1
              BY <3>0, <6>1
            <6>3. (a.st["inv"] - 1) + One(data, "i") = stats["inv"] + 0
              <7> DEFINE n == a.st["inv"]
                         d == One(data, "i")
                         s == stats["inv"]
              <7>1. n \in Int /\ d \in Int /\ s \in Int /\ n + d = s + 1
                BY <3>0, <3>4, <6>2
              <7> HIDE DEF n, d, s
              <7>2. (n - 1) + d = s + 0
                BY <7>1
              <7> QED
                BY <7>2 DEF n, d, s
            <6> QED
              BY <6>1, <6>3
          <5>2. CASE c # "i"
            <6>1. One(z.modes, "i") = One(a.modes, "i") /\ z.st["inv"] = a.st["inv"]
              BY <4>2, <4>3, <5>2
            <6> QED
              BY <3>0, <3>4, <6>1
          <5> QED
            BY <5>1, <5>2
        <4>5. z.st["opers"] + One(data, "o") = stats["opers"] + One(z.modes, "o")
          <5>1. CASE c = "o"
            <6>1. /\ One(z.modes, "o") = 0 /\ One(a.modes, "o") = 1
                  /\ z.st["opers"] = a.st["opers"] - 1
              BY <4>2, <4>3, <5>1
            <6> QED
              BY <3>0, <3>4, <6>1
          <5>2. CASE c # "o"
            <6>1. One(z.modes, "o") = One(a.modes, "o") /\ z.st["opers"] = a.st["opers"]
              BY <4>2, <4>3, <5>2
            <6> QED
              BY <3>0, <3>4, <6>1
          <5> QED
            BY <5>1, <5>2
        <4> QED
          BY <3>2, <4>4, <4>5 DEF Moved
      <3> QED
        BY <3>5, <3>6
    <2> QED
      BY <2>3, <2>9, <2>10 DEF Partial, z
  <1> QED
    BY <1>3, <1>4

LEMMA LetterKeeps ==
  ASSUME NEW data \in SUBSET UserModes, NEW stats \in [Counters -> Nat],
         NEW a \in Partial(data, stats), NEW c \in STRING
  PROVE  Letter(a, c) \in Partial(data, stats)
  <1>1. CASE c \in {"+", "-"}
    <2> DEFINE z == Letter(a, c)
    <2>1. a \in Halfway /\ Told(a, data) /\ Moved(a, data, stats)
      BY DEF Partial
    <2>2. z = [a EXCEPT !.sign = c]
      BY <1>1 DEF Letter
    <2>3. z \in Halfway
      BY <1>1, <2>1, <2>2 DEF Halfway
    <2>4. z.last = a.last /\ z.out = a.out /\ z.modes = a.modes /\ z.st = a.st
      BY <2>1, <2>2 DEF Halfway
    <2> HIDE DEF z
    <2>5. Told(z, data) /\ Moved(z, data, stats)
      BY <2>1, <2>4 DEF Told, Moved
    <2> QED
      BY <2>3, <2>5 DEF Partial, z
  <1>2. CASE c \notin {"+", "-"} /\ c \notin UserModes
    BY <1>2 DEF Letter
  <1>3. CASE c \notin {"+", "-"} /\ c \in UserModes
    <2> DEFINE z == Signed(a)
    <2>1. z \in Partial(data, stats) /\ z.last = z.sign
      BY SignedKeeps
    <2>2. Letter(a, c) = Flag(z, c)
      BY <1>3 DEF Letter
    <2> HIDE DEF z
    <2>3. Flag(z, c) \in Partial(data, stats)
      BY <1>3, <2>1, FlagKeeps
    <2> QED
      BY <2>2, <2>3
  <1> QED
    BY <1>1, <1>2, <1>3

LEMMA LineKeeps ==
  ASSUME NEW x, modes[x] \in SUBSET UserModes, st \in [Counters -> Nat],
         NEW line \in Seq(STRING)
  PROVE  FoldLeft(Letter, Unchanged(x), line) \in Partial(modes[x], st)
  <1> DEFINE data == modes[x]
             A == Partial(data, st)
             a == Unchanged(x)
  <1>1. /\ a.sign = "+" /\ a.last = "" /\ a.out = <<>> /\ a.modes = data /\ a.st = st
        /\ a \in Halfway
    <2>1. <<>> \in Seq(Said) /\ st \in [Counters -> Int]
      OBVIOUS
    <2> QED
      BY <2>1 DEF Unchanged, Halfway
  <1>2. EchoSoFar(data, <<>>).seen = data
    <2>1. <<>> \in Seq(Said) /\ "+" \in Said /\ Unread(data) \in Reader
      BY UnreadType DEF Said
    <2>2. Heard(Unread(data), <<>>) = Unread(data)
      BY <2>1, HeardMore
    <2> QED
      BY <2>2 DEF EchoSoFar, Unread
  <1>3. a \in A
    BY <1>1, <1>2 DEF Partial, Told, Moved
  <1>4. \A p \in A, c \in STRING : Letter(p, c) \in A
    BY LetterKeeps
  <1> HIDE DEF A, a
  <1>5. FoldLeft(Letter, a, line) \in A
    BY <1>3, <1>4, LineFold
  <1> QED
    BY <1>5 DEF A, a

-----------------------------------------------------------------------------
(* Counting the users that bear a letter *)

Bearers(U, f, c) == {y \in U : c \in f[y]}

LEMMA BearersFinite ==
  ASSUME NEW U \in SUBSET Sockets, NEW f, NEW c
  PROVE  IsFiniteSet(Bearers(U, f, c)) /\ Cardinality(Bearers(U, f, c)) \in Nat
  <1>1. Bearers(U, f, c) \subseteq Sockets
    BY DEF Bearers
  <1>2. IsFiniteSet(Bearers(U, f, c))
    BY <1>1, StatsParams, FS_Subset
  <1> QED
    BY <1>2, FS_CardinalityType

\* f, the modes of the users U, becomes g where x becomes data.
Changed(U, f, x, data, g) ==
    /\ U \in SUBSET Sockets /\ x \in U
    /\ f \in [Sockets -> SUBSET UserModes]
    /\ g = [f EXCEPT ![x] = data]

\* The modes of one user become data.
LEMMA Recount ==
  ASSUME NEW U, NEW f, NEW x, NEW data, NEW g, Changed(U, f, x, data, g), NEW c
  PROVE  Cardinality(Bearers(U, g, c)) + One(f[x], c)
         = Cardinality(Bearers(U, f, c)) + One(data, c)
  <1> DEFINE S == Bearers(U, f, c)
             T == Bearers(U, g, c)
  <1>0. /\ U \in SUBSET Sockets /\ x \in U /\ f \in [Sockets -> SUBSET UserModes]
        /\ g = [f EXCEPT ![x] = data]
    BY DEF Changed
  <1>1. \A y \in U : g[y] = IF y = x THEN data ELSE f[y]
    BY <1>0
  <1>2. IsFiniteSet(S) /\ Cardinality(S) \in Nat /\ IsFiniteSet(T) /\ Cardinality(T) \in Nat
    BY <1>0, BearersFinite
  <1>3. /\ x \in S <=> c \in f[x]
        /\ x \in T <=> c \in data
        /\ S \ {x} = T \ {x}
    BY <1>0, <1>1 DEF Bearers
  <1> HIDE DEF S, T
  <1>4. Cardinality(S \ {x}) = IF x \in S THEN Cardinality(S) - 1 ELSE Cardinality(S)
    BY <1>2, FS_RemoveElement
  <1>5. Cardinality(T \ {x}) = IF x \in T THEN Cardinality(T) - 1 ELSE Cardinality(T)
    BY <1>2, FS_RemoveElement
  <1>6. /\ One(f[x], c) = IF x \in S THEN 1 ELSE 0
        /\ One(data, c) = IF x \in T THEN 1 ELSE 0
    BY <1>3 DEF One
  <1>7. Cardinality(T) + One(f[x], c) = Cardinality(S) + One(data, c)
    <2> DEFINE s == Cardinality(S)
               t == Cardinality(T)
               d == Cardinality(T \ {x})
    <2>1. /\ s \in Nat /\ t \in Nat
          /\ d = IF x \in S THEN s - 1 ELSE s
          /\ d = IF x \in T THEN t - 1 ELSE t
      BY <1>2, <1>3, <1>4, <1>5
    <2> HIDE DEF s, t, d
    <2>2. t + (IF x \in S THEN 1 ELSE 0) = s + (IF x \in T THEN 1 ELSE 0)
      <3>1. CASE x \in S /\ x \in T
        BY <2>1, <3>1
      <3>2. CASE x \in S /\ x \notin T
        BY <2>1, <3>2
      <3>3. CASE x \notin S /\ x \in T
        BY <2>1, <3>3
      <3>4. CASE x \notin S /\ x \notin T
        BY <2>1, <3>4
      <3> QED
        BY <3>1, <3>2, <3>3, <3>4
    <2> QED
      BY <1>6, <2>2 DEF s, t
  <1> QED
    BY <1>7 DEF S, T

\* One user goes.
LEMMA OneGoes ==
  ASSUME NEW U, NEW f, NEW x, NEW g, Changed(U, f, x, {}, g), NEW V, V = U \ {x}, NEW c
  PROVE  Cardinality(Bearers(V, g, c))
         = IF c \in f[x] THEN Less(Cardinality(Bearers(U, f, c)))
                         ELSE Cardinality(Bearers(U, f, c))
  <1> DEFINE S == Bearers(U, f, c)
             T == Bearers(V, g, c)
  <1>0. /\ U \in SUBSET Sockets /\ x \in U /\ f \in [Sockets -> SUBSET UserModes]
        /\ g = [f EXCEPT ![x] = {}]
    BY DEF Changed
  <1>1. \A y \in V : g[y] = f[y]
    BY <1>0
  <1>2. T = S \ {x} /\ (x \in S <=> c \in f[x])
    BY <1>0, <1>1 DEF Bearers
  <1>3. IsFiniteSet(S) /\ Cardinality(S) \in Nat
    BY <1>0, BearersFinite
  <1> HIDE DEF S, T
  <1>4. Cardinality(S \ {x}) = IF x \in S THEN Cardinality(S) - 1 ELSE Cardinality(S)
    BY <1>3, FS_RemoveElement
  <1>5. x \in S => Cardinality(S) > 0
    BY <1>3, FS_EmptySet
  <1>6. Cardinality(T) = IF c \in f[x] THEN Less(Cardinality(S)) ELSE Cardinality(S)
    BY <1>2, <1>3, <1>4, <1>5 DEF Less
  <1> QED
    BY <1>6 DEF S, T

-----------------------------------------------------------------------------
(* The counters *)

LEMMA CountersType ==
  /\ "inv" \in Counters /\ "opers" \in Counters /\ "cur" \in Counters
  /\ "unk" \in Counters /\ "total" \in Counters /\ "max" \in Counters
  /\ "local" \in Counters /\ "localMax" \in Counters /\ "usersMax" \in Counters
  BY DEF Counters

LEMMA LessType == \A n \in Nat : Less(n) \in Nat
  BY DEF Less

LEMMA AtLeastType == \A n, m \in Nat : AtLeast(n, m) \in Nat
  BY DEF AtLeast

LEMMA CountedStats ==
  ASSUME st \in [Counters -> Nat]
  PROVE  /\ Counted \in [Counters -> Nat]
         /\ Counted["inv"] = st["inv"] /\ Counted["opers"] = st["opers"]
         /\ Counted["cur"] = st["cur"] + 1
  <1>1. \A c \in Counters : st[c] \in Nat
    OBVIOUS
  <1>2. st["cur"] + 1 \in Nat /\ st["unk"] + 1 \in Nat /\ st["total"] + 1 \in Nat
    BY <1>1, CountersType
  <1>3. AtLeast(st["max"], st["cur"] + 1) \in Nat
    BY <1>1, <1>2, CountersType, AtLeastType
  <1>4. Counted["inv"] = st["inv"] /\ Counted["opers"] = st["opers"]
    BY CountersType DEF Counted
  <1>5. Counted["cur"] = st["cur"] + 1
    BY CountersType DEF Counted
  <1>6. Counted \in [Counters -> Nat]
    BY <1>1, <1>2, <1>3, CountersType DEF Counted
  <1> QED
    BY <1>4, <1>5, <1>6

LEMMA DestructedStats ==
  ASSUME NEW s \in [Counters -> Nat], NEW x
  PROVE  /\ Destructed(x, s) \in [Counters -> Nat]
         /\ Destructed(x, s)["inv"] = IF Has(x, "i") THEN Less(s["inv"]) ELSE s["inv"]
         /\ Destructed(x, s)["opers"] = IF Has(x, "o") THEN Less(s["opers"]) ELSE s["opers"]
         /\ Destructed(x, s)["cur"] = s["cur"]
  <1>1. \A c \in Counters : s[c] \in Nat /\ Less(s[c]) \in Nat
    BY LessType
  <1>2. Destructed(x, s)["inv"] = IF Has(x, "i") THEN Less(s["inv"]) ELSE s["inv"]
    BY CountersType DEF Destructed
  <1>3. Destructed(x, s)["opers"] = IF Has(x, "o") THEN Less(s["opers"]) ELSE s["opers"]
    BY CountersType DEF Destructed
  <1>4. Destructed(x, s)["cur"] = s["cur"]
    BY CountersType DEF Destructed
  <1>5. Destructed(x, s) \in [Counters -> Nat]
    BY <1>1, CountersType DEF Destructed
  <1> QED
    BY <1>2, <1>3, <1>4, <1>5

-----------------------------------------------------------------------------
(* The inductive invariant *)

\* A doomed user has lost its connection, and a connection has a user or
\* belongs to a server.
Places ==
    /\ conns \subseteq Sockets /\ users \subseteq Sockets /\ servers \subseteq Sockets
    /\ unready \subseteq users
    /\ doomed \subseteq users \ conns
    /\ conns \subseteq users \cup servers

Typed ==
    /\ modes \in [Sockets -> SUBSET UserModes]
    /\ reports \in [Sockets -> Nat]
    /\ st \in [Counters -> Nat]

\* Who is no user has no modes, and nobody believes anything else of its own.
Known ==
    /\ told = modes
    /\ \A x \in Sockets \ users : modes[x] = {}

Counts ==
    /\ st["inv"] = Cardinality(Bearers(users, modes, "i"))
    /\ st["opers"] = Cardinality(Bearers(users, modes, "o"))

\* Without a second report of a socket, each that waits is the only one, and
\* the slot is still taken.
Slots ==
    /\ Cardinality(conns) =< MaxConnections
    /\ ~twice => /\ st["cur"] = Cardinality(conns)
                 /\ \A x \in Sockets : /\ reports[x] =< 1
                                       /\ reports[x] > 0 => x \in conns

IInv == Places /\ Typed /\ Known /\ Counts /\ Slots

LEMMA InitIInv == Init => IInv
  <1> SUFFICES ASSUME Init PROVE IInv
    OBVIOUS
  <1>1. Places
    BY DEF Init, Places
  <1>2. Typed
    BY DEF Init, Typed
  <1>3. Known
    BY DEF Init, Known
  <1>4. Counts
    <2>1. Bearers(users, modes, "i") = {} /\ Bearers(users, modes, "o") = {}
      BY DEF Init, Bearers
    <2> QED
      BY <2>1, FS_EmptySet, CountersType DEF Init, Counts
  <1>5. Slots
    BY StatsParams, FS_EmptySet, CountersType DEF Init, Slots
  <1> QED
    BY <1>1, <1>2, <1>3, <1>4, <1>5 DEF IInv

\* The slots are finitely many, and one more or less is one.
LEMMA ConnsFinite ==
  ASSUME Places, NEW x
  PROVE  /\ IsFiniteSet(conns) /\ Cardinality(conns) \in Nat
         /\ Cardinality(conns \cup {x}) =
                IF x \in conns THEN Cardinality(conns) ELSE Cardinality(conns) + 1
         /\ Cardinality(conns \ {x}) =
                IF x \in conns THEN Cardinality(conns) - 1 ELSE Cardinality(conns)
  <1>1. IsFiniteSet(conns)
    BY StatsParams, FS_Subset DEF Places
  <1> QED
    BY <1>1, FS_CardinalityType, FS_AddElement, FS_RemoveElement

\* What a step that moves only the counters of connections must show.
LEMMA CountsKept ==
  ASSUME IInv, users' = users, UNCHANGED <<modes, told>>,
         st'["inv"] = st["inv"], st'["opers"] = st["opers"]
  PROVE  Known' /\ Counts'
  BY DEF IInv, Known, Counts, Bearers

LEMMA AcceptIInv ==
  ASSUME IInv, NEW x \in Sockets, AcceptClient(x) \/ AcceptServer(x)
  PROVE  IInv'
  <1> USE DEF IInv
  <1>1. /\ x \notin conns \cup users /\ reports[x] = 0
        /\ Cardinality(conns) < MaxConnections
        /\ conns' = conns \cup {x} /\ st' = Counted
        /\ UNCHANGED <<doomed, modes, told, reports, twice>>
    BY DEF AcceptClient, AcceptServer, MayAccept
  <1>2. \/ users' = users \cup {x} /\ unready' = unready \cup {x} /\ servers' = servers
        \/ users' = users /\ unready' = unready /\ servers' = servers \cup {x}
    BY DEF AcceptClient, AcceptServer
  <1>3. Places'
    BY <1>1, <1>2 DEF Places
  <1>4. Typed'
    BY <1>1, CountedStats DEF Typed
  <1>5. Known'
    BY <1>1, <1>2 DEF Known
  <1>6. Counts'
    <2>1. modes[x] = {}
      BY <1>1 DEF Known
    <2>2. \A c : Bearers(users', modes', c) = Bearers(users, modes, c)
      BY <1>1, <1>2, <2>1 DEF Bearers
    <2>3. st'["inv"] = st["inv"] /\ st'["opers"] = st["opers"]
      BY <1>1, CountedStats DEF Typed
    <2> QED
      BY <2>2, <2>3 DEF Counts
  <1>7. Slots'
    <2>1. Cardinality(conns') = Cardinality(conns) + 1 /\ Cardinality(conns) \in Nat
      BY <1>1, ConnsFinite
    <2>2. Cardinality(conns') =< MaxConnections
      BY <1>1, <2>1, StatsParams
    <2>3. st'["cur"] = st["cur"] + 1
      BY <1>1, CountedStats DEF Typed
    <2> QED
      BY <1>1, <2>1, <2>2, <2>3 DEF Slots
  <1> QED
    BY <1>3, <1>4, <1>5, <1>6, <1>7

LEMMA QuietIInv ==
  ASSUME IInv,
         \/ AcceptFails
         \/ \E x \in Sockets : Introduce(x)
         \/ UNCHANGED vars
  PROVE  IInv'
  <1>1. UNCHANGED <<conns, users, servers, doomed, modes, told, reports, st, twice>>
    BY DEF AcceptFails, Introduce, vars
  <1>2. unready' \subseteq unready
    BY DEF AcceptFails, Introduce, vars
  <1> QED
    BY <1>1, <1>2 DEF IInv, Places, Typed, Known, Counts, Slots, Bearers

LEMMA RegisterIInv ==
  ASSUME IInv, NEW x \in Sockets, Register(x)
  PROVE  IInv'
  <1> USE DEF IInv
  <1>1. UNCHANGED <<conns, users, servers, unready, doomed, modes, told, reports, twice>>
    BY DEF Register
  <1>2. /\ st'["inv"] = st["inv"] /\ st'["opers"] = st["opers"] /\ st'["cur"] = st["cur"]
        /\ st' \in [Counters -> Nat]
    <2>1. \A c \in Counters : st[c] \in Nat /\ Less(st[c]) \in Nat /\ st[c] + 1 \in Nat
      BY LessType DEF Typed
    <2>2. AtLeast(Cardinality(users), st["usersMax"]) \in Nat
      <3>1. IsFiniteSet(users)
        BY StatsParams, FS_Subset DEF Places
      <3>2. Cardinality(users) \in Nat
        BY <3>1, FS_CardinalityType
      <3> QED
        BY <2>1, <3>2, CountersType, AtLeastType
    <2>3. AtLeast(st["local"] + 1, st["localMax"]) \in Nat
      BY <2>1, CountersType, AtLeastType
    <2>4. st'["inv"] = st["inv"] /\ st'["opers"] = st["opers"] /\ st'["cur"] = st["cur"]
      BY CountersType DEF Register, Typed
    <2>5. st' \in [Counters -> Nat]
      BY <2>1, <2>2, <2>3, CountersType DEF Register, Typed
    <2> QED
      BY <2>4, <2>5
  <1>3. Places' /\ Typed' /\ Slots'
    BY <1>1, <1>2 DEF Places, Typed, Slots
  <1>4. Known' /\ Counts'
    BY <1>1, <1>2, CountsKept
  <1> QED
    BY <1>3, <1>4

\* A user's modes become data, it is told so, and the two counters follow.
LEMMA BecomesIInv ==
  ASSUME IInv, NEW x \in users, NEW data \in SUBSET UserModes,
         Becomes(x, data, data), st' \in [Counters -> Int],
         Moved([st |-> st', modes |-> data], modes[x], st)
  PROVE  IInv'
  <1> USE DEF IInv
  <1>1. /\ modes' = [modes EXCEPT ![x] = data] /\ told' = [told EXCEPT ![x] = data]
        /\ UNCHANGED <<conns, users, servers, unready, doomed, reports, twice>>
    BY DEF Becomes
  <1>2. x \in Sockets /\ users \in SUBSET Sockets
    BY DEF Places
  <1>3. Places'
    BY <1>1 DEF Places
  <1>4. Known'
    BY <1>1, <1>2 DEF Known, Typed
  <1>5. /\ \A k \in Counters \ {"inv", "opers"} : st'[k] = st[k]
        /\ st'["inv"] + One(modes[x], "i") = st["inv"] + One(data, "i")
        /\ st'["opers"] + One(modes[x], "o") = st["opers"] + One(data, "o")
    BY DEF Moved
  <1>6. Counts'
    <2> DEFINE Now(c) == Cardinality(Bearers(users, modes', c))
               Then(c) == Cardinality(Bearers(users, modes, c))
    <2>1. ASSUME NEW c PROVE Now(c) + One(modes[x], c) = Then(c) + One(data, c)
      <3>1. Changed(users, modes, x, data, modes')
        BY <1>1, <1>2 DEF Typed, Changed
      <3> QED
        BY <3>1, Recount
    <2>2. \A c : Now(c) \in Nat /\ Then(c) \in Nat /\ One(modes[x], c) \in Int
                /\ One(data, c) \in Int
      BY <1>2, BearersFinite DEF One
    <2>3. st["inv"] = Then("i") /\ st["opers"] = Then("o")
      BY DEF Counts
    <2>4. st'["inv"] \in Int /\ st'["opers"] \in Int
      BY CountersType
    <2> HIDE DEF Now, Then
    <2>5. st'["inv"] = Now("i")
      <3>1. /\ Now("i") + One(modes[x], "i") = Then("i") + One(data, "i")
            /\ Now("i") \in Nat /\ Then("i") \in Nat /\ One(modes[x], "i") \in Int
            /\ One(data, "i") \in Int
        BY <2>1, <2>2
      <3> QED
        BY <1>5, <2>3, <2>4, <3>1
    <2>6. st'["opers"] = Now("o")
      <3>1. /\ Now("o") + One(modes[x], "o") = Then("o") + One(data, "o")
            /\ Now("o") \in Nat /\ Then("o") \in Nat /\ One(modes[x], "o") \in Int
            /\ One(data, "o") \in Int
        BY <2>1, <2>2
      <3> DEFINE p == st'["opers"]
                 q == st["opers"]
                 n == One(modes[x], "o")
                 d == One(data, "o")
                 s == Now("o")
      <3>2. /\ p \in Int /\ q \in Int /\ n \in Int /\ d \in Int /\ s \in Int
            /\ p + n = q + d /\ s + n = q + d
        BY <1>5, <2>3, <2>4, <3>1
      <3> HIDE DEF p, q, n, d, s
      <3>3. p = s
        BY <3>2
      <3> QED
        BY <3>3 DEF p, s
    <2> QED
      BY <1>1, <2>5, <2>6 DEF Counts, Now
  <1>7. Typed'
    <2>1. users' \in SUBSET Sockets
      BY <1>1, <1>2
    <2>2. st'["inv"] \in Nat /\ st'["opers"] \in Nat
      BY <1>6, <2>1, BearersFinite DEF Counts
    <2>3. \A k \in Counters : st'[k] \in Nat
      BY <1>5, <2>2 DEF Typed
    <2>4. st' \in [Counters -> Nat]
      BY <2>3
    <2> QED
      BY <1>1, <1>2, <2>4 DEF Typed
  <1>8. Slots'
    <2>1. st'["cur"] = st["cur"]
      BY <1>5, CountersType
    <2> QED
      BY <1>1, <2>1 DEF Slots
  <1> QED
    BY <1>3, <1>4, <1>6, <1>7, <1>8

LEMMA OperIInv ==
  ASSUME IInv, NEW x \in Sockets, Oper(x)
  PROVE  IInv'
  <1> DEFINE data == modes[x] \cup {"o"}
  <1>1. /\ x \in users /\ modes[x] \in SUBSET UserModes /\ st \in [Counters -> Nat]
        /\ told[x] = modes[x]
    BY DEF IInv, Oper, Commands, Typed, Known
  <1>2. data \in SUBSET UserModes /\ told[x] \cup Modestr(data) = data
    BY <1>1 DEF UserModes, Modestr
  <1>3. Becomes(x, data, data)
    BY <1>2 DEF Oper
  <1>4. /\ st' \in [Counters -> Int]
        /\ Moved([st |-> st', modes |-> data], modes[x], st)
    <2>1. st' = IF "o" \in modes[x] THEN st ELSE [st EXCEPT !["opers"] = @ + 1]
      BY DEF Oper, Has
    <2>2. One(data, "i") = One(modes[x], "i") /\ One(data, "o") = 1
      BY DEF One
    <2>3. st["opers"] \in Nat /\ "opers" \in Counters /\ "inv" \in Counters
      BY <1>1, CountersType
    <2>4. CASE "o" \in modes[x]
      <3>1. st' = st /\ One(modes[x], "o") = 1
        BY <2>1, <2>4 DEF One
      <3>2. st' \in [Counters -> Int]
        BY <1>1, <3>1
      <3> HIDE DEF data
      <3> QED
        BY <2>2, <3>1, <3>2 DEF Moved
    <2>5. CASE "o" \notin modes[x]
      <3>1. st' = [st EXCEPT !["opers"] = @ + 1] /\ One(modes[x], "o") = 0
        BY <2>1, <2>5 DEF One
      <3>2. st' \in [Counters -> Int]
        BY <1>1, <2>3, <3>1
      <3>3. /\ st'["opers"] = st["opers"] + 1
            /\ \A k \in Counters : k # "opers" => st'[k] = st[k]
        BY <1>1, <2>3, <3>1
      <3>4. st'["opers"] + One(modes[x], "o") = st["opers"] + One(data, "o")
        BY <2>2, <2>3, <3>1, <3>3
      <3>5. st'["inv"] + One(modes[x], "i") = st["inv"] + One(data, "i")
        BY <2>2, <2>3, <3>3
      <3> HIDE DEF data
      <3> QED
        BY <3>2, <3>3, <3>4, <3>5 DEF Moved
    <2> QED
      BY <2>4, <2>5
  <1> HIDE DEF data
  <1> QED
    BY <1>1, <1>2, <1>3, <1>4, BecomesIInv

LEMMA UserModeIInv ==
  ASSUME IInv, NEW x \in Sockets, NEW line \in Lines, UserMode(x, line)
  PROVE  IInv'
  <1> DEFINE data == modes[x]
             a == FoldLeft(Letter, Unchanged(x), line)
  <1>1. /\ x \in users /\ data \in SUBSET UserModes /\ st \in [Counters -> Nat]
        /\ told[x] = data
    BY DEF IInv, UserMode, Commands, Typed, Known
  <1>2. a \in Partial(data, st)
    BY <1>1, StatsParams, LineKeeps
  <1>3. /\ Becomes(x, a.modes, IF Len(a.out) > 1 THEN Read(told[x], a.out) ELSE told[x])
        /\ st' = a.st
    BY DEF UserMode
  <1> HIDE DEF a
  <1>4. a \in Halfway /\ Told(a, data) /\ Moved(a, data, st)
    BY <1>2 DEF Partial
  <1>5. (IF Len(a.out) > 1 THEN Read(told[x], a.out) ELSE told[x]) = a.modes
    <2>1. Read(told[x], a.out) = a.modes
      BY <1>1, <1>4 DEF Told, EchoSoFar, Heard, Read
    <2>2. ~(Len(a.out) > 1) => told[x] = a.modes
      BY <1>1, <1>4 DEF Told
    <2> QED
      BY <2>1, <2>2
  <1>6. Becomes(x, a.modes, a.modes)
    BY <1>3, <1>5
  <1>7. a.modes \in SUBSET UserModes /\ st' \in [Counters -> Int]
    BY <1>3, <1>4 DEF Halfway
  <1>8. Moved([st |-> st', modes |-> a.modes], modes[x], st)
    BY <1>3, <1>4 DEF Moved
  <1> QED
    BY <1>1, <1>6, <1>7, <1>8, BecomesIInv

LEMMA ReportIInv ==
  ASSUME IInv, NEW x \in Sockets, Report(x)
  PROVE  IInv'
  <1> USE DEF IInv
  <1>1. /\ reports' = [reports EXCEPT ![x] = @ + 1]
        /\ twice' = (twice \/ x \notin conns \/ reports[x] > 0)
        /\ UNCHANGED <<conns, users, servers, unready, doomed, modes, told, st>>
    BY DEF Report
  <1>2. \A y \in Sockets : /\ reports[y] \in Nat
                          /\ reports'[y] = IF y = x THEN reports[x] + 1 ELSE reports[y]
    BY <1>1 DEF Typed
  <1>3. Typed'
    <2>1. \A y \in Sockets : reports'[y] \in Nat
      BY <1>2
    <2>2. reports' \in [Sockets -> Nat]
      BY <1>1, <2>1 DEF Typed
    <2> QED
      BY <1>1, <2>2 DEF Typed
  <1>4. Slots'
    <2>1. ASSUME ~twice', NEW y \in Sockets
          PROVE  reports'[y] =< 1 /\ (reports'[y] > 0 => y \in conns')
      <3>1. ~twice /\ x \in conns /\ ~(reports[x] > 0)
        BY <1>1, <2>1
      <3>2. CASE y = x
        BY <1>1, <1>2, <3>1, <3>2
      <3>3. CASE y # x
        BY <1>1, <1>2, <3>1, <3>3 DEF Slots
      <3> QED
        BY <3>2, <3>3
    <2>2. ~twice' => ~twice
      BY <1>1
    <2> QED
      BY <1>1, <2>1, <2>2 DEF Slots
  <1>5. Places' /\ Known' /\ Counts'
    BY <1>1 DEF Places, Known, Counts, Bearers
  <1> QED
    BY <1>3, <1>4, <1>5

\* The two counters follow the user that goes.
LEMMA DeleteKeeps ==
  ASSUME IInv, NEW x \in users, Delete(x), NEW s \in [Counters -> Nat],
         s["inv"] = st["inv"], s["opers"] = st["opers"], st' = Destructed(x, s)
  PROVE  /\ Known' /\ Counts'
         /\ modes' \in [Sockets -> SUBSET UserModes] /\ st' \in [Counters -> Nat]
         /\ st'["cur"] = s["cur"]
  <1> USE DEF IInv
  <1>1. /\ users' = users \ {x} /\ modes' = [modes EXCEPT ![x] = {}]
        /\ told' = [told EXCEPT ![x] = {}]
    BY DEF Delete
  <1>2. /\ users \in SUBSET Sockets /\ x \in Sockets
        /\ modes \in [Sockets -> SUBSET UserModes]
    BY DEF Places, Typed
  <1>3. Known'
    BY <1>1, <1>2 DEF Known
  <1>4. modes' \in [Sockets -> SUBSET UserModes]
    BY <1>1, <1>2
  <1>5. /\ st' \in [Counters -> Nat] /\ st'["cur"] = s["cur"]
        /\ st'["inv"] = IF Has(x, "i") THEN Less(s["inv"]) ELSE s["inv"]
        /\ st'["opers"] = IF Has(x, "o") THEN Less(s["opers"]) ELSE s["opers"]
    BY DestructedStats
  <1>6. Counts'
    <2>0. Changed(users, modes, x, {}, modes')
      BY <1>1, <1>2 DEF Changed
    <2>1. Cardinality(Bearers(users', modes', "i"))
          = IF "i" \in modes[x] THEN Less(Cardinality(Bearers(users, modes, "i")))
                                ELSE Cardinality(Bearers(users, modes, "i"))
      BY <1>1, <2>0, OneGoes
    <2>2. Cardinality(Bearers(users', modes', "o"))
          = IF "o" \in modes[x] THEN Less(Cardinality(Bearers(users, modes, "o")))
                                ELSE Cardinality(Bearers(users, modes, "o"))
      BY <1>1, <2>0, OneGoes
    <2>3. st'["inv"] = Cardinality(Bearers(users', modes', "i"))
      BY <1>5, <2>1 DEF Counts, Has
    <2>4. st'["opers"] = Cardinality(Bearers(users', modes', "o"))
      BY <1>5, <2>2 DEF Counts, Has
    <2> QED
      BY <2>3, <2>4 DEF Counts
  <1> QED
    BY <1>3, <1>4, <1>5, <1>6

LEMMA DestroyDoomedIInv ==
  ASSUME IInv, NEW x \in Sockets, DestroyDoomed(x)
  PROVE  IInv'
  <1> USE DEF IInv
  <1>1. /\ x \in doomed /\ Delete(x) /\ st' = Destructed(x, st)
        /\ UNCHANGED <<conns, servers, reports, twice>>
    BY DEF DestroyDoomed
  <1>2. x \in users /\ x \notin conns /\ st \in [Counters -> Nat]
    BY <1>1 DEF Places, Typed
  <1>3. /\ Known' /\ Counts' /\ st'["cur"] = st["cur"]
        /\ modes' \in [Sockets -> SUBSET UserModes] /\ st' \in [Counters -> Nat]
    BY <1>1, <1>2, DeleteKeeps
  <1>4. Places'
    BY <1>1, <1>2 DEF Places, Delete
  <1>5. Typed' /\ Slots'
    BY <1>1, <1>3 DEF Typed, Slots
  <1> QED
    BY <1>3, <1>4, <1>5

LEMMA RemoveConnectionIInv ==
  ASSUME IInv, NEW x \in Sockets, RemoveConnection(x)
  PROVE  IInv'
  <1> USE DEF IInv
  <1> DEFINE closed == [st EXCEPT !["cur"] = Less(@)]
  <1>1. /\ reports[x] > 0 /\ reports' = [reports EXCEPT ![x] = @ - 1]
        /\ conns' = conns \ {x} /\ servers' = servers \ {x}
        /\ twice' = twice
    BY DEF RemoveConnection, Disconnected
  <1>2. \/ /\ x \notin users /\ Keep /\ doomed' = doomed
           /\ st' = [closed EXCEPT !["unk"] = Less(@)]
        \/ x \in users /\ Delete(x) /\ st' = Destructed(x, closed)
        \/ x \in users /\ Keep /\ doomed' = doomed \cup {x} /\ st' = closed
    BY DEF RemoveConnection
  <1>3. /\ closed \in [Counters -> Nat] /\ closed["cur"] = Less(st["cur"])
        /\ closed["inv"] = st["inv"] /\ closed["opers"] = st["opers"]
    BY CountersType, LessType DEF Typed
  <1>4. Places'
    BY <1>1, <1>2 DEF Places, Delete, Keep
  <1>5. /\ Known' /\ Counts' /\ st'["cur"] = Less(st["cur"])
        /\ modes' \in [Sockets -> SUBSET UserModes] /\ st' \in [Counters -> Nat]
    <2>1. CASE x \notin users
      <3> HIDE DEF closed
      <3>1. Keep /\ st' = [closed EXCEPT !["unk"] = Less(@)]
        BY <1>2, <2>1
      <3>2. /\ st' \in [Counters -> Nat] /\ st'["cur"] = closed["cur"]
            /\ st'["inv"] = closed["inv"] /\ st'["opers"] = closed["opers"]
        BY <1>3, <3>1, CountersType, LessType
      <3>3. users' = users /\ modes' = modes /\ told' = told
        BY <3>1 DEF Keep
      <3>4. Known' /\ Counts'
        BY <1>3, <3>2, <3>3, CountsKept
      <3> QED
        BY <1>3, <3>2, <3>3, <3>4 DEF Typed
    <2>2. CASE x \in users /\ Delete(x) /\ st' = Destructed(x, closed)
      <3> HIDE DEF closed
      <3> QED
        BY <1>3, <2>2, DeleteKeeps
    <2>3. CASE x \in users /\ Keep /\ st' = closed
      <3> HIDE DEF closed
      <3>1. users' = users /\ modes' = modes /\ told' = told
        BY <2>3 DEF Keep
      <3>2. Known' /\ Counts'
        BY <1>3, <2>3, <3>1, CountsKept
      <3> QED
        BY <1>3, <2>3, <3>1, <3>2 DEF Typed
    <2> QED
      BY <1>2, <2>1, <2>2, <2>3
  <1>6. \A y \in Sockets : /\ reports[y] \in Nat
                          /\ reports'[y] = IF y = x THEN reports[x] - 1 ELSE reports[y]
    BY <1>1 DEF Typed
  <1>7. Typed'
    <2>1. \A y \in Sockets : reports'[y] \in Nat
      BY <1>1, <1>6
    <2>2. reports' \in [Sockets -> Nat]
      BY <1>1, <2>1 DEF Typed
    <2> QED
      BY <1>5, <2>2 DEF Typed
  <1>8. Slots'
    <2>1. /\ Cardinality(conns) \in Nat
          /\ Cardinality(conns') =
                IF x \in conns THEN Cardinality(conns) - 1 ELSE Cardinality(conns)
      BY <1>1, ConnsFinite
    <2>2. Cardinality(conns) =< MaxConnections /\ MaxConnections \in Nat
      BY StatsParams DEF Slots
    <2>3. Cardinality(conns') =< MaxConnections
      BY <2>1, <2>2
    <2>4. ASSUME ~twice'
          PROVE  /\ st'["cur"] = Cardinality(conns')
                 /\ \A y \in Sockets : /\ reports'[y] =< 1
                                       /\ reports'[y] > 0 => y \in conns'
      <3>1. /\ st["cur"] = Cardinality(conns)
            /\ \A y \in Sockets : reports[y] =< 1 /\ (reports[y] > 0 => y \in conns)
        BY <1>1, <2>4 DEF Slots
      <3>2. x \in conns /\ reports[x] = 1
        BY <1>1, <1>6, <3>1
      <3>3. Cardinality(conns) # 0
        BY <3>2, ConnsFinite, FS_EmptySet
      <3>4. st'["cur"] = Cardinality(conns')
        BY <1>5, <2>1, <3>1, <3>2, <3>3 DEF Less
      <3>5. ASSUME NEW y \in Sockets
            PROVE  reports'[y] =< 1 /\ (reports'[y] > 0 => y \in conns')
        <4>1. CASE y = x
          BY <1>6, <3>2, <4>1
        <4>2. CASE y # x
          BY <1>1, <1>6, <3>1, <4>2
        <4> QED
          BY <4>1, <4>2
      <3> QED
        BY <3>4, <3>5
    <2> QED
      BY <2>3, <2>4 DEF Slots
  <1> QED
    BY <1>4, <1>5, <1>7, <1>8

-----------------------------------------------------------------------------
(* The theorems *)

LEMMA NextIInv == IInv /\ [Next]_vars => IInv'
  <1> SUFFICES ASSUME IInv, [Next]_vars PROVE IInv'
    OBVIOUS
  <1>1. CASE \E x \in Sockets : AcceptClient(x) \/ AcceptServer(x)
    BY <1>1, AcceptIInv
  <1>2. CASE \/ AcceptFails
             \/ \E x \in Sockets : Introduce(x)
             \/ UNCHANGED vars
    BY <1>2, QuietIInv
  <1>3. CASE \E x \in Sockets : Register(x)
    BY <1>3, RegisterIInv
  <1>4. CASE \E x \in Sockets : Oper(x)
    BY <1>4, OperIInv
  <1>5. CASE \E x \in Sockets, l \in Lines : UserMode(x, l)
    BY <1>5, UserModeIInv
  <1>6. CASE \E x \in Sockets : Report(x)
    BY <1>6, ReportIInv
  <1>7. CASE \E x \in Sockets : RemoveConnection(x)
    BY <1>7, RemoveConnectionIInv
  <1>8. CASE \E x \in Sockets : DestroyDoomed(x)
    BY <1>8, DestroyDoomedIInv
  <1> QED
    BY <1>1, <1>2, <1>3, <1>4, <1>5, <1>6, <1>7, <1>8 DEF Next

\* The invariant behind the three below: what each counter counts, and that a
\* doomed user has no connection left and whoever is gone no modes.
THEOREM StatsInductive == Spec => []IInv
  <1> QED
    BY InitIInv, NextIInv, PTL DEF Spec

\* A user that reads the answers to OPER and the echoes of its mode lines
\* knows its modes, whatever lines it sends: the echo drops what changed
\* nothing and repeats a sign only where it must (UnrealUser::parseModeChange).
THEOREM UsersKnowTheirModes == Spec => []OwnModesKnown
  <1>1. IInv => OwnModesKnown
    <2> SUFFICES ASSUME IInv, NEW x \in Sockets PROVE told[x] = Modestr(modes[x])
      BY DEF OwnModesKnown
    <2>1. modes[x] \in SUBSET UserModes /\ told[x] = modes[x]
      BY DEF IInv, Typed, Known
    <2> QED
      BY <2>1 DEF Modestr
  <1> QED
    BY <1>1, StatsInductive, PTL

\* LUSERS prints the invisible and visible users and the operators there are,
\* although the destructor takes from the counters what modes were left.
THEOREM LusersRight == Spec => []UsersCounted
  <1>1. IInv => UsersCounted
    <2> SUFFICES ASSUME IInv PROVE UsersCounted
      OBVIOUS
    <2>1. /\ Invisible = Bearers(users, modes, "i")
          /\ Operators = Bearers(users, modes, "o")
      BY DEF Invisible, Operators, Has, Bearers
    <2>2. st["inv"] = Cardinality(Invisible) /\ st["opers"] = Cardinality(Operators)
      BY <2>1 DEF IInv, Counts
    <2>3. IsFiniteSet(users)
      BY StatsParams, FS_Subset DEF IInv, Places
    <2>4. Cardinality(users \ Invisible) = Cardinality(users) - Cardinality(Invisible)
      <3>1. Invisible \subseteq users
        BY DEF Invisible
      <3>2. users \cap Invisible = Invisible
        BY <3>1
      <3>3. Cardinality(users \ Invisible)
            = Cardinality(users) - Cardinality(users \cap Invisible)
        BY <2>3, FS_Difference
      <3> QED
        BY <3>2, <3>3
    <2> QED
      BY <2>2, <2>4 DEF UsersCounted, Lusers
  <1> QED
    BY <1>1, StatsInductive, PTL

\* No counter goes below zero, the listener never has more connections than
\* its limit, and unless a socket reported its end twice the current
\* connections are counted (UnrealListener, UnrealSocket).
THEOREM SlotsCounted == Spec => []ConnectionsCounted
  <1>1. IInv => ConnectionsCounted
    <2> SUFFICES ASSUME IInv PROVE ConnectionsCounted
      OBVIOUS
    <2>1. \A c \in Counters : st[c] >= 0
      BY DEF IInv, Typed
    <2> QED
      BY <2>1 DEF IInv, Places, Slots, ConnectionsCounted
  <1> QED
    BY <1>1, StatsInductive, PTL
=============================================================================
