---------------------------- MODULE ClockProofs ----------------------------
(***************************************************************************)
(* Proofs about the two parts that run against a clock: Flood, for any     *)
(* number of clients and any limits, and PingTimer, for any frequencies,   *)
(* timeouts, lags and delays.                                              *)
(***************************************************************************)
EXTENDS Flood, PingTimer, TLAPS

-----------------------------------------------------------------------------
(* Flood *)

\* The one arithmetic fact about the configuration: a client whose score is
\* about to pass 255 holds so much that the hard limit has closed it already.
\* With the limits of the source (1024 bytes, penalty character "5") lines of
\* six bytes and more satisfy it.
NoWrap == \A n \in Nat : n >= ScoreMod - PenaltyLimit => Overflows(n)

\* What an open connection keeps: its lines are paid for or held.
Paid(u) ==
    /\ ahead[u] = score[u] - held[u]
    /\ ahead[u] < PenaltyLimit
    /\ ~Overflows(held[u])

IInv == TypeOK /\ (check => \A u \in users \ closed : Paid(u))

-----------------------------------------------------------------------------
LEMMA PenaltyInt == PenaltyLimit \in Nat /\ PenaltyLimit > 0 /\ PenaltyLimit < ScoreMod
BY FloodParams DEF PenaltyLimit, ToUInt8, ScoreMod

\* Types do not depend on any limit.
LEMMA TypeInit == Init => TypeOK
BY FloodParams DEF Init, TypeOK, ScoreMod

LEMMA TypeStep == TypeOK /\ [Next]_vars => TypeOK'
<1> SUFFICES ASSUME TypeOK, [Next]_vars PROVE TypeOK'
  OBVIOUS
<1> USE FloodParams
<1>1. ASSUME NEW u \in Users, Connect(u) PROVE TypeOK'
  BY <1>1 DEF TypeOK, Connect, ScoreMod
<1>2. ASSUME NEW u \in Users, LineUnchecked(u) PROVE TypeOK'
  BY <1>2 DEF TypeOK, LineUnchecked, Arrives, ScoreMod
<1>3. ASSUME NEW u \in Users, Line(u) PROVE TypeOK'
  <2>1. (score[u] + 1) % ScoreMod \in 0..ScoreMod - 1
    BY DEF TypeOK, ScoreMod
  <2>2. score' \in [Users -> 0..ScoreMod - 1]
    BY <1>3, <2>1 DEF TypeOK, Line
  <2>3. held' \in [Users -> Nat] /\ ahead' \in [Users -> Int]
    BY <1>3 DEF TypeOK, Line, RunAll, Hold
  <2>4. late' \in [Users -> 0..MaxLate] /\ closed' \subseteq users'
    BY <1>3 DEF TypeOK, Line, Arrives
  <2> QED
    BY <1>3, <2>2, <2>3, <2>4 DEF TypeOK, Line
<1>4. ASSUME Tick PROVE TypeOK'
  <2> DEFINE sc == [u \in Users |-> IF u \in users THEN Decay(score[u])
                                                    ELSE score[u]]
             ran == {u \in users : Below(sc[u]) /\ held[u] > 0}
  <2>1. \A u \in Users : sc[u] \in 0..255
    BY DEF TypeOK, Decay, ScoreMod
  <2>2. score' = sc /\ score' \in [Users -> 0..255]
    BY <1>4, <2>1 DEF Tick
  <2>3. held' = [u \in Users |-> IF u \in ran THEN held[u] - 1 ELSE held[u]]
    BY <1>4 DEF Tick
  <2>4. \A u \in Users : (IF u \in ran THEN held[u] - 1 ELSE held[u]) \in Nat
    BY DEF TypeOK
  <2>5. held' \in [Users -> Nat]
    BY <2>3, <2>4
  <2>6. ahead' = [u \in Users |-> ahead[u] - (score[u] - sc[u])
                                  + (IF u \in ran THEN 1 ELSE 0)]
    BY <1>4 DEF Tick
  <2>7. \A u \in Users : ahead[u] - (score[u] - sc[u])
                              + (IF u \in ran THEN 1 ELSE 0) \in Int
    <3> SUFFICES ASSUME NEW u \in Users
                 PROVE  ahead[u] - (score[u] - sc[u])
                            + (IF u \in ran THEN 1 ELSE 0) \in Int
      OBVIOUS
    <3>1. ahead[u] \in Int /\ score[u] \in Int
      BY DEF TypeOK, ScoreMod
    <3>2. sc[u] \in Int
      BY <2>1
    <3>3. (IF u \in ran THEN 1 ELSE 0) \in Int
      OBVIOUS
    <3> HIDE DEF sc, ran
    <3> QED
      BY <3>1, <3>2, <3>3
  <2>8. ahead' \in [Users -> Int]
    BY <2>6, <2>7
  <2> QED
    BY <1>4, <2>2, <2>5, <2>8 DEF TypeOK, Tick, ScoreMod
<1>5. ASSUME NEW u \in Users, Close(u) PROVE TypeOK'
  BY <1>5 DEF TypeOK, Close
<1>6. ASSUME NEW u \in Users, Gone(u) PROVE TypeOK'
  BY <1>6 DEF TypeOK, Gone, ScoreMod
<1>7. CASE UNCHANGED vars
  BY <1>7 DEF TypeOK, vars
<1> QED
  BY <1>1, <1>2, <1>3, <1>4, <1>5, <1>6, <1>7 DEF Next

\* The variables have their types: the eight-bit score never leaves its range
\* and the queue length never goes below zero.
THEOREM TypeCorrect == Spec => []TypeOK
BY TypeInit, TypeStep, PTL DEF Spec

-----------------------------------------------------------------------------
\* A line of an open connection: the score cannot wrap, and what is not held
\* was below the limit.
LEMMA LineStep ==
    ASSUME IInv, NoWrap, NEW u \in Users, Line(u), u \in users' \ closed'
    PROVE  Paid(u)'
<1> USE FloodParams, PenaltyInt DEF ScoreMod
<1>1. u \in users \ closed /\ Paid(u) /\ check
  BY DEF Line, IInv, Arrives
<1>2. score[u] \in 0..255 /\ held[u] \in Nat /\ ahead[u] \in Int
  BY DEF IInv, TypeOK
<1>3. ~ (held[u] + 1 >= 256 - PenaltyLimit)
  <2>1. ~Overflows(held[u] + 1)
    BY <1>1 DEF Line
  <2> QED
    BY <1>2, <2>1 DEF NoWrap
<1>4. score[u] < 255
  BY <1>1, <1>2, <1>3 DEF Paid
<1>5. (score[u] + 1) % 256 = score[u] + 1
  BY <1>2, <1>4
<1>6. score'[u] = score[u] + 1
  BY <1>5 DEF Line, IInv, TypeOK
<1>7. ~Overflows(held'[u]) /\ ahead'[u] = score'[u] - held'[u] /\ ahead'[u] < PenaltyLimit
  <2>1. CASE RunAll(u, held[u] + 1) /\ Below(score[u] + 1)
    <3>1. held'[u] = 0 /\ ahead'[u] = ahead[u] + (held[u] + 1)
      BY <2>1 DEF RunAll, IInv, TypeOK
    <3>2. ~Overflows(0)
      BY DEF Overflows, Exceeds
    <3> QED
      BY <1>1, <1>2, <1>6, <2>1, <3>1, <3>2 DEF Paid, Below
  <2>2. CASE Hold(u, held[u] + 1)
    <3>1. held'[u] = held[u] + 1 /\ ahead'[u] = ahead[u]
      BY <2>2 DEF Hold, IInv, TypeOK
    <3>2. ~Overflows(held[u] + 1)
      BY <1>1 DEF Line
    <3> QED
      BY <1>1, <1>2, <1>6, <3>1, <3>2 DEF Paid
  <2> QED
    BY <1>5, <2>1, <2>2 DEF Line
<1> QED
  BY <1>7 DEF Paid, PenaltyLimit, Overflows, Exceeds, ToUInt8

\* A second pays for a line, or runs one that is held; never both at once
\* beyond what was paid.
LEMMA TickStep ==
    ASSUME IInv, Tick, check, NEW u \in users \ closed
    PROVE  Paid(u)'
<1> USE FloodParams, PenaltyInt
<1>1. Paid(u) /\ u \in Users
  BY DEF IInv, TypeOK
<1>2. score[u] \in 0..255 /\ held[u] \in Nat /\ ahead[u] \in Int
  BY DEF IInv, TypeOK, ScoreMod
<1>3. score'[u] = Decay(score[u])
  BY <1>1 DEF Tick
<1>4. \/ /\ held'[u] = held[u] - 1 /\ held[u] > 0
         /\ ahead'[u] = ahead[u] - (score[u] - score'[u]) + 1
      \/ held'[u] = held[u] /\ ahead'[u] = ahead[u] - (score[u] - score'[u]) + 0
  BY <1>1 DEF Tick
<1>5. held'[u] <= held[u] /\ held'[u] \in Nat
  BY <1>2, <1>4
<1>6. ~Overflows(held'[u])
  <2>1. held'[u] * LineLen <= held[u] * LineLen
    BY <1>2, <1>5
  <2>2. held[u] * LineLen <= HardLimit /\ held[u] * LineLen \in Nat /\ held'[u] * LineLen \in Nat
    BY <1>1, <1>2, <1>5 DEF Paid, Overflows, Exceeds
  <2> QED
    BY <2>1, <2>2 DEF Overflows, Exceeds
<1>7. ahead'[u] = score'[u] - held'[u] /\ ahead'[u] < PenaltyLimit
  BY <1>1, <1>2, <1>3, <1>4 DEF Paid, Decay
<1> QED
  BY <1>6, <1>7 DEF Paid, PenaltyLimit, Overflows, Exceeds, ToUInt8

\* A step of one client leaves what the others have paid.
LEMMA OthersKeep ==
    ASSUME NEW u \in Users, Paid(u),
           score'[u] = score[u], held'[u] = held[u], ahead'[u] = ahead[u]
    PROVE  Paid(u)'
BY DEF Paid, Overflows, Exceeds, PenaltyLimit, ToUInt8

LEMMA InvStep == IInv /\ NoWrap /\ [Next]_vars => IInv'
<1> SUFFICES ASSUME IInv, NoWrap, [Next]_vars, check', NEW v \in users' \ closed'
             PROVE  Paid(v)'
  BY TypeStep DEF IInv
<1> USE FloodParams
<1>0. /\ TypeOK /\ TypeOK' /\ v \in Users
      /\ check = check'
  <2>1. TypeOK /\ TypeOK'
    BY TypeStep DEF IInv
  <2>2. check = check'
    BY DEF Next, vars, Connect, LineUnchecked, Line, Tick, Close, Gone
  <2> QED
    BY <2>1, <2>2 DEF TypeOK
<1>1. ASSUME NEW u \in Users, Connect(u) PROVE Paid(v)'
  <2>1. CASE u = v
    <3>1. score'[v] = 0 /\ held'[v] = 0 /\ ahead'[v] = 0
      BY <1>0, <1>1, <2>1 DEF Connect, TypeOK
    <3> QED
      BY <3>1, PenaltyInt DEF Paid, Overflows, Exceeds, PenaltyLimit, ToUInt8
  <2>2. CASE u # v
    BY <1>0, <1>1, <2>2, OthersKeep DEF Connect, TypeOK, IInv
  <2> QED
    BY <2>1, <2>2
<1>2. ASSUME NEW u \in Users, LineUnchecked(u) PROVE Paid(v)'
  BY <1>0, <1>2 DEF LineUnchecked
<1>3. ASSUME NEW u \in Users, Line(u) PROVE Paid(v)'
  <2>1. CASE u = v
    BY <1>0, <1>3, <2>1, LineStep
  <2>2. CASE u # v
    <3>1. score'[v] = score[v] /\ held'[v] = held[v] /\ ahead'[v] = ahead[v]
      BY <1>0, <1>3, <2>2 DEF Line, RunAll, Hold, TypeOK
    <3>2. v \in users \ closed
      BY <1>3, <2>2 DEF Line
    <3> QED
      BY <1>0, <3>1, <3>2, OthersKeep DEF IInv
  <2> QED
    BY <2>1, <2>2
<1>4. ASSUME Tick PROVE Paid(v)'
  <2>1. v \in users \ closed
    BY <1>4 DEF Tick
  <2> QED
    BY <1>0, <1>4, <2>1, TickStep
<1>5. ASSUME NEW u \in Users, Close(u) PROVE Paid(v)'
  BY <1>0, <1>5, OthersKeep DEF Close, IInv
<1>6. ASSUME NEW u \in Users, Gone(u) PROVE Paid(v)'
  <2>1. u # v
    BY <1>6 DEF Gone
  <2> QED
    BY <1>0, <1>6, <2>1, OthersKeep DEF Gone, IInv, TypeOK
<1>7. CASE UNCHANGED vars
  BY <1>0, <1>7, OthersKeep DEF vars, IInv
<1> QED
  BY <1>1, <1>2, <1>3, <1>4, <1>5, <1>6, <1>7 DEF Next

\* No connected client gets as many lines as the penalty limit run ahead of the
\* clock, for any number of clients and any limits under which the score
\* cannot wrap.
THEOREM AlwaysThrottled ==
    ASSUME NoWrap
    PROVE  Spec => []Throttled
<1>1. Init => IInv
  BY TypeInit DEF Init, IInv
<1>2. IInv /\ [Next]_vars => IInv'
  BY InvStep
<1>3. IInv => Throttled
  BY DEF IInv, Throttled, Paid
<1> QED
  BY <1>1, <1>2, <1>3, PTL DEF Spec
-----------------------------------------------------------------------------
(* The queue.  Nothing is assumed of the score here.                       *)

\* An open connection is within the hard limit; one that is closed passes it
\* by a line, and by one for each that was read from the socket already.
QInv == /\ TypeOK
        /\ \A u \in users \ closed : ~Overflows(held[u])
        /\ QueueBounded

\* Fewer lines take less room.
LEMMA FewerLines ==
    ASSUME NEW m \in Int, NEW n \in Int, m <= n, n * LineLen <= HardLimit
    PROVE  m * LineLen <= HardLimit
<1> USE FloodParams
<1>1. m * LineLen <= n * LineLen /\ m * LineLen \in Int /\ n * LineLen \in Int
  OBVIOUS
<1> QED
  BY <1>1

LEMMA QueueInit == Init => QInv
<1> SUFFICES ASSUME Init PROVE QInv
  OBVIOUS
<1>1. users = {} /\ \A u \in Users : held[u] = 0 /\ late[u] = 0
  BY DEF Init
<1>2. (0 - 1 - 0) * LineLen <= HardLimit
  <2>1. 0 * LineLen <= HardLimit
    BY FloodParams
  <2> QED
    BY <2>1, FewerLines
<1> QED
  BY <1>1, <1>2, TypeInit DEF QInv, QueueBounded, TypeOK

\* The queue of one client stays bounded when it shrinks, or grows by no more
\* than what arrived late.
LEMMA QueueShrinks ==
    ASSUME QInv, TypeOK', NEW u \in Users,
           held'[u] - late'[u] <= held[u] - late[u]
    PROVE  (held'[u] - 1 - late'[u]) * LineLen <= HardLimit
<1>1. held[u] \in Nat /\ held'[u] \in Nat /\ late[u] \in Int /\ late'[u] \in Int
  BY FloodParams DEF QInv, TypeOK
<1>2. (held[u] - 1 - late[u]) * LineLen <= HardLimit
  BY DEF QInv, QueueBounded
<1> QED
  BY <1>1, <1>2, FewerLines

\* A line that arrives: the check of the hard limit comes after it is queued,
\* so the connection that is closed by it was within the limit before.
LEMMA QueueLine ==
    ASSUME QInv, TypeOK', NEW u \in Users, Line(u)
    PROVE  /\ (held'[u] - 1 - late'[u]) * LineLen <= HardLimit
           /\ u \notin closed' => ~Overflows(held'[u])
<1> USE FloodParams
<1>1. held[u] \in Nat /\ late[u] \in Nat /\ late'[u] \in Nat /\ u \in users
  BY DEF QInv, TypeOK, Line, Arrives
<1>2. held'[u] = 0 \/ held'[u] = held[u] + 1
  BY DEF Line, RunAll, Hold, QInv, TypeOK
<1>3. 0 * LineLen <= HardLimit
  OBVIOUS
<1>4. CASE u \in closed
  <2>1. late'[u] = late[u] + 1 /\ u \in closed'
    BY <1>4 DEF Line, Arrives, QInv, TypeOK
  <2>2. held'[u] - late'[u] <= held[u] - late[u]
    BY <1>1, <1>2, <2>1
  <2> QED
    BY <2>1, <2>2, QueueShrinks
<1>5. CASE u \notin closed
  <2>1. held[u] * LineLen <= HardLimit
    BY <1>1, <1>5 DEF QInv, Overflows, Exceeds
  <2>2. held'[u] - 1 - late'[u] <= held[u] /\ held'[u] - 1 - late'[u] \in Int
    BY <1>1, <1>2
  <2>3. (held'[u] - 1 - late'[u]) * LineLen <= HardLimit
    BY <1>1, <2>1, <2>2, FewerLines
  <2>4. u \notin closed' => ~Overflows(held[u] + 1)
    BY DEF Line
  <2> QED
    BY <1>2, <1>3, <2>3, <2>4 DEF Overflows, Exceeds
<1> QED
  BY <1>4, <1>5

LEMMA QueueStep == QInv /\ [Next]_vars => QInv'
<1> SUFFICES ASSUME QInv, [Next]_vars PROVE QInv'
  OBVIOUS
<1> SUFFICES ASSUME NEW v \in Users
             PROVE  /\ (held'[v] - 1 - late'[v]) * LineLen <= HardLimit
                    /\ v \in users' \ closed' => ~Overflows(held'[v])
  <2>1. TypeOK'
    BY TypeStep DEF QInv
  <2> QED
    BY <2>1 DEF QInv, QueueBounded, TypeOK, Overflows, Exceeds
<1> USE FloodParams
<1>0. TypeOK /\ TypeOK'
  BY TypeStep DEF QInv
<1>1. held[v] \in Nat /\ held'[v] \in Nat /\ late[v] \in Nat /\ late'[v] \in Nat
  BY <1>0 DEF TypeOK
<1>2. ~Overflows(0) /\ 0 * LineLen <= HardLimit
  BY DEF Overflows, Exceeds
\* Emptied, and nothing late: also what a new or a deleted user has.
<1>3. ASSUME held'[v] = 0
      PROVE  /\ (held'[v] - 1 - late'[v]) * LineLen <= HardLimit
             /\ ~Overflows(held'[v])
  <2>1. held'[v] - 1 - late'[v] <= 0 /\ held'[v] - 1 - late'[v] \in Int
    BY <1>1, <1>3
  <2> QED
    BY <1>2, <1>3, <2>1, FewerLines
\* Nothing happens to v, or it is closed.
<1>4. ASSUME held'[v] = held[v], late'[v] = late[v],
             v \in users' \ closed' => v \in users \ closed
      PROVE  /\ (held'[v] - 1 - late'[v]) * LineLen <= HardLimit
             /\ v \in users' \ closed' => ~Overflows(held'[v])
  <2>1. held'[v] - late'[v] <= held[v] - late[v]
    BY <1>1, <1>4
  <2> QED
    BY <1>0, <1>4, <2>1, QueueShrinks DEF QInv
<1>5. ASSUME NEW u \in Users, Connect(u) \/ Gone(u) \/ LineUnchecked(u), u = v
      PROVE  held'[v] = 0
  BY <1>0, <1>5 DEF Connect, Gone, LineUnchecked, TypeOK
<1>6. ASSUME NEW u \in Users, u # v,
             Connect(u) \/ Gone(u) \/ LineUnchecked(u) \/ Line(u)
      PROVE  /\ held'[v] = held[v] /\ late'[v] = late[v]
             /\ v \in users' \ closed' => v \in users \ closed
  BY <1>0, <1>6 DEF Connect, Gone, LineUnchecked, Line, Arrives, RunAll, Hold, TypeOK
<1>7. ASSUME NEW u \in Users, Close(u)
      PROVE  /\ held'[v] = held[v] /\ late'[v] = late[v]
             /\ v \in users' \ closed' => v \in users \ closed
  BY <1>7 DEF Close
<1>8. ASSUME Tick
      PROVE  /\ (held'[v] - 1 - late'[v]) * LineLen <= HardLimit
             /\ v \in users' \ closed' => ~Overflows(held'[v])
  <2>1. held'[v] <= held[v] /\ late'[v] = late[v] /\ users' = users /\ closed' = closed
    <3>1. held'[v] = held[v] \/ held'[v] = held[v] - 1
      BY <1>8 DEF Tick
    <3>2. late' = late /\ users' = users /\ closed' = closed
      BY <1>8 DEF Tick
    <3> QED
      BY <1>1, <3>1, <3>2
  <2>2. held'[v] - late'[v] <= held[v] - late[v]
    BY <1>1, <2>1
  <2>3. v \in users \ closed => held[v] * LineLen <= HardLimit
    BY <1>1 DEF QInv, Overflows, Exceeds
  <2>4. v \in users \ closed => held'[v] * LineLen <= HardLimit
    BY <1>1, <2>1, <2>3, FewerLines
  <2> QED
    BY <1>0, <1>1, <2>1, <2>2, <2>4, QueueShrinks DEF Overflows, Exceeds
<1>9. CASE UNCHANGED vars
  BY <1>4, <1>9 DEF vars
<1>10. ASSUME NEW u \in Users, Line(u)
       PROVE  /\ (held'[v] - 1 - late'[v]) * LineLen <= HardLimit
              /\ v \in users' \ closed' => ~Overflows(held'[v])
  BY <1>0, <1>4, <1>6, <1>10, QueueLine
<1> QED
  BY <1>3, <1>4, <1>5, <1>6, <1>7, <1>8, <1>9, <1>10 DEF Next

\* The receive queue never passes its hard limit by more than a line and what
\* had been read from the socket when it was closed: for any limits, line
\* lengths and clients, whether the score wraps or not.
THEOREM AlwaysBounded == Spec => []QueueBounded
<1>1. QInv => QueueBounded
  BY DEF QInv
<1> QED
  BY <1>1, QueueInit, QueueStep, PTL DEF Spec

-----------------------------------------------------------------------------
(* PingTimer.  Everything is measured against Elapsed, the time since the  *)
(* last check (the registration counts as one, the accept before it).  A   *)
(* PING goes out with every check, so while it is unanswered its age IS    *)
(* Elapsed; once it is answered, the client has been quiet for less.       *)

TimerTypeOK ==
    /\ freq \in Freqs
    /\ answers \in BOOLEAN
    /\ status \in {"auth", "up", "out"}
    /\ ready \in BOOLEAN
    /\ timer \in (Nat \ {0}) \cup {Off}
    /\ due \in 0..Late \cup {Off}
    /\ stale \in BOOLEAN
    /\ quiet \in Nat
    /\ pings \subseteq Nat

\* What the timer waits for, and how long it has.
Period == IF status = "up" THEN freq ELSE AuthTimeout
Elapsed == IF due # Off THEN Period + due ELSE Period - timer

\* A wait is on or its handler is queued, never both and never neither: the
\* timer of a connection that is not closed is never lost.
Armed ==
    status # "out" => /\ timer = Off <=> due # Off
                      /\ timer # Off => timer <= Period

\* An answer is under way for no longer than it takes.
AnswersComeIn == \A a \in pings : a <= Lag

\* A client that answers was heard since the last check, or still owes the
\* PING of that check.
HeardOrOwes ==
    status = "up" /\ answers => quiet <= Elapsed \/ Elapsed \in pings

\* At the last check nobody had been quiet for too long.
QuietSinceCheck ==
    status # "out" =>
        quiet <= Elapsed + (IF status = "up" THEN Patience ELSE 0)

TimerInv == TimerTypeOK /\ Armed /\ AnswersComeIn /\ HeardOrOwes /\ QuietSinceCheck

-----------------------------------------------------------------------------
LEMMA TimerIsNat ==
  /\ \A f \in Freqs : f \in Nat /\ f > 0
  /\ Patience \in Nat /\ AuthTimeout \in Nat /\ Lag \in Nat /\ Late \in Nat
  /\ MaxQuiet \in Nat
  <1>1. {Patience, AuthTimeout, Lag, Late, MaxQuiet} \subseteq Nat
    BY TimerParams
  <1>2. Freqs \subseteq Nat \ {0}
    BY TimerParams
  <1> QED
    BY <1>1, <1>2

LEMMA TimerInitInv == TimerInit => TimerInv
  <1> SUFFICES ASSUME TimerInit PROVE TimerInv
    OBVIOUS
  <1> USE TimerIsNat
  <1>1. timer \in (Nat \ {0}) \cup {Off} /\ due \in 0..Late \cup {Off}
    BY DEF TimerInit, Off
  <1>2. Elapsed = 0 /\ Armed
    BY DEF TimerInit, Elapsed, Period, Armed, Off
  <1>3. TimerTypeOK /\ AnswersComeIn
    BY <1>1 DEF TimerInit, TimerTypeOK, AnswersComeIn
  <1>4. HeardOrOwes /\ QuietSinceCheck
    BY <1>2 DEF TimerInit, HeardOrOwes, QuietSinceCheck
  <1> QED
    BY <1>2, <1>3, <1>4 DEF TimerInv

\* A PING that goes out has age zero.
LEMMA PingSent ==
  ASSUME TimerInv, SendPing
  PROVE  /\ pings' \subseteq Nat
         /\ \A a \in pings' : a <= Lag
         /\ pings \subseteq pings' \/ ~answers
         /\ answers => 0 \in pings'
  BY TimerIsNat DEF SendPing, TimerInv, TimerTypeOK, AnswersComeIn

\* The authorization does not look at what was answered.
LEMMA ReadyStep == TimerInv /\ Ready => TimerInv'
  <1> SUFFICES ASSUME TimerInv, Ready PROVE TimerInv'
    OBVIOUS
  <1> QED
    BY PingSent DEF Ready, TimerInv, TimerTypeOK, Armed, AnswersComeIn, HeardOrOwes,
                    QuietSinceCheck, Elapsed, Period

\* The first PONG starts the checks; a later one only ends the silence.
LEMMA PongStep == TimerInv /\ Pong => TimerInv'
  <1> SUFFICES ASSUME TimerInv, Pong PROVE TimerInv'
    OBVIOUS
  <1> USE TimerIsNat
  <1>1. quiet' = 0 /\ status' = "up" /\ freq' = freq /\ answers' = answers
        /\ ready' = ready
    BY DEF Pong, SetLastPongTime
  <1>2. pings' \subseteq pings
    BY DEF Pong
  <1>3. Elapsed' \in Nat /\ TimerTypeOK' /\ Armed'
    <2>1. CASE status = "auth"
      <3>1. timer' = freq /\ due' = Off /\ stale' \in BOOLEAN
        BY <2>1 DEF Pong, SchedulePingTimeout
      <3>2. freq \in Nat /\ freq > 0 /\ freq # Off
        BY DEF TimerInv, TimerTypeOK, Off
      <3>3. TimerTypeOK'
        BY <1>1, <1>2, <3>1, <3>2 DEF TimerInv, TimerTypeOK
      <3> QED
        BY <1>1, <3>1, <3>2, <3>3 DEF Armed, Elapsed, Period
    <2>2. CASE status = "up"
      <3>1. timer' = timer /\ due' = due /\ stale' = stale
        BY <2>2 DEF Pong
      <3> QED
        BY <1>1, <1>2, <2>2, <3>1 DEF TimerInv, TimerTypeOK, Armed, Elapsed, Period, Off
    <2> QED
      BY <2>1, <2>2 DEF Pong, TimerInv, TimerTypeOK
  <1>4. AnswersComeIn'
    BY <1>2 DEF TimerInv, AnswersComeIn
  <1>5. quiet' <= Elapsed' /\ quiet' <= Elapsed' + Patience
    <2>1. \A e \in Nat : quiet' <= e /\ quiet' <= e + Patience
      BY <1>1
    <2> QED
      BY <1>3, <2>1
  <1>6. HeardOrOwes' /\ QuietSinceCheck'
    BY <1>1, <1>5 DEF HeardOrOwes, QuietSinceCheck
  <1> QED
    BY <1>3, <1>4, <1>6 DEF TimerInv

\* A check that closes the connection has nothing more to keep.
LEMMA TimerCheckStep ==
  TimerInv /\ (CheckAuthTimeout \/ CheckAuthTimeoutStale \/ CheckPingTimeout) => TimerInv'
  <1> SUFFICES ASSUME TimerInv,
                      CheckAuthTimeout \/ CheckAuthTimeoutStale \/ CheckPingTimeout
               PROVE  TimerInv'
    OBVIOUS
  <1> USE TimerIsNat
  <1>1. CASE CheckAuthTimeout
    BY <1>1 DEF CheckAuthTimeout, Exit, TimerInv, TimerTypeOK, Armed, AnswersComeIn,
                HeardOrOwes, QuietSinceCheck
  <1>2. CASE CheckAuthTimeoutStale
    BY <1>2 DEF CheckAuthTimeoutStale, Exit, TimerInv, TimerTypeOK, Armed, AnswersComeIn,
                HeardOrOwes, QuietSinceCheck, Elapsed, Period
  <1>3. CASE CheckPingTimeout /\ TooOld
    BY <1>3 DEF CheckPingTimeout, Exit, TimerInv, TimerTypeOK, Armed, AnswersComeIn,
                HeardOrOwes, QuietSinceCheck
  <1>4. CASE CheckPingTimeout /\ ~TooOld
    <2>1. /\ SendPing /\ timer' = freq /\ due' = Off /\ status' = "up"
          /\ UNCHANGED <<freq, answers, ready, stale, quiet>>
      BY <1>4 DEF CheckPingTimeout, SchedulePingTimeout
    <2>2. Elapsed' = 0 /\ quiet <= Patience
      BY <1>4, <2>1 DEF Elapsed, Period, TooOld, TimerInv, TimerTypeOK
    <2> QED
      BY <2>1, <2>2, PingSent DEF TimerInv, TimerTypeOK, Armed, AnswersComeIn, HeardOrOwes,
                                  QuietSinceCheck, Period, Off
  <1> QED
    BY <1>1, <1>2, <1>3, <1>4

\* Time passes for the silence, the wait and the PINGs alike.
LEMMA TimerTickStep == TimerInv /\ TimerTick => TimerInv'
  <1> SUFFICES ASSUME TimerInv, TimerTick PROVE TimerInv'
    OBVIOUS
  <1> USE TimerIsNat
  <1>1. /\ UNCHANGED <<freq, answers, status, ready, stale>>
        /\ status # "out" /\ due < Late
        /\ quiet' = quiet + 1
        /\ pings' = {a + 1 : a \in pings}
    BY DEF TimerTick
  <1>2. /\ timer \in (Nat \ {0}) \cup {Off} /\ due \in 0..Late \cup {Off}
        /\ timer = Off <=> due # Off
        /\ timer # Off => timer <= Period
        /\ Period \in Nat /\ Period' = Period /\ quiet \in Nat
    BY <1>1 DEF TimerInv, TimerTypeOK, Armed, Period
  <1>3. /\ timer' = IF timer \in {1, Off} THEN Off ELSE timer - 1
        /\ due' = IF due # Off THEN due + 1 ELSE IF timer = 1 THEN 0 ELSE Off
    BY DEF TimerTick
  <1>4. Elapsed' = Elapsed + 1 /\ Elapsed \in Nat
    BY <1>2, <1>3 DEF Elapsed, Off
  <1>5. TimerTypeOK' /\ Armed'
    <2>1. timer' \in (Nat \ {0}) \cup {Off} /\ due' \in 0..Late \cup {Off}
      BY <1>1, <1>2, <1>3 DEF Off
    <2>2. pings' \subseteq Nat /\ quiet' \in Nat
      BY <1>1 DEF TimerInv, TimerTypeOK
    <2>3. (timer' = Off <=> due' # Off) /\ (timer' # Off => timer' <= Period')
      BY <1>2, <1>3 DEF Off
    <2> QED
      BY <1>1, <2>1, <2>2, <2>3 DEF TimerInv, TimerTypeOK, Armed
  <1>6. AnswersComeIn'
    BY <1>1 DEF TimerTick, TimerInv, TimerTypeOK, AnswersComeIn
  <1>7. HeardOrOwes'
    BY <1>1, <1>2, <1>4 DEF TimerInv, HeardOrOwes
  <1>8. QuietSinceCheck'
    BY <1>1, <1>2, <1>4 DEF TimerInv, QuietSinceCheck
  <1> QED
    BY <1>5, <1>6, <1>7, <1>8 DEF TimerInv

LEMMA TimerStep == TimerInv /\ [TimerNext]_timerVars => TimerInv'
  <1>1. TimerInv /\ UNCHANGED timerVars => TimerInv'
    BY DEF timerVars, TimerInv, TimerTypeOK, Armed, AnswersComeIn, HeardOrOwes, QuietSinceCheck,
           Elapsed, Period
  <1> QED
    BY <1>1, ReadyStep, PongStep, TimerCheckStep, TimerTickStep DEF TimerNext

\* The timer of a connection is never lost, and the silence of a client is
\* accounted for by the time since the last check.
THEOREM TimerInductive == TimerSpec => []TimerInv
  BY TimerInitInv, TimerStep, PTL DEF TimerSpec

-----------------------------------------------------------------------------
\* No handler closes a client that answers every PING, for any frequency that leaves time
\* for the answer and lies, with the delay of a handler, within Patience.
THEOREM Answering == TimerSpec => AnsweringStays
  <1>1. ASSUME TimerInv, TimerNext, answers, ready, status = "up",
               Lag < freq, freq + Late <= Patience
        PROVE  status' # "out"
    <2>1. due # Off => ~TooOld
      <3> SUFFICES ASSUME due # Off, TooOld PROVE FALSE
        OBVIOUS
      <3>1. due \in 0..Late /\ freq \in Nat /\ quiet \in Nat
        BY <1>1, TimerIsNat DEF TimerInv, TimerTypeOK
      <3>2. Elapsed = freq + due
        BY <1>1 DEF Elapsed, Period
      <3>3. Elapsed \notin pings
        BY <1>1, TimerIsNat, <3>1, <3>2 DEF TimerInv, AnswersComeIn
      <3>4. quiet <= freq + due
        BY <1>1, <3>2, <3>3 DEF TimerInv, HeardOrOwes
      <3> QED
        BY <1>1, TimerIsNat, <3>1, <3>4 DEF TooOld
    <2>2. CASE Ready \/ Pong \/ TimerTick
      BY <1>1, <2>2 DEF Ready, Pong, TimerTick
    <2>3. CASE CheckAuthTimeout \/ CheckAuthTimeoutStale
      BY <1>1, <2>3 DEF CheckAuthTimeout, CheckAuthTimeoutStale
    <2>4. CASE CheckPingTimeout
      BY <1>1, <2>1, <2>4 DEF CheckPingTimeout
    <2> QED
      BY <1>1, <2>2, <2>3, <2>4 DEF TimerNext
  <1>2. TimerInv /\ [TimerNext]_timerVars =>
           [answers /\ ready /\ status = "up" /\ Lag < freq /\ freq + Late <= Patience
               => status' # "out"]_timerVars
    BY <1>1 DEF timerVars
  <1> QED
    BY <1>2, TimerInductive, PTL DEF TimerSpec, AnsweringStays

\* A silent client is out at the first check after Patience, a client that never registers at
\* the authorization timeout; a handler is Late at most.
THEOREM Silent == TimerSpec => []SilentGoes
  <1>1. TimerInv => SilentGoes
    <2> SUFFICES ASSUME TimerInv, status # "out"
                 PROVE  quiet <= (IF status = "up" THEN Patience + freq
                                                   ELSE AuthTimeout) + Late
      BY DEF SilentGoes
    <2>1. /\ due \in 0..Late \cup {Off} /\ timer \in (Nat \ {0}) \cup {Off}
          /\ freq \in Nat /\ quiet \in Nat
      BY TimerIsNat DEF TimerInv, TimerTypeOK
    <2>2. Elapsed <= Period + Late /\ Elapsed \in Int
      BY TimerIsNat, <2>1 DEF Elapsed, Period, TimerInv, Armed
    <2> QED
      BY TimerIsNat, <2>1, <2>2 DEF TimerInv, QuietSinceCheck, Period
  <1> QED
    BY <1>1, TimerInductive, PTL
=============================================================================
