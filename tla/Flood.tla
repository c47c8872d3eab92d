-------------------------------- MODULE Flood --------------------------------
(***************************************************************************)
(* Flood protection: the lines a client sends, its receive queue, its      *)
(* flood score, and the loop that runs once a second (listener.cpp,        *)
(* recvq.cpp, UnrealBase::run).                                            *)
(*                                                                         *)
(* A line that arrives raises the score by one, a second lowers it by one. *)
(* Below the penalty limit an arriving line runs the whole queue; above it *)
(* lines are held, and the loop runs one per second once the score is      *)
(* below the limit again.  The score is an uint8_t.  Only the NUMBER of    *)
(* lines matters here, so every line has LineLen bytes; that the queue     *)
(* keeps their order is the subject of module RecvQueue.                   *)
(***************************************************************************)
EXTENDS Integers

CONSTANTS
    Users,          \* clients
    LineLen,        \* bytes of a line
    SoftLimit,      \* RQL_SOFT_SIZE
    HardLimit,      \* RQL_HARD_SIZE
    FloodChecks,    \* the values of Features::FloodCheck to look at
    FloodPenalty,   \* Limits::FloodPenalty, a digit
    MaxLate         \* bound: lines read already when the socket is closed

ASSUME FloodParams ==
    /\ LineLen \in Nat \ {0}
    /\ SoftLimit \in Nat
    /\ HardLimit \in Nat
    /\ SoftLimit <= HardLimit
    /\ FloodChecks \subseteq BOOLEAN
    /\ FloodPenalty \in 0..9
    /\ MaxLate \in Nat

VARIABLES
    check,      \* Features::FloodCheck of this run of the server
    users,      \* clients in unreal->local_users
    closed,     \* those whose socket is closed
    score,      \* score[u]: UnrealUser::score
    held,       \* held[u]: lines in the receive queue
    late,       \* late[u]: lines that arrived after the close
    ahead       \* history: lines run under flood checks, minus the seconds
                \* that paid for them

vars == <<check, users, closed, score, held, late, ahead>>

ScoreMod == 256

\* String::toUInt8 extracts a uint8_t from a stream, which is a character:
\* the value of a digit is its character code.
ToUInt8(digit) == 48 + digit
PenaltyLimit == ToUInt8(FloodPenalty)

Init ==
    /\ check \in FloodChecks
    /\ users = {}
    /\ closed = {}
    /\ score = [u \in Users |-> 0]
    /\ held = [u \in Users |-> 0]
    /\ late = [u \in Users |-> 0]
    /\ ahead = [u \in Users |-> 0]

\* Mutants: one line more; a second does not count; the hard limit is
\* forgotten.
BelowOrAt(n) == n <= PenaltyLimit
DecayNever(n) == n
OverflowsNever(n) == FALSE

Below(n) == n < PenaltyLimit
Decay(n) == IF n > 0 THEN n - 1 ELSE 0
Exceeds(n, limit) == n * LineLen > limit
Overflows(n) == Exceeds(n, HardLimit)

-----------------------------------------------------------------------------
Connect(u) ==
    /\ u \notin users
    /\ users' = users \cup {u}
    /\ score' = [score EXCEPT ![u] = 0]
    /\ held' = [held EXCEPT ![u] = 0]
    /\ late' = [late EXCEPT ![u] = 0]
    /\ ahead' = [ahead EXCEPT ![u] = 0]
    /\ UNCHANGED <<check, closed>>

\* A line may arrive on an open socket, and on a closed one when it was in
\* the stream buffer already.
Arrives(u) ==
    /\ u \in users
    /\ \/ u \notin closed /\ UNCHANGED late
       \/ u \in closed /\ late[u] < MaxLate /\ late' = [late EXCEPT ![u] = @ + 1]

\* processRecvQueue, for all lines or for one: what is left of n lines.
RunAll(u, n) ==
    /\ held' = [held EXCEPT ![u] = 0]
    /\ ahead' = [ahead EXCEPT ![u] = @ + n]
Hold(u, n) ==
    /\ held' = [held EXCEPT ![u] = n]
    /\ UNCHANGED ahead

\* handleDataResponse without flood checks.
LineUnchecked(u) ==
    /\ ~check
    /\ Arrives(u)
    /\ held' = [held EXCEPT ![u] = 0]
    /\ UNCHANGED <<check, users, closed, score, ahead>>

\* handleDataResponse with them: the queue over the hard limit closes the
\* connection; over the soft limit nothing runs, whatever the score.
Line(u) ==
    LET n == held[u] + 1
        sc == (score[u] + 1) % ScoreMod
    IN  /\ check
        /\ Arrives(u)
        /\ score' = [score EXCEPT ![u] = sc]
        /\ IF ~Exceeds(n, SoftLimit) /\ Below(sc) THEN RunAll(u, n) ELSE Hold(u, n)
        /\ closed' = IF Overflows(n) THEN closed \cup {u} ELSE closed
        /\ UNCHANGED <<check, users>>

\* UnrealBase::run(ec), once a second, for every local user.
Tick ==
    LET sc == [u \in Users |-> IF u \in users THEN Decay(score[u]) ELSE score[u]]
        ran == {u \in users : Below(sc[u]) /\ held[u] > 0}
    IN  /\ score' = sc
        /\ held' = [u \in Users |-> IF u \in ran THEN held[u] - 1 ELSE held[u]]
        /\ ahead' = [u \in Users |-> ahead[u] - (score[u] - sc[u])
                                              + (IF u \in ran THEN 1 ELSE 0)]
        /\ UNCHANGED <<check, users, closed, late>>

\* QUIT, KILL, a timeout, or the peer is gone.
Close(u) ==
    /\ u \in users \ closed
    /\ closed' = closed \cup {u}
    /\ UNCHANGED <<check, users, score, held, late, ahead>>

\* removeConnection and destroy: the queue goes with the user.
Gone(u) ==
    /\ u \in closed
    /\ users' = users \ {u}
    /\ closed' = closed \ {u}
    /\ score' = [score EXCEPT ![u] = 0]
    /\ held' = [held EXCEPT ![u] = 0]
    /\ late' = [late EXCEPT ![u] = 0]
    /\ ahead' = [ahead EXCEPT ![u] = 0]
    /\ UNCHANGED check

Next ==
    \/ \E u \in Users : \/ Connect(u) \/ LineUnchecked(u) \/ Line(u)
                        \/ Close(u) \/ Gone(u)
    \/ Tick

Spec == Init /\ [][Next]_vars

\* The timer of the main loop is set again by every tick.
FairSpec == Spec /\ WF_vars(Tick)
-----------------------------------------------------------------------------
(* Properties *)

TypeOK ==
    /\ check \in FloodChecks
    /\ users \subseteq Users
    /\ closed \subseteq users
    /\ score \in [Users -> 0..ScoreMod - 1]
    /\ held \in [Users -> Nat]
    /\ late \in [Users -> 0..MaxLate]
    /\ ahead \in [Users -> Int]

\* A connected client never gets as many lines as the penalty limit run ahead
\* of the clock, however arrivals, seconds and held lines interleave.
Throttled ==
    check => \A u \in users \ closed : ahead[u] < PenaltyLimit

\* The receive queue passes its hard limit by one line at most before the
\* connection is closed, and then by what was read from the socket already,
\* however many lines come between two seconds.
QueueBounded ==
    \A u \in Users : (held[u] - 1 - late[u]) * LineLen <= HardLimit

\* Lines are not held for ever: while there are some, the queue shrinks
\* again and again.
HeldLinesRun ==
    \A u \in Users :
        <>[](u \in users /\ held[u] > 0)
            => []<><<u \in users /\ held'[u] < held[u]>>_vars
=============================================================================
