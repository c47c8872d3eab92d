------------------------------ MODULE PingTimer ------------------------------
(***************************************************************************)
(* The one timer of a connection, with a clock: first the authorization    *)
(* timeout, from the first PONG on the ping check (user.cpp, pong.cpp).    *)
(*                                                                         *)
(* A check sends the next PING or, when the last PONG is older than a      *)
(* fixed two minutes, closes the connection.  The frequency of the checks  *)
(* is the listener's and knows nothing of the two minutes.  A handler may  *)
(* run late, and a PONG takes its time; both take part in the race.        *)
(* Connections do not share a timer, so this is one of them.               *)
(***************************************************************************)
EXTENDS Integers, FiniteSetsExt

CONSTANTS
    Freqs,          \* UnrealListener::pingFrequency
    Patience,       \* the two minutes of checkPingTimeout
    AuthTimeout,    \* Limits::AuthTimeout
    Lag,            \* from a PING to the handler of its PONG, at most
    Late,           \* from the expiry of the timer to its handler, at most
    MaxQuiet        \* bound: how long the clock runs after the last PONG

ASSUME TimerParams ==
    /\ Freqs \subseteq Nat \ {0}
    /\ {Patience, AuthTimeout, Lag, Late, MaxQuiet} \subseteq Nat
    /\ \A f \in Freqs : Patience + f + Late < MaxQuiet

Off == -1

VARIABLES
    freq,       \* the frequency of this connection's listener
    answers,    \* the client answers every PING
    status,     \* "auth": no PONG yet, "up", "out": exit was called
    ready,      \* no auth flag is left
    timer,      \* time until timer_ expires; Off when it has
    due,        \* how long the expired timer's handler has been waiting; or Off
    stale,      \* a checkAuthTimeout is queued that the PONG came before
    quiet,      \* time since the last PONG, or since the accept
    pings       \* ages of the PINGs not yet answered

timerVars == <<freq, answers, status, ready, timer, due, stale, quiet, pings>>

TimerInit ==
    /\ freq \in Freqs
    /\ answers \in BOOLEAN
    /\ status = "auth" /\ ready = FALSE
    /\ timer = IF AuthTimeout = 0 THEN Off ELSE AuthTimeout
    /\ due = IF AuthTimeout = 0 THEN 0 ELSE Off
    /\ stale = FALSE
    /\ quiet = 0
    /\ pings = {}

-----------------------------------------------------------------------------
\* sendPing; a client that does not answer every PING owes nothing.
SendPing == pings' = IF answers THEN pings \cup {0} ELSE {}

\* NICK, USER or a lookup revokes the last auth flag.
Ready ==
    /\ status = "auth" /\ ~ready
    /\ ready' = TRUE
    /\ SendPing
    /\ UNCHANGED <<freq, answers, status, timer, due, stale, quiet>>

\* Mutant: registerUser schedules no check.
ScheduleNothing == timer' = Off /\ due' = Off

\* schedulePingTimeout: expires_from_now cancels a wait, but not a handler
\* that is queued already.
SchedulePingTimeout == timer' = freq /\ due' = Off

\* Mutant: only the PONG that registers is remembered.
SetFirstPongTime == quiet' = IF status = "auth" THEN 0 ELSE quiet

SetLastPongTime == quiet' = 0

\* PONG <server>: the first one registers the user, NICK and USER or not.
Pong ==
    /\ status # "out"
    /\ answers => pings # {}
    /\ pings' = IF pings = {} THEN {} ELSE pings \ {Max(pings)}
    /\ SetLastPongTime
    /\ status' = "up"
    /\ IF status = "auth"
         THEN SchedulePingTimeout /\ stale' = (due # Off)
         ELSE UNCHANGED <<timer, due, stale>>
    /\ UNCHANGED <<freq, answers, ready>>

Exit == status' = "out"

\* checkAuthTimeout.  Without ident lookups every branch that finds no PONG
\* closes the connection.
CheckAuthTimeout ==
    /\ status = "auth" /\ due # Off
    /\ Exit
    /\ due' = Off
    /\ UNCHANGED <<freq, answers, ready, timer, stale, quiet, pings>>

\* Mutant: the handler closes the connection of whoever it finds.
CheckAuthTimeoutBlind ==
    /\ status = "up" /\ stale
    /\ stale' = FALSE
    /\ Exit
    /\ UNCHANGED <<freq, answers, ready, timer, due, quiet, pings>>

\* The same handler when the PONG overtook it.
CheckAuthTimeoutStale ==
    /\ status = "up" /\ stale
    /\ stale' = FALSE
    /\ IF ready THEN UNCHANGED status ELSE Exit
    /\ UNCHANGED <<freq, answers, ready, timer, due, quiet, pings>>

\* last_pong_time_ < now.addSeconds(-120)
TooOld == quiet > Patience

\* checkPingTimeout
CheckPingTimeout ==
    /\ status = "up" /\ due # Off
    /\ IF TooOld
         THEN /\ Exit
              /\ due' = Off
              /\ UNCHANGED <<timer, pings>>
         ELSE /\ SendPing
              /\ SchedulePingTimeout
              /\ UNCHANGED status
    /\ UNCHANGED <<freq, answers, ready, stale, quiet>>

\* The clock.  It waits for nobody but a handler that is Late, a queued
\* handler that is stale, and an answer that is due.
TimerTick ==
    /\ status # "out"
    /\ quiet < MaxQuiet
    /\ due < Late
    /\ ~stale
    /\ \A a \in pings : a < Lag
    /\ quiet' = quiet + 1
    /\ pings' = {a + 1 : a \in pings}
    /\ timer' = IF timer \in {1, Off} THEN Off ELSE timer - 1
    /\ due' = IF due # Off THEN due + 1 ELSE IF timer = 1 THEN 0 ELSE Off
    /\ UNCHANGED <<freq, answers, status, ready, stale>>

TimerNext ==
    \/ Ready \/ Pong
    \/ CheckAuthTimeout \/ CheckAuthTimeoutStale \/ CheckPingTimeout
    \/ TimerTick

TimerSpec == TimerInit /\ [][TimerNext]_timerVars
-----------------------------------------------------------------------------
(* Properties *)

\* A registered client that answers every PING is disconnected by no handler,
\* neither by the ping check nor by an authorization timeout its PONG overtook,
\* if the checks come more often than every two minutes and its answers come
\* between them.
AnsweringStays ==
    [][answers /\ ready /\ status = "up" /\ Lag < freq /\ freq + Late <= Patience
        => status' # "out"]_timerVars

\* A client that does not answer is out at the first check after the two
\* minutes, and one that never was ready at the authorization timeout.
SilentGoes ==
    status # "out" =>
        quiet <= (IF status = "up" THEN Patience + freq ELSE AuthTimeout) + Late
=============================================================================
