-------------------------------- MODULE Stats --------------------------------
(***************************************************************************)
(* The numbers LUSERS prints (stats.hpp) against what they count: every    *)
(* place that moves a counter, over the accepts of a listener, the         *)
(* registration, OPER, user modes, and the end of connections and users;   *)
(* and what a user is told of its own modes.                               *)
(*                                                                         *)
(* The counters are not computed: an accept, a PONG, a removeConnection    *)
(* and a destructor each add or take one, on conditions of their own.  A   *)
(* socket may report its end more than once and the destructor of a user   *)
(* may run long after (Session), and each report counts.                   *)
(*                                                                         *)
(* A user's modes are its letters here; ModeTable has them as the bits of  *)
(* a mask, and Talk the modes of channels.                                 *)
(***************************************************************************)
EXTENDS Integers, FiniteSets, SequencesExt

CONSTANTS
    Sockets,        \* connections, named by their socket
    Lines,          \* mode lines a user sends for itself: signs and letters
    MaxConnections, \* of the listener
    MaxAccepts,     \* bound: connections accepted in one run
    MaxReports      \* bound: reports of one socket waiting at a time

ASSUME StatsParams ==
    /\ IsFiniteSet(Sockets)
    /\ \A l \in Lines : l \in Seq(STRING)
    /\ MaxConnections \in Nat
    /\ MaxAccepts \in Nat
    /\ MaxReports \in Nat

VARIABLES
    listening,  \* the listener waits for an accept
    conns,      \* UnrealListener::connections
    users,      \* sockets with an UnrealUser object
    servers,    \* sockets of a server listener: they have none
    unready,    \* users with an auth flag left
    ponged,     \* users that have sent a PONG: registerUser has run
    doomed,     \* users in user_destructs
    modes,      \* modes[x]: the letters of x's user modes
    told,       \* told[x]: the letters x believes it has, from what it was sent
    reports,    \* reports[x]: reports of the end of x that wait
    st,         \* unreal->stats
    twice       \* history: a socket has reported twice

vars == <<listening, conns, users, servers, unready, ponged, doomed, modes, told,
          reports, st, twice>>

Counters == {"unk", "cur", "max", "total", "local", "localMax", "usersMax",
             "inv", "opers"}

Init ==
    /\ listening = TRUE
    /\ conns = {} /\ users = {} /\ servers = {} /\ unready = {} /\ ponged = {}
    /\ doomed = {}
    /\ modes = [x \in Sockets |-> {}]
    /\ told = [x \in Sockets |-> {}]
    /\ reports = [x \in Sockets |-> 0]
    /\ st = [c \in Counters |-> 0]
    /\ twice = FALSE

\* The table initModes fills.
UserModes == {"d", "i", "o", "w"}
Has(x, c) == c \in modes[x]
Invisible == {x \in users : Has(x, "i")}
Operators == {x \in users : Has(x, "o")}

Less(n) == IF n > 0 THEN n - 1 ELSE 0
AtLeast(n, m) == IF n > m THEN n ELSE m

-----------------------------------------------------------------------------
(* Accepting *)

\* addConnection's counters.
Counted ==
    [st EXCEPT !["unk"] = @ + 1, !["cur"] = @ + 1, !["total"] = @ + 1,
               !["max"] = AtLeast(@, st["cur"] + 1)]

\* A listener with all slots in use closes the socket and counts nothing.
MayAccept(x) ==
    /\ listening
    /\ Cardinality(conns) < MaxConnections
    /\ x \notin conns \cup users /\ reports[x] = 0
    /\ st["total"] < MaxAccepts

AcceptClient(x) ==
    /\ MayAccept(x)
    /\ conns' = conns \cup {x}
    /\ users' = users \cup {x}
    /\ unready' = unready \cup {x}
    /\ st' = Counted
    /\ UNCHANGED <<listening, servers, ponged, doomed, modes, told, reports,
                   twice>>

AcceptServer(x) ==
    /\ MayAccept(x)
    /\ conns' = conns \cup {x}
    /\ servers' = servers \cup {x}
    /\ st' = Counted
    /\ UNCHANGED <<listening, users, unready, ponged, doomed, modes, told,
                   reports, twice>>

\* handleAccept with an error logs it and does not wait for another client.
AcceptFails ==
    /\ listening
    /\ listening' = FALSE
    /\ UNCHANGED <<conns, users, servers, unready, ponged, doomed, modes,
                   told, reports, st, twice>>

-----------------------------------------------------------------------------
(* Registration and user modes *)

\* The last auth flag goes.
Introduce(x) ==
    /\ x \in unready
    /\ unready' = unready \ {x}
    /\ UNCHANGED <<listening, conns, users, servers, ponged, doomed, modes,
                   told, reports, st, twice>>

\* The first PONG: registerUser.
Register(x) ==
    /\ x \in users \ ponged
    /\ ponged' = ponged \cup {x}
    /\ st' = [st EXCEPT !["unk"] = Less(@), !["local"] = @ + 1,
                        !["usersMax"] = AtLeast(Cardinality(users), @),
                        !["localMax"] = AtLeast(st["local"] + 1, @)]
    /\ UNCHANGED <<listening, conns, users, servers, unready, doomed, modes,
                   told, reports, twice>>

Commands(x) == x \in users \ unready

\* UnrealUser::modestr
Modestr(data) == {c \in UserModes : c \in data}

Becomes(x, data, seen) ==
    /\ modes' = [modes EXCEPT ![x] = data]
    /\ told' = [told EXCEPT ![x] = seen]
    /\ UNCHANGED <<listening, conns, users, servers, unready, ponged, doomed, reports,
                   twice>>

\* Mutant: OPER counts a user who is one already.
OperCountsAgain(x) ==
    LET data == modes[x] \cup {"o"}
    IN  /\ Commands(x)
        /\ Becomes(x, data, told[x] \cup Modestr(data))
        /\ st' = [st EXCEPT !["opers"] = @ + 1]

\* OPER, with name and password: the user is sent MODE +<all its modes>.
Oper(x) ==
    LET data == modes[x] \cup {"o"}
    IN  /\ Commands(x)
        /\ Becomes(x, data, told[x] \cup Modestr(data))
        /\ st' = IF Has(x, "o") THEN st ELSE [st EXCEPT !["opers"] = @ + 1]

\* Mutant: only the first sign is written.
SignedOnce(a) == IF a.last # "" THEN a
                 ELSE [a EXCEPT !.last = a.sign, !.out = Append(@, a.sign)]

\* MODE <nick> <line>, letter by letter.  out is what the user will be sent:
\* a sign goes in where a letter follows the other sign, whether the letter
\* changes something or not.
Signed(a) == IF a.last = a.sign THEN a
             ELSE [a EXCEPT !.last = a.sign, !.out = Append(@, a.sign)]

\* The counters move where the flag does; nobody makes itself an operator.
Flag(a, c) ==
    LET add   == a.sign = "+"
        stat  == IF c = "i" THEN {"inv"} ELSE IF c = "o" THEN {"opers"} ELSE {}
    IN  IF (c \in a.modes) = add \/ (add /\ c = "o") THEN a
        ELSE [sign  |-> a.sign,
              last  |-> a.last,
              out   |-> Append(a.out, c),
              modes |-> IF add THEN a.modes \cup {c} ELSE a.modes \ {c},
              st    |-> [k \in Counters |->
                            IF k \notin stat THEN a.st[k]
                            ELSE IF add THEN a.st[k] + 1 ELSE a.st[k] - 1]]

Letter(a, c) ==
    IF c \in {"+", "-"} THEN [a EXCEPT !.sign = c]
    ELSE IF c \notin UserModes THEN a
    ELSE Flag(Signed(a), c)

\* How the user reads it: a sign counts for the letters after it.
ReadLetter(v, c) ==
    IF c \in {"+", "-"} THEN [sign |-> c, seen |-> v.seen]
    ELSE [sign |-> v.sign,
          seen |-> IF v.sign = "+" THEN v.seen \cup {c} ELSE v.seen \ {c}]

Unread(seen) == [sign |-> "+", seen |-> seen]
Read(seen, out) == FoldLeft(ReadLetter, Unread(seen), out).seen

Unchanged(x) ==
    [sign |-> "+", last |-> "", out |-> <<>>, modes |-> modes[x], st |-> st]

UserMode(x, line) ==
    LET a == FoldLeft(Letter, Unchanged(x), line)
    IN  /\ Commands(x)
        /\ Becomes(x, a.modes, IF Len(a.out) > 1 THEN Read(told[x], a.out) ELSE told[x])
        /\ st' = a.st

-----------------------------------------------------------------------------
(* The end *)

\* The read fails, or a write to a user that still exists.
Report(x) ==
    /\ \/ x \in users
       \/ x \in servers /\ reports[x] = 0
    /\ reports[x] < MaxReports
    /\ reports' = [reports EXCEPT ![x] = @ + 1]
    /\ twice' = (twice \/ x \notin conns \/ reports[x] > 0)
    /\ UNCHANGED <<listening, conns, users, servers, unready, ponged, doomed, modes,
                   told, st>>

\* The counters after ~UnrealUser.
Destructed(x, s) ==
    [s EXCEPT !["local"] = Less(@),
              !["inv"] = IF Has(x, "i") THEN Less(@) ELSE @,
              !["unk"] = IF x \in unready THEN Less(@) ELSE @,
              !["opers"] = IF Has(x, "o") THEN Less(@) ELSE @]

Delete(x) ==
    /\ users' = users \ {x}
    /\ unready' = unready \ {x}
    /\ ponged' = ponged \ {x}
    /\ doomed' = doomed \ {x}
    /\ modes' = [modes EXCEPT ![x] = {}]
    /\ told' = [told EXCEPT ![x] = {}]

Keep == UNCHANGED <<users, unready, ponged, modes, told>>

\* Mutant: a connection that ends before its user leaves its slot taken.
DisconnectedLater(x) == IF x \in unready THEN conns ELSE conns \ {x}

\* connections.remove(sptr)
Disconnected(x) == conns \ {x}

\* removeConnection.  A lookup that is pending, which needs an auth flag,
\* puts the deletion off.
RemoveConnection(x) ==
    LET closed == [st EXCEPT !["cur"] = Less(@)]
    IN  /\ reports[x] > 0
        /\ reports' = [reports EXCEPT ![x] = @ - 1]
        /\ conns' = Disconnected(x)
        /\ servers' = servers \ {x}
        /\ IF x \notin users
             THEN /\ Keep
                  /\ UNCHANGED doomed
                  /\ st' = [closed EXCEPT !["unk"] = Less(@)]
             ELSE \/ /\ Delete(x)
                     /\ st' = Destructed(x, closed)
                  \/ /\ x \in unready
                     /\ Keep
                     /\ doomed' = doomed \cup {x}
                     /\ st' = closed
        /\ UNCHANGED <<listening, twice>>

\* The lookup is over.
DestroyDoomed(x) ==
    /\ x \in doomed
    /\ Delete(x)
    /\ st' = Destructed(x, st)
    /\ UNCHANGED <<listening, conns, servers, reports, twice>>

Next ==
    \/ \E x \in Sockets :
          \/ AcceptClient(x) \/ AcceptServer(x)
          \/ Introduce(x) \/ Register(x)
          \/ Oper(x)
          \/ \E l \in Lines : UserMode(x, l)
          \/ Report(x) \/ RemoveConnection(x) \/ DestroyDoomed(x)
    \/ AcceptFails

Spec == Init /\ [][Next]_vars
-----------------------------------------------------------------------------
\* LUSERS: the first line takes one counter from the length of a list.
Lusers == [visible   |-> Cardinality(users) - st["inv"],
           invisible |-> st["inv"],
           operators |-> st["opers"]]

-----------------------------------------------------------------------------
(* Properties *)

\* A user that believes what it is sent, the answer to OPER and the echo of
\* its mode lines with the signs and letters they drop, knows its modes.
OwnModesKnown == \A x \in Sockets : told[x] = Modestr(modes[x])

\* LUSERS is right about visible and invisible users and IRC operators,
\* although OPER, two user modes and the destructor, immediate or put off,
\* move the counters on conditions of their own.
UsersCounted ==
    Lusers = [visible   |-> Cardinality(users \ Invisible),
              invisible |-> Cardinality(Invisible),
              operators |-> Cardinality(Operators)]

\* No counter goes below zero.  Unless a socket reported its end twice, the
\* connections are counted; and a listener with a free slot is never taken for
\* a full one because of a connection that is gone.
ConnectionsCounted ==
    /\ \A c \in Counters : st[c] >= 0
    /\ ~twice => st["cur"] = Cardinality(conns)
    /\ Cardinality(conns) <= MaxConnections
    /\ \A x \in conns : x \in users \cup servers
=============================================================================
