------------------------------- MODULE Session -------------------------------
(***************************************************************************)
(* The life of a client connection, from the accept to the deletion of its *)
(* UnrealUser object: listener.cpp, the authentication half of user.cpp,   *)
(* and the NICK, USER and PONG commands.                                   *)
(*                                                                         *)
(* The handlers run one at a time on the reactor, but a user object waits  *)
(* for several of them at once: the resolver (a reverse query, then a      *)
(* forward query), the ident socket, one timer, and the error reports of   *)
(* the client socket.  They all hold a bare pointer to the object.         *)
(* UnrealUser::destroy therefore defers the deletion while a request is    *)
(* pending, by a copy of the pointer in user_destructs.                    *)
(*                                                                         *)
(* A user is named by the address of its object; an address is used again  *)
(* once the object is deleted and no callback is bound to it any more.     *)
(*                                                                         *)
(* fate tells how the process fares: "running"; "crashed", when a handler  *)
(* lets the exception of remote_endpoint() on a dead socket escape through *)
(* reactor_.run(); "undefined", when a callback runs on a deleted object   *)
(* or a command finds one in the nick map.  What happens after either is   *)
(* not modelled.                                                           *)
(***************************************************************************)
EXTENDS Naturals, FiniteSets

CONSTANTS
    Users,          \* addresses an UnrealUser object may live at
    Nicks,          \* nicknames, lower-cased, valid and not empty
    NoNick,         \* the empty nickname, which isValidNick accepts
    IdentCheck,     \* Features::EnableIdentCheck
    Mishaps,        \* which of the mishaps below the environment has
    MaxReports      \* bound: a write that fails adds no report beyond it

\* reverse_fails: the reverse query may return an error.
\* slow_dns:      the client or the timer may be faster than the resolver.
\* gone_early:    the client may be gone when its connection is accepted.
\* double_report: a write may fail besides the outstanding read.
\* timer_race:    a timer handler and an error report may be queued together.
AllMishaps ==
    {"reverse_fails", "slow_dns", "gone_early", "double_report", "timer_race"}

ASSUME SessionParams ==
    /\ NoNick \notin Nicks
    /\ IdentCheck \in BOOLEAN
    /\ Mishaps \subseteq AllMishaps
    /\ MaxReports \in Nat \ {0}

VARIABLES
    fate,       \* "running", "crashed" or "undefined"
    live,       \* objects that exist: in unreal->users and local_users
    nick,       \* nick[u]: UnrealUser::nickname_
    nicks,      \* the map unreal->nicks: a set of <<nickname, user>>
    s           \* s[u]: the rest of u's session

vars == <<fate, live, nick, nicks, s>>

AuthFlags == {"nick", "user", "dns", "rdns", "ident"}
Timers == {"auth", "ping"}

(* sock: "open"; "eof", the peer closed its side; "shut", closed by the    *)
(* server or reset, when remote_endpoint() throws.                         *)
(* dns: the query outstanding.  ident: state of the ident socket; after    *)
(* "failed" and "none" it has no callback pending.                         *)
Session ==
    [sock : {"open", "eof", "shut"},
     auth : SUBSET AuthFlags,           \* auth_flags_
     ponged : BOOLEAN,                  \* last_pong_time_ is set
     welcomed : BOOLEAN,                \* registerUser has run
     dns : {"none", "reverse", "forward"},
     ident : {"none", "connecting", "connected", "answered", "failed",
              "cancelConnect", "cancelRead"},
     wait : Timers \cup {"none"},       \* what timer_ waits for
     due : SUBSET Timers,               \* expired waits, handler queued
     reports : Nat,                     \* error reports queued by the socket
     doomed : Nat]                      \* copies in user_destructs

NoSession ==
    [sock |-> "shut", auth |-> {}, ponged |-> FALSE, welcomed |-> FALSE,
     dns |-> "none", ident |-> "none", wait |-> "none", due |-> {},
     reports |-> 0, doomed |-> 0]

Init ==
    /\ fate = "running"
    /\ live = {}
    /\ nick = [u \in Users |-> NoNick]
    /\ nicks = {}
    /\ s = [u \in Users |-> NoSession]

-----------------------------------------------------------------------------
(* What the handlers are made of: operators on one session record.         *)

\* Send to the client.  On a dead socket the write fails and reports it; the
\* first one after the peer closed its side may still be accepted.
Sends(r) ==
    LET failed == [r EXCEPT !.reports = @ + 1]
    IN  IF \/ r.sock = "open" \/ "double_report" \notin Mishaps
           \/ r.reports + r.doomed >= MaxReports
        THEN {r}
        ELSE IF r.sock = "eof" THEN {r, failed} ELSE {failed}

\* Revoke auth flags; the last one brings a PING to the client.
Revoked(r, fs) == [r EXCEPT !.auth = @ \ fs]
PingIfDone(r) == IF r.auth = {} THEN Sends(r) ELSE {r}

\* destroyIdentRequest
IdentDone(r) == PingIfDone(Revoked(r, {"ident"}))

\* exit(message): an ERROR line, then close.  The outstanding read is
\* aborted and reports; after an end of file it has reported already, but
\* the line may fail.  A socket that is closed is left alone.
Closed(r) ==
    IF r.sock = "open"
    THEN {[r EXCEPT !.sock = "shut", !.reports = @ + 1]}
    ELSE {[q EXCEPT !.sock = "shut"] : q \in {r} \cup Sends(r)}

\* Mutant: any authentication still missing counts as a request.
HavePendingAny(r) == r.auth # {}

\* A request is pending whose callback comes back to the user.
HavePendingRequests(r) == r.auth \cap {"dns", "ident"} # {}

\* Callbacks that will still be called for the object, but for the timer's
\* aborted one, which touches nothing.
Callbacks(r) ==
    (IF r.dns = "none" THEN {} ELSE {"dns"})
    \cup (IF r.ident \in {"none", "failed"} THEN {} ELSE {"ident"})
    \cup r.due

Now(u, r) == s' = [s EXCEPT ![u] = r] /\ UNCHANGED <<fate, live, nick, nicks>>

\* A handler that leaves u's record as one of rs.
Becomes(u, rs) == \E r \in rs : Now(u, r)

\* Mutant: the pointer is not remembered.
DeferForgotten(r) == r

\* user_destructs << uptr, and user_destructs.remove(uptr) if it contains it.
Defer(r) == [r EXCEPT !.doomed = @ + 1]
TakenOff(n) == IF n > 0 THEN n - 1 ELSE 0

\* The nick map without n.  The empty nickname stands for none, and its
\* entry is never removed.
NicksWithout(n) == {p \in nicks : p[1] # n \/ n = NoNick}

\* UnrealUser::destroy, u's record being r: defer or delete.  A deletion
\* takes one copy off user_destructs, and the timer with the object.
Destroy(u, r) ==
    IF HavePendingRequests(r)
    THEN Now(u, Defer(r))
    ELSE /\ s' = [s EXCEPT ![u] =
                [NoSession EXCEPT !.dns = r.dns, !.ident = r.ident, !.due = r.due,
                                  !.doomed = TakenOff(r.doomed)]]
         /\ live' = live \ {u}
         /\ nicks' = NicksWithout(nick[u])
         /\ nick' = [nick EXCEPT ![u] = NoNick]
         /\ UNCHANGED fate

\* Mutants: the handler forgets to look, or destroys whatever it finds.
DestroyNever(u, r, rs) == Becomes(u, rs)
DestroyAlways(u, r, rs) == Destroy(u, r)

\* The end of a callback handler that looks into user_destructs.
DestroyIfDoomed(u, r, rs) ==
    IF r.doomed > 0 THEN Destroy(u, r) ELSE Becomes(u, rs)

\* remote_endpoint() throws on a dead socket, and nobody catches.
Throws(r) == r.sock = "shut"
Crash == fate' = "crashed" /\ UNCHANGED <<live, nick, nicks, s>>
Undefined == fate' = "undefined" /\ UNCHANGED <<live, nick, nicks, s>>

\* A callback bound to u runs: body, if the object still exists.
Callback(u, body) ==
    /\ fate = "running"
    /\ IF u \in live THEN body ELSE Undefined

\* Without slow_dns nothing ends the connection before both answers are in.
MayEnd(u) == "slow_dns" \in Mishaps \/ s[u].dns = "none"

-----------------------------------------------------------------------------
(* Accepting, and the client's commands.                                   *)

\* Mutants: AFIdent is set with the check switched off; no timer is started.
AwaitedAlways == AuthFlags
NewSessionUntimed == NoSession

\* What auth waits for, and a session it has begun.
Awaited == AuthFlags \ (IF IdentCheck THEN {} ELSE {"ident"})
NewSession == [NoSession EXCEPT !.wait = "auth"]

\* addConnection and auth: both lookups are flagged, the reverse query and
\* the ident connection are started, the client gets AuthTimeout seconds.
Accept(u) ==
    /\ fate = "running"
    /\ u \notin live
    /\ Callbacks(s[u]) = {}
    /\ live' = live \cup {u}
    /\ s' = [s EXCEPT ![u] = [NewSession EXCEPT
            !.sock = "open", !.dns = "reverse", !.auth = Awaited,
            !.ident = IF IdentCheck THEN "connecting" ELSE "none",
            !.doomed = s[u].doomed]]
    /\ UNCHANGED <<fate, nick, nicks>>

\* The same for a client that is gone: resolveHostname and checkRemoteIdent
\* find no remote endpoint and start nothing.
AcceptGone(u) ==
    /\ fate = "running"
    /\ u \notin live
    /\ Callbacks(s[u]) = {}
    /\ "gone_early" \in Mishaps
    /\ live' = live \cup {u}
    /\ s' = [s EXCEPT ![u] = [NewSession EXCEPT
            !.sock = "shut", !.auth = {"nick", "user", "rdns"},
            !.reports = 1, !.doomed = s[u].doomed]]
    /\ UNCHANGED <<fate, nick, nicks>>

\* A line of u's receive queue is run; also after the socket died.
Runs(u) == fate = "running" /\ u \in live

\* Mutant: the entry of the old nickname stays.
SetNickAdds(u, n) ==
    /\ nick' = [nick EXCEPT ![u] = n]
    /\ nicks' = nicks \cup {<<n, u>>}

\* UnrealUser::setNick moves u's entry in the nick map.
SetNick(u, n) ==
    /\ nick' = [nick EXCEPT ![u] = n]
    /\ nicks' = NicksWithout(nick[u]) \cup {<<n, u>>}

\* NICK with a free nickname, the empty one ("NICK :") included.  The first
\* NICK keeps an earlier nickname, which there never is.
Nick(u, n) ==
    /\ Runs(u)
    /\ \A p \in nicks : p[1] # n
    /\ LET r == s[u]
           first == "nick" \in r.auth
       IN  /\ IF first /\ nick[u] # NoNick
              THEN UNCHANGED <<nick, nicks>>
              ELSE SetNick(u, n)
           /\ \E q \in IF first THEN PingIfDone(Revoked(r, {"nick"}))
                                ELSE Sends(r) :
                 s' = [s EXCEPT ![u] = q]
    /\ UNCHANGED <<fate, live>>

\* USER
UserCmd(u) ==
    /\ Runs(u)
    /\ "user" \in s[u].auth
    /\ Becomes(u, PingIfDone(Revoked(s[u], {"user"})))

\* PONG with the server's name.  The first one registers the user, which
\* puts the ping timer in the place of the authorization timer; the auth
\* flags are not looked at.
Pong(u) ==
    /\ Runs(u)
    /\ ~s[u].ponged
    /\ Becomes(u, Sends([s[u] EXCEPT !.ponged = TRUE, !.welcomed = TRUE,
                                     !.wait = "ping"]))

\* Any other call of exit(message) or close(): QUIT, KILL, a full queue.
Close(u) ==
    /\ Runs(u)
    /\ MayEnd(u)
    /\ Becomes(u, Closed(s[u]))

\* A line to u: the reply to a command, or what another user sends.
Message(u) ==
    /\ Runs(u)
    /\ Becomes(u, Sends(s[u]))

\* A command of u finds an entry of the nick map whose object is deleted
\* ("PRIVMSG : ..." after the user of the empty nickname has gone).
StaleLookup(u) ==
    /\ Runs(u)
    /\ \E p \in nicks : p[2] \notin live
    /\ Undefined

-----------------------------------------------------------------------------
(* The client socket.                                                      *)

\* The peer closes its side, or resets the connection: the outstanding read
\* is reported.
PeerGone(u) ==
    /\ Runs(u)
    /\ MayEnd(u)
    /\ s[u].sock = "open"
    /\ Becomes(u, {[s[u] EXCEPT !.sock = k, !.reports = 1] : k \in {"eof", "shut"}})

\* onDisconnected: removeConnection.  A socket may report more than once,
\* the outstanding read and any write that failed.
RemoveConnection(u) ==
    /\ Runs(u)
    /\ s[u].reports > 0
    /\ "timer_race" \in Mishaps \/ s[u].due = {}
    /\ Destroy(u, [s[u] EXCEPT !.reports = @ - 1])

-----------------------------------------------------------------------------
(* The resolver: handleResolveResponse.                                    *)

\* The lookup is over, one way or the other: a notice to the client, AFRDNS
\* goes and the resolver with it.
LookupDone(u) ==
    LET r == [Revoked(s[u], {"rdns"}) EXCEPT !.dns = "none"]
    IN  Callback(u, IF Throws(s[u]) THEN Crash
                    ELSE \E q \in Sends(r) :
                            DestroyIfDoomed(u, q, PingIfDone(q)))

\* The reverse query is answered: AFDNS goes and the forward query follows.
ReverseAnswer(u) ==
    /\ s[u].dns = "reverse"
    /\ Callback(u, IF Throws(s[u]) THEN Crash
                   ELSE Now(u, [Revoked(s[u], {"dns"}) EXCEPT !.dns = "forward"]))

\* An error for the reverse query: AFRDNS goes, AFDNS stays.
ReverseError(u) ==
    /\ "reverse_fails" \in Mishaps
    /\ s[u].dns = "reverse"
    /\ LookupDone(u)

\* The forward query is answered or fails.
ForwardAnswer(u) ==
    /\ s[u].dns = "forward"
    /\ LookupDone(u)

-----------------------------------------------------------------------------
(* The ident socket.                                                       *)

\* handleIdentCheckConnected asks for the client's ports.
IdentConnected(u) ==
    /\ s[u].ident = "connecting"
    /\ Callback(u, IF Throws(s[u]) THEN Crash
                   ELSE Now(u, [s[u] EXCEPT !.ident = "connected"]))

\* handleIdentCheckError: no connection, or one the timer cancelled.
\* user_destructs is not looked at.
IdentError(u) ==
    /\ s[u].ident \in {"connecting", "cancelConnect"}
    /\ LET r == [s[u] EXCEPT !.ident =
                    IF @ = "connecting" THEN "failed" ELSE "none"]
       IN  Callback(u, Becomes(u, UNION {IdentDone(q) : q \in Sends(r)}))

\* handleIdentCheckRead: a line, valid or not; neither does it.
IdentRead(u) ==
    /\ s[u].ident \in {"connected", "answered"}
    /\ LET r == [s[u] EXCEPT !.ident = "answered"]
       IN  Callback(u, Becomes(u, UNION {IdentDone(q) : q \in Sends(r)}))

\* handleIdentCheckDisconnected: the ident server closed, or the cancelled
\* read is reported.
IdentDisconnected(u) ==
    /\ s[u].ident \in {"connected", "answered", "cancelRead"}
    /\ LET r == [s[u] EXCEPT !.ident = "none"]
       IN  Callback(u, DestroyIfDoomed(u, Revoked(r, {"ident"}), IdentDone(r)))

-----------------------------------------------------------------------------
(* The timer.                                                              *)

\* The wait ends: its handler is queued with no error.
TimerExpires(u) ==
    /\ Runs(u)
    /\ MayEnd(u)
    /\ "timer_race" \in Mishaps \/ s[u].reports = 0
    /\ s[u].wait # "none"
    /\ Now(u, [s[u] EXCEPT !.due = @ \cup {s[u].wait}, !.wait = "none"])

\* checkAuthTimeout
AuthTimeout(u) ==
    /\ "auth" \in s[u].due
    /\ LET r == [s[u] EXCEPT !.due = @ \ {"auth"}]
           cancelled == [r EXCEPT !.ident =
                            CASE @ = "connecting" -> "cancelConnect"
                              [] @ = "connected" -> "cancelRead"
                              [] OTHER -> @]
       IN  Callback(u,
             IF r.auth \cap {"nick", "user"} # {} THEN Becomes(u, Closed(r))
             ELSE IF r.ponged THEN Now(u, r)
             ELSE IF "ident" \in r.auth
                  THEN Becomes(u, UNION {Sends(q) : q \in IdentDone(cancelled)})
                  ELSE Becomes(u, Closed(r)))

\* checkPingTimeout: the last PONG is too old, or the next PING goes out.
PingTimeout(u) ==
    /\ "ping" \in s[u].due
    /\ LET r == [s[u] EXCEPT !.due = @ \ {"ping"}]
       IN  Callback(u, \/ Becomes(u, Closed(r))
                       \/ Becomes(u, Sends([r EXCEPT !.wait = "ping"])))

-----------------------------------------------------------------------------
\* The process has stopped, or its behaviour is undefined.
Stopped == fate # "running" /\ UNCHANGED vars

ClientStep(u) ==
    \/ Accept(u) \/ AcceptGone(u)
    \/ \E n \in Nicks \cup {NoNick} : Nick(u, n)
    \/ UserCmd(u) \/ Pong(u) \/ Close(u) \/ Message(u) \/ StaleLookup(u)
    \/ PeerGone(u)

ResolverStep(u) == ReverseAnswer(u) \/ ReverseError(u) \/ ForwardAnswer(u)

IdentStep(u) ==
    IdentConnected(u) \/ IdentError(u) \/ IdentRead(u) \/ IdentDisconnected(u)

TimerStep(u) == TimerExpires(u) \/ AuthTimeout(u) \/ PingTimeout(u)

Next ==
    \/ \E u \in Users : \/ ClientStep(u) \/ RemoveConnection(u)
                        \/ ResolverStep(u) \/ IdentStep(u) \/ TimerStep(u)
    \/ Stopped

Spec == Init /\ [][Next]_vars

\* The reactor runs every handler it queued, timers expire and the resolver
\* answers in the end.  Nothing is assumed of clients or ident servers.
Fairness ==
    \A u \in Users :
        /\ WF_vars(RemoveConnection(u))
        /\ WF_vars(ResolverStep(u))
        /\ WF_vars(TimerExpires(u))
        /\ WF_vars(AuthTimeout(u))
        /\ WF_vars(PingTimeout(u))

FairSpec == Spec /\ Fairness
-----------------------------------------------------------------------------
(* Properties *)

TypeOK ==
    /\ fate \in {"running", "crashed", "undefined"}
    /\ live \subseteq Users
    /\ nick \in [Users -> Nicks \cup {NoNick}]
    /\ nicks \subseteq (Nicks \cup {NoNick}) \X Users
    /\ s \in [Users -> Session]

\* The nick map and the users agree, through renames, deferred deletions and
\* addresses used again: an entry leads to a live user of that name, every
\* named user is found by its name, and nobody else has it.  The empty
\* nickname is left out: its entry outlives its user.  But it has at most one.
NickMapExact ==
    /\ {p \in nicks : p[1] # NoNick}
           = {<<nick[u], u>> : u \in {v \in live : nick[v] # NoNick}}
    /\ \A p, q \in nicks : p[1] = q[1] => p = q

\* A dead connection is never forgotten: until its user is deleted an error
\* report is on its way or the pointer is in user_destructs.
DeadIsReported ==
    \A u \in live : s[u].sock # "open" => s[u].reports > 0 \/ s[u].doomed > 0

\* An answer a connected user still waits for is one that was asked for: AFDNS and
\* AFRDNS are set only while a query is out, AFIdent only while the ident
\* socket is busy.  Otherwise the user could never be introduced.
AwaitedIsOutstanding ==
    \A u \in {v \in live : s[v].sock = "open"} :
        /\ s[u].auth \cap {"dns", "rdns"} # {} => s[u].dns # "none"
        /\ "ident" \in s[u].auth => s[u].ident \in {"connecting", "connected"}

\* A user in user_destructs has a callback ahead that will come back to it.
DeferredHasCallback ==
    \A u \in live : s[u].doomed > 0 =>
        s[u].dns # "none" \/ s[u].ident \notin {"none", "failed"}

\* An object is deleted only after its own connection has ended.
OnlyEndedDestroyed ==
    [][\A u \in live \ live' : s[u].sock # "open"]_vars

\* A connection does not stay unregistered for ever.
NoLingering ==
    \A u \in Users :
        u \in live /\ ~s[u].welcomed
            ~> u \notin live \/ s[u].welcomed \/ fate # "running"

\* The user of a dead connection is deleted in the end.
DeadIsDeleted ==
    \A u \in Users :
        u \in live /\ s[u].sock # "open"
            ~> u \notin live \/ s[u].sock = "open" \/ fate # "running"
=============================================================================
