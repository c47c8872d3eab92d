---------------------------- MODULE SessionProofs ----------------------------
(***************************************************************************)
(* Invariants of Session for any number of addresses and nicknames, with   *)
(* any mishaps, with ident lookups and without.                            *)
(*                                                                         *)
(* NickMapExact is not inductive as it stands: an address that is accepted *)
(* again must not bring an old nickname with it (FreeIsNameless).          *)
(* DeadIsReported is, given the types: every handler leaves a record that  *)
(* keeps its reports, adds some, or trades one for an entry in             *)
(* user_destructs.                                                         *)
(*                                                                         *)
(* The second half is about what answers are awaited and how often a       *)
(* connection ends.  Its invariant, KInv, says of each clause which        *)
(* mishaps it cannot bear; After is what most handlers do to a record.     *)
(***************************************************************************)
EXTENDS Session, TLAPS

\* No address keeps a nickname without a user.
FreeIsNameless == \A u \in Users \ live : nick[u] = NoNick

IInv == TypeOK /\ NickMapExact /\ FreeIsNameless /\ DeadIsReported

\* DeadIsReported of one record.
Reported(r) == r.sock # "open" => r.reports > 0 \/ r.doomed > 0

\* q is r after a handler that neither closes the socket nor takes a report.
Later(r, q) ==
    /\ q \in Session
    /\ q.sock = r.sock
    /\ q.doomed = r.doomed
    /\ q.reports >= r.reports

-----------------------------------------------------------------------------
(* What the parts of the handlers do to a record. *)

\* A session that has not begun, or just begins, is one.
LEMMA NoSessionType == NoSession \in Session /\ NewSession \in Session
  BY DEF NoSession, NewSession, Session, Timers

\* Later is transitive.
LEMMA LaterTrans ==
  ASSUME NEW p \in Session, NEW q, NEW r, Later(p, q), Later(q, r)
  PROVE  Later(p, r)
  BY DEF Later, Session

\* A later record still has what Reported asks for.
LEMMA LaterReported ==
  ASSUME NEW r \in Session, NEW q, Later(r, q), Reported(r)
  PROVE  Reported(q)
  BY DEF Later, Session, Reported

\* A write adds at most a report.
LEMMA SendsLater ==
  ASSUME NEW r \in Session, NEW q \in Sends(r)
  PROVE  Later(r, q)
  <1>1. Later(r, r)
    BY DEF Later, Session
  <1>2. Later(r, [r EXCEPT !.reports = @ + 1])
    BY DEF Later, Session
  <1> QED
    BY <1>1, <1>2 DEF Sends

\* Revoking flags touches nothing else.
LEMMA RevokedLater ==
  ASSUME NEW r \in Session, NEW fs
  PROVE  Later(r, Revoked(r, fs))
  <1>1. r.auth \ fs \in SUBSET AuthFlags
    BY DEF Session
  <1> QED
    BY <1>1 DEF Revoked, Later, Session

\* The PING after the last flag is a write.
LEMMA PingLater ==
  ASSUME NEW r \in Session, NEW q \in PingIfDone(r)
  PROVE  Later(r, q)
  <1>1. CASE r.auth = {}
    BY <1>1, SendsLater DEF PingIfDone
  <1>2. CASE r.auth # {}
    BY <1>2 DEF PingIfDone, Later, Session
  <1> QED
    BY <1>1, <1>2

\* destroyIdentRequest revokes a flag and may send a PING.
LEMMA IdentDoneLater ==
  ASSUME NEW r \in Session, NEW q \in IdentDone(r)
  PROVE  Later(r, q)
  <1>1. Later(r, Revoked(r, {"ident"}))
    BY RevokedLater
  <1>2. Revoked(r, {"ident"}) \in Session
    BY <1>1 DEF Later
  <1>3. Later(Revoked(r, {"ident"}), q)
    BY <1>2, PingLater DEF IdentDone
  <1> QED
    BY <1>1, <1>3, LaterTrans

\* A shut session with any number of reports is a session.
LEMMA ShutType ==
  ASSUME NEW r \in Session, NEW n \in Nat
  PROVE  [r EXCEPT !.sock = "shut", !.reports = n] \in Session
  BY DEF Session

\* A close leaves the report of the aborted read behind.
LEMMA ClosedType ==
  ASSUME NEW r \in Session, Reported(r), NEW q \in Closed(r)
  PROVE  q \in Session /\ Reported(q)
  <1>0. r.reports \in Nat
    BY DEF Session
  <1>1. CASE r.sock = "open"
    <2>1. q = [r EXCEPT !.sock = "shut", !.reports = r.reports + 1]
      BY <1>1 DEF Closed, Session
    <2>2. r.reports + 1 \in Nat /\ r.reports + 1 > 0
      BY <1>0
    <2>3. q \in Session
      BY <2>1, <2>2, ShutType
    <2>4. q.reports = r.reports + 1
      BY <2>1 DEF Session
    <2> QED
      BY <2>2, <2>3, <2>4 DEF Reported
  <1>2. CASE r.sock # "open"
    <2>1. PICK p \in {r} \cup Sends(r) : q = [p EXCEPT !.sock = "shut"]
      BY <1>2 DEF Closed
    <2>2. Later(r, p)
      BY SendsLater DEF Later, Session
    <2>3. p \in Session /\ Reported(p) /\ p.sock # "open"
      BY <1>2, <2>2, LaterReported DEF Later
    <2>4. q \in Session
      BY <2>1, <2>3 DEF Session
    <2>5. q.reports = p.reports /\ q.doomed = p.doomed
      BY <2>1, <2>3 DEF Session
    <2> QED
      BY <2>3, <2>4, <2>5 DEF Reported
  <1> QED
    BY <1>1, <1>2

-----------------------------------------------------------------------------
(* Preservation, by what a step does with the objects. *)

\* A step that rewrites the record of one address.
LEMMA NowInv ==
  ASSUME IInv, NEW u \in Users, NEW q \in Session, Reported(q), Now(u, q)
  PROVE  IInv'
  <1>1. TypeOK'
    BY DEF Now, IInv, TypeOK
  <1>2. NickMapExact' /\ FreeIsNameless'
    BY DEF Now, IInv, NickMapExact, FreeIsNameless
  <1>3. DeadIsReported'
    BY DEF Now, IInv, TypeOK, DeadIsReported, Reported
  <1> QED
    BY <1>1, <1>2, <1>3 DEF IInv

\* A step that leaves one of several records.
LEMMA BecomesInv ==
  ASSUME IInv, NEW u \in Users, NEW r \in Session, Reported(r), NEW rs,
         \A q \in rs : Later(r, q), Becomes(u, rs)
  PROVE  IInv'
  <1> PICK q \in rs : Now(u, q)
    BY DEF Becomes
  <1>1. q \in Session /\ Reported(q)
    BY LaterReported DEF Later
  <1> QED
    BY <1>1, NowInv

\* No two users have the same nickname.
LEMMA NamesDiffer ==
  ASSUME IInv, NEW u \in live
  PROVE  \A v \in live : v # u /\ nick[v] # NoNick => nick[v] # nick[u]
  <1> SUFFICES ASSUME NEW v \in live, v # u, nick[v] # NoNick, nick[v] = nick[u]
               PROVE  FALSE
    OBVIOUS
  <1>1. <<nick[v], v>> \in nicks /\ <<nick[u], u>> \in nicks
    BY DEF IInv, NickMapExact
  <1>2. <<nick[v], v>> = <<nick[u], u>>
    BY <1>1 DEF IInv, NickMapExact
  <1> QED
    BY <1>2

\* destroy defers with an entry in user_destructs, or deletes with the entry
\* of the nick map.
LEMMA DestroyInv ==
  ASSUME IInv, NEW u \in live, NEW r \in Session, Destroy(u, r)
  PROVE  IInv'
  <1>0. u \in Users
    BY DEF IInv, TypeOK
  <1>1. CASE HavePendingRequests(r)
    <2>1. Defer(r) \in Session /\ Reported(Defer(r))
      BY DEF Defer, Session, Reported
    <2> QED
      BY <1>0, <1>1, <2>1, NowInv DEF Destroy
  <1>2. CASE ~HavePendingRequests(r)
    <2> DEFINE q == [NoSession EXCEPT !.dns = r.dns, !.ident = r.ident, !.due = r.due,
                                      !.doomed = TakenOff(r.doomed)]
    <2>1. TakenOff(r.doomed) \in Nat
      BY DEF TakenOff, Session
    <2>2. q \in Session
      BY <2>1, NoSessionType DEF Session
    <2>3. /\ s' = [s EXCEPT ![u] = q]
          /\ live' = live \ {u}
          /\ nicks' = {p \in nicks : p[1] # nick[u] \/ nick[u] = NoNick}
          /\ nick' = [nick EXCEPT ![u] = NoNick]
          /\ UNCHANGED fate
      BY <1>2 DEF Destroy, NicksWithout
    <2> HIDE DEF q
    <2>4. TypeOK'
      BY <2>2, <2>3 DEF IInv, TypeOK
    <2>5. FreeIsNameless'
      BY <1>0, <2>3 DEF IInv, TypeOK, FreeIsNameless
    <2>6. DeadIsReported'
      BY <2>3 DEF IInv, TypeOK, DeadIsReported
    <2>7. NickMapExact'
      <3>1. \A v \in live' : v # u /\ v \in live /\ nick'[v] = nick[v]
        BY <1>0, <2>3 DEF IInv, TypeOK
      <3>2. \A v \in live : v # u /\ nick[v] # NoNick => nick[v] # nick[u]
        BY NamesDiffer
      <3>3. {p \in nicks' : p[1] # NoNick}
              = {<<nick'[v], v>> : v \in {w \in live' : nick'[w] # NoNick}}
        <4>1. {p \in nicks' : p[1] # NoNick}
                = {p \in nicks : p[1] # NoNick /\ p[1] # nick[u]}
          BY <2>3
        <4>2. {p \in nicks : p[1] # NoNick /\ p[1] # nick[u]}
                = {<<nick[v], v>> : v \in {w \in live : nick[w] # NoNick
                                                     /\ nick[w] # nick[u]}}
          BY DEF IInv, NickMapExact
        <4>3. {w \in live : nick[w] # NoNick /\ nick[w] # nick[u]}
                = {w \in live' : nick'[w] # NoNick}
          BY <2>3, <3>1, <3>2
        <4> QED
          BY <3>1, <4>1, <4>2, <4>3
      <3>4. \A p, r2 \in nicks' : p[1] = r2[1] => p = r2
        BY <2>3 DEF IInv, NickMapExact
      <3> QED
        BY <3>3, <3>4 DEF NickMapExact
    <2> QED
      BY <2>4, <2>5, <2>6, <2>7 DEF IInv
  <1> QED
    BY <1>1, <1>2

\* A new object at a free address.
LEMMA AcceptInv ==
  ASSUME IInv, NEW u \in Users \ live, NEW q \in Session, Reported(q),
         live' = live \cup {u}, s' = [s EXCEPT ![u] = q],
         UNCHANGED <<fate, nick, nicks>>
  PROVE  IInv'
  <1>1. TypeOK'
    BY DEF IInv, TypeOK
  <1>2. FreeIsNameless'
    BY DEF IInv, FreeIsNameless
  <1>3. DeadIsReported'
    BY DEF IInv, TypeOK, DeadIsReported, Reported
  <1>4. NickMapExact'
    <2>1. {v \in live' : nick'[v] # NoNick} = {v \in live : nick[v] # NoNick}
      BY DEF IInv, FreeIsNameless
    <2> QED
      BY <2>1 DEF IInv, NickMapExact
  <1> QED
    BY <1>1, <1>2, <1>3, <1>4 DEF IInv

\* setNick: the old entry goes, unless it is the empty nickname's; the new
\* name was free.
LEMMA SetNickInv ==
  ASSUME IInv, NEW u \in live, NEW n \in Nicks \cup {NoNick},
         \A p \in nicks : p[1] # n, SetNick(u, n)
  PROVE  /\ nick' = [nick EXCEPT ![u] = n]
         /\ nicks' \subseteq (Nicks \cup {NoNick}) \X Users
         /\ {p \in nicks' : p[1] # NoNick}
              = {<<nick'[v], v>> : v \in {w \in live : nick'[w] # NoNick}}
         /\ \A p, q \in nicks' : p[1] = q[1] => p = q
  <1>0. u \in Users
    BY DEF IInv, TypeOK
  <1>1. \A v \in live : v # u /\ nick[v] # NoNick => nick[v] # nick[u]
    BY NamesDiffer
  <1>2. /\ nick' = [nick EXCEPT ![u] = n]
        /\ nicks' = {p \in nicks : p[1] # nick[u] \/ nick[u] = NoNick} \cup {<<n, u>>}
    BY DEF SetNick, NicksWithout
  <1>3. nicks' \subseteq (Nicks \cup {NoNick}) \X Users
    BY <1>0, <1>2 DEF IInv, TypeOK
  <1>4. {p \in nicks' : p[1] # NoNick}
          = {<<nick'[v], v>> : v \in {w \in live : nick'[w] # NoNick}}
    <2>1. nick'[u] = n /\ \A v \in live \ {u} : nick'[v] = nick[v]
      BY <1>0, <1>2 DEF IInv, TypeOK
    <2>2. {p \in nicks : p[1] # NoNick /\ p[1] # nick[u]}
            = {<<nick[v], v>> : v \in {w \in live : nick[w] # NoNick
                                                 /\ nick[w] # nick[u]}}
      BY DEF IInv, NickMapExact
    <2>3. {w \in live : nick[w] # NoNick /\ nick[w] # nick[u]}
            = {w \in live \ {u} : nick'[w] # NoNick}
      BY <1>1, <2>1
    <2>4. {p \in nicks' : p[1] # NoNick}
            = {p \in nicks : p[1] # NoNick /\ p[1] # nick[u]}
                \cup (IF n = NoNick THEN {} ELSE {<<n, u>>})
      BY <1>2
    <2>5. {p \in nicks : p[1] # NoNick /\ p[1] # nick[u]}
            = {<<nick'[v], v>> : v \in {w \in live \ {u} : nick'[w] # NoNick}}
      BY <2>1, <2>2, <2>3
    <2>6. CASE n = NoNick
      <3>1. {w \in live \ {u} : nick'[w] # NoNick} = {w \in live : nick'[w] # NoNick}
        BY <2>1, <2>6
      <3> QED
        BY <2>4, <2>5, <2>6, <3>1
    <2>7. CASE n # NoNick
      <3>1. {w \in live : nick'[w] # NoNick}
              = {w \in live \ {u} : nick'[w] # NoNick} \cup {u}
        BY <2>1, <2>7
      <3>2. {<<nick'[v], v>> : v \in {w \in live : nick'[w] # NoNick}}
              = {<<nick'[v], v>> : v \in {w \in live \ {u} : nick'[w] # NoNick}}
                  \cup {<<n, u>>}
        BY <2>1, <3>1
      <3> QED
        BY <2>4, <2>5, <2>7, <3>2
    <2> QED
      BY <2>6, <2>7
  <1>5. \A p, q \in nicks' : p[1] = q[1] => p = q
    BY <1>2 DEF IInv, NickMapExact
  <1> QED
    BY <1>2, <1>3, <1>4, <1>5

\* NICK, the first or a later one.
LEMMA NickInv ==
  ASSUME IInv, NEW u \in Users, NEW n \in Nicks \cup {NoNick}, Nick(u, n)
  PROVE  IInv'
  <1> DEFINE rs == IF "nick" \in s[u].auth
                     THEN PingIfDone(Revoked(s[u], {"nick"})) ELSE Sends(s[u])
  <1>1. u \in live /\ UNCHANGED <<fate, live>> /\ \A p \in nicks : p[1] # n
    BY DEF Nick, Runs
  <1>2. s[u] \in Session /\ Reported(s[u])
    BY <1>1 DEF IInv, TypeOK, DeadIsReported, Reported
  <1>3. \A q \in rs : Later(s[u], q)
    <2>1. Later(s[u], Revoked(s[u], {"nick"}))
      BY <1>2, RevokedLater
    <2>2. Revoked(s[u], {"nick"}) \in Session
      BY <2>1 DEF Later
    <2>3. \A q \in PingIfDone(Revoked(s[u], {"nick"})) : Later(s[u], q)
      BY <1>2, <2>1, <2>2, PingLater, LaterTrans
    <2> QED
      BY <1>2, <2>3, SendsLater
  <1>4. PICK q \in rs : s' = [s EXCEPT ![u] = q]
    BY DEF Nick
  <1>5. q \in Session /\ Reported(q)
    BY <1>2, <1>3, LaterReported DEF Later
  <1>6. DeadIsReported'
    BY <1>1, <1>4, <1>5 DEF IInv, TypeOK, DeadIsReported, Reported
  <1>7. \/ UNCHANGED <<nick, nicks>>
        \/ SetNick(u, n)
    BY DEF Nick
  <1>8. CASE UNCHANGED <<nick, nicks>>
    BY <1>1, <1>4, <1>5, <1>6, <1>8 DEF IInv, TypeOK, NickMapExact, FreeIsNameless
  <1>9. CASE SetNick(u, n)
    <2>1. /\ nick' = [nick EXCEPT ![u] = n]
          /\ nicks' \subseteq (Nicks \cup {NoNick}) \X Users
          /\ {p \in nicks' : p[1] # NoNick}
               = {<<nick'[v], v>> : v \in {w \in live : nick'[w] # NoNick}}
          /\ \A p, r \in nicks' : p[1] = r[1] => p = r
      BY <1>1, <1>9, SetNickInv
    <2>2. TypeOK'
      BY <1>1, <1>4, <1>5, <2>1 DEF IInv, TypeOK
    <2>3. NickMapExact'
      BY <1>1, <2>1 DEF NickMapExact
    <2>4. FreeIsNameless'
      BY <1>1, <2>1 DEF IInv, TypeOK, FreeIsNameless
    <2> QED
      BY <1>6, <2>2, <2>3, <2>4 DEF IInv
  <1> QED
    BY <1>7, <1>8, <1>9
-----------------------------------------------------------------------------
(* The actions. *)

\* The process stops in a handler and leaves the objects as they are.
LEMMA StopInv ==
  ASSUME IInv, Crash \/ Undefined
  PROVE  IInv'
  BY DEF IInv, TypeOK, NickMapExact, FreeIsNameless, DeadIsReported, Crash, Undefined

\* A live user's record, and that it satisfies Reported.
LEMMA LiveRecord ==
  ASSUME IInv, NEW u \in live
  PROVE  u \in Users /\ s[u] \in Session /\ Reported(s[u])
  BY DEF IInv, TypeOK, DeadIsReported, Reported

\* A handler that looks into user_destructs at its end.
LEMMA DoomedInv ==
  ASSUME IInv, NEW u \in live, NEW r \in Session, Reported(r), NEW rs,
         \A q \in rs : Later(r, q), DestroyIfDoomed(u, r, rs)
  PROVE  IInv'
  <1>1. CASE r.doomed > 0
    BY <1>1, DestroyInv DEF DestroyIfDoomed
  <1>2. CASE ~(r.doomed > 0)
    BY <1>2, LiveRecord, BecomesInv DEF DestroyIfDoomed
  <1> QED
    BY <1>1, <1>2

\* The session of a client that was gone at the accept has its report.
LEMMA GoneType ==
  ASSUME NEW a \in SUBSET AuthFlags, NEW d \in Nat
  PROVE  LET q == [NewSession EXCEPT !.sock = "shut", !.auth = a,
                                     !.reports = 1, !.doomed = d]
         IN  q \in Session /\ Reported(q)
  <1> DEFINE p == [NewSession EXCEPT !.auth = a, !.doomed = d]
             q == [p EXCEPT !.sock = "shut", !.reports = 1]
  <1>1. p \in Session
    BY DEF NewSession, NoSession, Session, Timers
  <1>2. q = [NewSession EXCEPT !.sock = "shut", !.auth = a,
                               !.reports = 1, !.doomed = d]
    BY DEF NewSession, NoSession
  <1> HIDE DEF p
  <1>3. q \in Session
    BY <1>1, ShutType
  <1>4. q.reports = 1
    BY <1>1 DEF Session
  <1> QED
    BY <1>2, <1>3, <1>4 DEF Reported

\* The accept, with the client there or gone.
LEMMA AcceptsInv ==
  ASSUME IInv, NEW u \in Users, Accept(u) \/ AcceptGone(u)
  PROVE  IInv'
  <1>0. s[u].doomed \in Nat /\ Awaited \in SUBSET AuthFlags
    BY DEF IInv, TypeOK, Session, Awaited, AuthFlags
  <1>1. CASE Accept(u)
    <2> DEFINE q == [NewSession EXCEPT
            !.sock = "open", !.dns = "reverse", !.auth = Awaited,
            !.ident = IF IdentCheck THEN "connecting" ELSE "none",
            !.doomed = s[u].doomed]
    <2>1. q \in Session /\ Reported(q)
      BY <1>0 DEF NewSession, NoSession, Session, Timers, Reported
    <2> QED
      BY <1>1, <2>1, AcceptInv DEF Accept
  <1>2. CASE AcceptGone(u)
    <2> DEFINE q == [NewSession EXCEPT
            !.sock = "shut", !.auth = {"nick", "user", "rdns"},
            !.reports = 1, !.doomed = s[u].doomed]
    <2>0. {"nick", "user", "rdns"} \in SUBSET AuthFlags
      BY DEF AuthFlags
    <2>1. q \in Session /\ Reported(q)
      BY <1>0, <2>0, GoneType
    <2> QED
      BY <1>2, <2>1, AcceptInv DEF AcceptGone
  <1> QED
    BY <1>1, <1>2

\* USER, PONG and messages only write to the user.
LEMMA CommandInv ==
  ASSUME IInv, NEW u \in Users, UserCmd(u) \/ Pong(u) \/ Message(u)
  PROVE  IInv'
  <1>0. u \in live
    BY DEF UserCmd, Pong, Message, Runs
  <1>1. s[u] \in Session /\ Reported(s[u])
    BY <1>0, LiveRecord
  <1>2. CASE UserCmd(u)
    <2>1. Later(s[u], Revoked(s[u], {"user"}))
      BY <1>1, RevokedLater
    <2>2. Revoked(s[u], {"user"}) \in Session
      BY <2>1 DEF Later
    <2>3. \A q \in PingIfDone(Revoked(s[u], {"user"})) : Later(s[u], q)
      BY <1>1, <2>1, <2>2, PingLater, LaterTrans
    <2> QED
      BY <1>1, <1>2, <2>3, BecomesInv DEF UserCmd
  <1>3. CASE Pong(u)
    <2> DEFINE r == [s[u] EXCEPT !.ponged = TRUE, !.welcomed = TRUE, !.wait = "ping"]
    <2>1. r \in Session /\ Reported(r)
      BY <1>1 DEF Session, Timers, Reported
    <2>2. Becomes(u, Sends(r))
      BY <1>3 DEF Pong
    <2> HIDE DEF r
    <2> QED
      BY <2>1, <2>2, SendsLater, BecomesInv
  <1>4. CASE Message(u)
    BY <1>1, <1>4, SendsLater, BecomesInv DEF Message
  <1> QED
    BY <1>2, <1>3, <1>4

\* The connection ends, from this side or from the other.
LEMMA EndInv ==
  ASSUME IInv, NEW u \in Users, Close(u) \/ PeerGone(u)
  PROVE  IInv'
  <1>0. u \in live
    BY DEF Close, PeerGone, Runs
  <1>1. s[u] \in Session /\ Reported(s[u])
    BY <1>0, LiveRecord
  <1>2. CASE Close(u)
    BY <1>1, <1>2, ClosedType, NowInv DEF Close, Becomes
  <1>3. CASE PeerGone(u)
    <2> PICK k \in {"eof", "shut"} : Now(u, [s[u] EXCEPT !.sock = k, !.reports = 1])
      BY <1>3 DEF PeerGone, Becomes
    <2> DEFINE r == [s[u] EXCEPT !.sock = k, !.reports = 1]
    <2>1. r \in Session
      <3>1. CASE k = "eof"
        BY <1>1, <3>1 DEF Session
      <3>2. CASE k = "shut"
        BY <1>1, <3>2 DEF Session
      <3> QED
        BY <3>1, <3>2
    <2>2. Reported(r)
      <3>1. r.reports = 1
        BY <1>1 DEF Session
      <3> QED
        BY <3>1 DEF Reported
    <2> QED
      BY <2>1, <2>2, NowInv
  <1> QED
    BY <1>2, <1>3

\* An error report trades itself for an entry in user_destructs, or deletes.
LEMMA RemoveInv ==
  ASSUME IInv, NEW u \in Users, RemoveConnection(u)
  PROVE  IInv'
  <1>0. u \in live /\ s[u].reports > 0
    BY DEF RemoveConnection, Runs
  <1>1. s[u] \in Session
    BY <1>0, LiveRecord
  <1>2. s[u].reports \in Nat
    BY <1>1 DEF Session
  <1>3. s[u].reports - 1 \in Nat
    BY <1>0, <1>2
  <1>4. [s[u] EXCEPT !.reports = @ - 1] \in Session
    BY <1>1, <1>3 DEF Session
  <1> QED
    BY <1>0, <1>4, DestroyInv DEF RemoveConnection

\* The end of a lookup, after the answer to either query.
LEMMA LookupInv ==
  ASSUME IInv, NEW u \in Users, LookupDone(u)
  PROVE  IInv'
  <1> DEFINE r == [Revoked(s[u], {"rdns"}) EXCEPT !.dns = "none"]
  <1>1. CASE u \notin live \/ Throws(s[u])
    BY <1>1, StopInv DEF LookupDone, Callback
  <1>2. CASE u \in live /\ ~Throws(s[u])
    <2>1. s[u] \in Session /\ Reported(s[u])
      BY <1>2, LiveRecord
    <2>2. r \in Session /\ Reported(r)
      BY <2>1, RevokedLater, LaterReported DEF Later, Session, Reported
    <2>3. PICK q \in Sends(r) : DestroyIfDoomed(u, q, PingIfDone(q))
      BY <1>2 DEF LookupDone, Callback
    <2> HIDE DEF r
    <2>4. q \in Session /\ Reported(q)
      BY <2>2, SendsLater, LaterReported DEF Later
    <2> QED
      BY <1>2, <2>3, <2>4, PingLater, DoomedInv
  <1> QED
    BY <1>1, <1>2

\* The resolver's answers and errors.
LEMMA ResolverInv ==
  ASSUME IInv, NEW u \in Users, ResolverStep(u)
  PROVE  IInv'
  <1>1. CASE ReverseError(u) \/ ForwardAnswer(u)
    BY <1>1, LookupInv DEF ReverseError, ForwardAnswer
  <1>2. CASE ReverseAnswer(u)
    <2>1. CASE u \notin live \/ Throws(s[u])
      BY <1>2, <2>1, StopInv DEF ReverseAnswer, Callback
    <2>2. CASE u \in live /\ ~Throws(s[u])
      <3> DEFINE r == [Revoked(s[u], {"dns"}) EXCEPT !.dns = "forward"]
      <3>1. s[u] \in Session /\ Reported(s[u])
        BY <2>2, LiveRecord
      <3>2. r \in Session /\ Reported(r)
        BY <3>1, RevokedLater, LaterReported DEF Later, Session, Reported
      <3> QED
        BY <1>2, <2>2, <3>2, NowInv DEF ReverseAnswer, Callback
    <2> QED
      BY <2>1, <2>2
  <1> QED
    BY <1>1, <1>2 DEF ResolverStep

\* A write, then destroyIdentRequest, or the other way round.
LEMMA IdentSendsLater ==
  ASSUME NEW r \in Session
  PROVE  /\ \A q \in UNION {IdentDone(p) : p \in Sends(r)} : Later(r, q)
         /\ \A q \in UNION {Sends(p) : p \in IdentDone(r)} : Later(r, q)
  <1>1. ASSUME NEW p \in Sends(r), NEW q \in IdentDone(p)
        PROVE  Later(r, q)
    <2>1. Later(r, p) /\ p \in Session
      BY SendsLater DEF Later
    <2>2. Later(p, q)
      BY <2>1, IdentDoneLater
    <2> QED
      BY <2>1, <2>2, LaterTrans
  <1>2. ASSUME NEW p \in IdentDone(r), NEW q \in Sends(p)
        PROVE  Later(r, q)
    <2>1. Later(r, p) /\ p \in Session
      BY IdentDoneLater DEF Later
    <2>2. Later(p, q)
      BY <2>1, SendsLater
    <2> QED
      BY <2>1, <2>2, LaterTrans
  <1> QED
    BY <1>1, <1>2

\* A new state of the ident socket touches nothing else.
LEMMA IdentState ==
  ASSUME NEW r \in Session, Reported(r),
         NEW i \in {"none", "connecting", "connected", "answered", "failed",
                    "cancelConnect", "cancelRead"}
  PROVE  [r EXCEPT !.ident = i] \in Session /\ Reported([r EXCEPT !.ident = i])
  BY DEF Session, Reported

\* The callbacks of the ident socket.
LEMMA IdentInv ==
  ASSUME IInv, NEW u \in Users, IdentStep(u)
  PROVE  IInv'
  <1>1. CASE u \notin live
    BY <1>1, StopInv DEF IdentStep, IdentConnected, IdentError, IdentRead,
                         IdentDisconnected, Callback
  <1>2. CASE u \in live
    <2>0. s[u] \in Session /\ Reported(s[u])
      BY <1>2, LiveRecord
    <2>1. CASE IdentConnected(u)
      <3>1. CASE Throws(s[u])
        BY <1>2, <2>1, <3>1, StopInv DEF IdentConnected, Callback
      <3>2. CASE ~Throws(s[u])
        BY <1>2, <2>0, <2>1, <3>2, IdentState, NowInv DEF IdentConnected, Callback
      <3> QED
        BY <3>1, <3>2
    <2>2. CASE IdentError(u)
      <3> DEFINE r == [s[u] EXCEPT !.ident =
                        IF @ = "connecting" THEN "failed" ELSE "none"]
      <3>1. r \in Session /\ Reported(r)
        BY <2>0, IdentState
      <3>2. Becomes(u, UNION {IdentDone(q) : q \in Sends(r)})
        BY <1>2, <2>2 DEF IdentError, Callback
      <3> HIDE DEF r
      <3> QED
        BY <3>1, <3>2, IdentSendsLater, BecomesInv
    <2>3. CASE IdentRead(u)
      <3> DEFINE r == [s[u] EXCEPT !.ident = "answered"]
      <3>1. r \in Session /\ Reported(r)
        BY <2>0, IdentState
      <3>2. Becomes(u, UNION {IdentDone(q) : q \in Sends(r)})
        BY <1>2, <2>3 DEF IdentRead, Callback
      <3> HIDE DEF r
      <3> QED
        BY <3>1, <3>2, IdentSendsLater, BecomesInv
    <2>4. CASE IdentDisconnected(u)
      <3> DEFINE r == [s[u] EXCEPT !.ident = "none"]
      <3>1. r \in Session /\ Reported(r)
        BY <2>0, IdentState
      <3>2. DestroyIfDoomed(u, Revoked(r, {"ident"}), IdentDone(r))
        BY <1>2, <2>4 DEF IdentDisconnected, Callback
      <3> HIDE DEF r
      <3> DEFINE q == Revoked(r, {"ident"})
      <3>3. q \in Session /\ Reported(q)
        BY <3>1, RevokedLater, LaterReported DEF Later
      <3>4. \A x \in IdentDone(r) : Later(q, x)
        BY <3>3, PingLater DEF IdentDone
      <3> HIDE DEF q
      <3>5. DestroyIfDoomed(u, q, IdentDone(r))
        BY <3>2 DEF q
      <3> QED
        BY <1>2, <3>3, <3>4, <3>5, DoomedInv
    <2> QED
      BY <2>1, <2>2, <2>3, <2>4 DEF IdentStep
  <1> QED
    BY <1>1, <1>2

\* The wait ends, and the two timer handlers.
LEMMA TimerInv ==
  ASSUME IInv, NEW u \in Users, TimerStep(u)
  PROVE  IInv'
  <1>1. CASE TimerExpires(u)
    <2> DEFINE q == [s[u] EXCEPT !.due = @ \cup {s[u].wait}, !.wait = "none"]
    <2>1. s[u] \in Session /\ Reported(s[u])
      BY <1>1, LiveRecord DEF TimerExpires, Runs
    <2>2. s[u].due \cup {s[u].wait} \in SUBSET Timers
      BY <1>1, <2>1 DEF TimerExpires, Session
    <2>3. q \in Session /\ Reported(q)
      BY <2>1, <2>2 DEF Session, Reported
    <2> QED
      BY <1>1, <2>3, NowInv DEF TimerExpires
  <1>2. CASE u \notin live /\ (AuthTimeout(u) \/ PingTimeout(u))
    BY <1>2, StopInv DEF AuthTimeout, PingTimeout, Callback
  <1>3. CASE u \in live /\ AuthTimeout(u)
    <2> DEFINE r == [s[u] EXCEPT !.due = @ \ {"auth"}]
               c == [r EXCEPT !.ident =
                       CASE @ = "connecting" -> "cancelConnect"
                         [] @ = "connected" -> "cancelRead"
                         [] OTHER -> @]
    <2>1. s[u] \in Session /\ Reported(s[u])
      BY <1>3, LiveRecord
    <2>2. r \in Session /\ Reported(r)
      <3>1. s[u].due \ {"auth"} \in SUBSET Timers
        BY <2>1 DEF Session
      <3> QED
        BY <2>1, <3>1 DEF Session, Reported
    <2>3. \/ Becomes(u, Closed(r))
          \/ Now(u, r)
          \/ Becomes(u, UNION {Sends(q) : q \in IdentDone(c)})
      BY <1>3 DEF AuthTimeout, Callback
    <2> HIDE DEF r
    <2>4. c \in Session /\ Reported(c)
      <3>1. r.ident \in {"none", "connecting", "connected", "answered", "failed",
                         "cancelConnect", "cancelRead"}
        BY <2>2 DEF Session
      <3>2. \/ c = [r EXCEPT !.ident = "cancelConnect"]
            \/ c = [r EXCEPT !.ident = "cancelRead"]
            \/ c = [r EXCEPT !.ident = r.ident]
        BY <2>2 DEF Session
      <3> HIDE DEF c
      <3> QED
        BY <2>2, <3>1, <3>2, IdentState
    <2> HIDE DEF c
    <2>5. CASE Becomes(u, Closed(r))
      BY <2>2, <2>5, ClosedType, NowInv DEF Becomes
    <2>6. CASE Now(u, r)
      BY <2>2, <2>6, NowInv
    <2>7. CASE Becomes(u, UNION {Sends(q) : q \in IdentDone(c)})
      BY <2>4, <2>7, IdentSendsLater, BecomesInv
    <2> QED
      BY <2>3, <2>5, <2>6, <2>7
  <1>4. CASE u \in live /\ PingTimeout(u)
    <2> DEFINE r == [s[u] EXCEPT !.due = @ \ {"ping"}]
               p == [r EXCEPT !.wait = "ping"]
    <2>1. s[u] \in Session /\ Reported(s[u])
      BY <1>4, LiveRecord
    <2>2. r \in Session /\ Reported(r)
      <3>1. s[u].due \ {"ping"} \in SUBSET Timers
        BY <2>1 DEF Session
      <3> QED
        BY <2>1, <3>1 DEF Session, Reported
    <2>3. Becomes(u, Closed(r)) \/ Becomes(u, Sends(p))
      BY <1>4 DEF PingTimeout, Callback
    <2> HIDE DEF r
    <2>4. p \in Session /\ Reported(p)
      BY <2>2 DEF Session, Timers, Reported
    <2> HIDE DEF p
    <2>5. CASE Becomes(u, Closed(r))
      BY <2>2, <2>5, ClosedType, NowInv DEF Becomes
    <2>6. CASE Becomes(u, Sends(p))
      BY <2>4, <2>6, SendsLater, BecomesInv
    <2> QED
      BY <2>3, <2>5, <2>6
  <1> QED
    BY <1>1, <1>2, <1>3, <1>4 DEF TimerStep

\* No user, no nickname, no connection.
LEMMA InitInv == Init => IInv
  <1> SUFFICES ASSUME Init
               PROVE  IInv
    OBVIOUS
  <1>1. TypeOK
    BY NoSessionType DEF Init, TypeOK
  <1>2. NickMapExact /\ FreeIsNameless /\ DeadIsReported
    BY DEF Init, NickMapExact, FreeIsNameless, DeadIsReported
  <1> QED
    BY <1>1, <1>2 DEF IInv

\* Every step keeps the invariant.
LEMMA NextInv == IInv /\ [Next]_vars => IInv'
  <1> SUFFICES ASSUME IInv, [Next]_vars
               PROVE  IInv'
    OBVIOUS
  <1>1. CASE UNCHANGED vars \/ Stopped
    BY <1>1 DEF vars, Stopped, IInv, TypeOK, NickMapExact, FreeIsNameless,
                DeadIsReported
  <1>2. ASSUME NEW u \in Users, ClientStep(u) PROVE IInv'
    BY <1>2, AcceptsInv, NickInv, CommandInv, EndInv, StopInv
       DEF ClientStep, StaleLookup
  <1>3. ASSUME NEW u \in Users, RemoveConnection(u) PROVE IInv'
    BY <1>3, RemoveInv
  <1>4. ASSUME NEW u \in Users, ResolverStep(u) \/ IdentStep(u) \/ TimerStep(u)
        PROVE  IInv'
    BY <1>4, ResolverInv, IdentInv, TimerInv
  <1> QED
    BY <1>1, <1>2, <1>3, <1>4 DEF Next

\* The invariant holds throughout, whatever the network does.
THEOREM SessionInductive == Spec => []IInv
  BY InitInv, NextInv, PTL DEF Spec

\* Type correctness: in particular no handler takes a report, or a copy in
\* user_destructs, that is not there.
THEOREM TypeCorrect == Spec => []TypeOK
  <1>1. IInv => TypeOK
    BY DEF IInv
  <1> QED
    BY <1>1, SessionInductive, PTL

\* The nick map is exact, through NICK, deferred deletions, addresses used
\* again and late callbacks.
THEOREM NickMap == Spec => []NickMapExact
  <1>1. IInv => NickMapExact
    BY DEF IInv
  <1> QED
    BY <1>1, SessionInductive, PTL

\* No dead connection is forgotten: it has a report or a copy in
\* user_destructs ahead, with any number of lookups, writes and timeouts.
THEOREM DeadReported == Spec => []DeadIsReported
  <1>1. IInv => DeadIsReported
    BY DEF IInv
  <1> QED
    BY <1>1, SessionInductive, PTL

-----------------------------------------------------------------------------
(* Answers, and the ends of a connection.  What follows holds as long as   *)
(* some mishap stays away; each property names the ones it cannot bear.    *)

\* The resolver is the only one to be waited for, and it answers.
LookupOnly == ~IdentCheck /\ "reverse_fails" \notin Mishaps

\* A connection reports one end, and no handler defers a deletion again that
\* will take place.
OneEnd ==
    /\ "double_report" \notin Mishaps
    /\ "slow_dns" \notin Mishaps \/ LookupOnly

\* A deletion is deferred for the sake of the resolver, and none is left over
\* from another user at the same address when nothing will be looked up.
Deferrable == LookupOnly /\ (OneEnd \/ "gone_early" \notin Mishaps)

\* AFDNS will never go: the user is never deleted.
Stuck(r) == "dns" \in r.auth /\ r.dns = "none"

\* A flag is set only while what revokes it is under way.
Answers(r) ==
    /\ "reverse_fails" \notin Mishaps =>
          /\ "dns" \in r.auth => r.dns = "reverse"
          /\ "rdns" \in r.auth /\ r.sock = "open" => r.dns # "none"
    /\ "ident" \in r.auth => r.ident \in {"connecting", "connected"}
    /\ ~IdentCheck => r.ident = "none" /\ "ident" \notin r.auth

\* A fast resolver has answered when the connection ends or the time is up.
Patient(r) ==
    "slow_dns" \notin Mishaps /\ (r.sock # "open" \/ r.due # {}) => r.dns = "none"

\* The one end of a connection is ahead, in a report, or in user_destructs.
EndsOnce(r) ==
    OneEnd =>
        /\ r.sock = "open" => r.reports = 0 /\ r.doomed = 0
        /\ r.reports + r.doomed =< 1 \/ (r.reports = 0 /\ Stuck(r))

ComesBack(r) == Deferrable /\ r.doomed > 0 => r.dns # "none"

Kept(r) == Answers(r) /\ Patient(r) /\ EndsOnce(r) /\ ComesBack(r)

\* Where a connection ends once, an address is free of old copies.
NothingLeft == OneEnd => \A u \in Users \ live : s[u].doomed = 0

KInv == IInv /\ NothingLeft /\ \A u \in live : Kept(s[u])

\* What a step does to connections that have not ended.
OnlyEndedGo == OneEnd => \A u \in live \ live' : s[u].sock # "open"

\* q is r without the flags fs, after any number of writes.
After(r, fs, q) ==
    /\ q \in Session
    /\ q.sock = r.sock /\ q.auth = r.auth \ fs /\ q.dns = r.dns
    /\ q.ident = r.ident /\ q.due = r.due /\ q.doomed = r.doomed
    /\ "double_report" \notin Mishaps => q.reports = r.reports

LEMMA AfterTrans ==
  ASSUME NEW r, NEW p, NEW q, NEW fs, NEW gs, After(r, fs, p), After(p, gs, q)
  PROVE  After(r, fs \cup gs, q)
  BY DEF After

LEMMA SendsAfter ==
  ASSUME NEW r \in Session, NEW q \in Sends(r)
  PROVE  After(r, {}, q)
  <1>1. CASE q = r
    BY <1>1 DEF After
  <1>2. CASE q = [r EXCEPT !.reports = @ + 1] /\ "double_report" \in Mishaps
    <2>1. q \in Session
      BY SendsLater DEF Later
    <2>2. /\ q.sock = r.sock /\ q.auth = r.auth /\ q.dns = r.dns
          /\ q.ident = r.ident /\ q.due = r.due /\ q.doomed = r.doomed
      BY <1>2 DEF Session
    <2> QED
      BY <1>2, <2>1, <2>2 DEF After
  <1> QED
    BY <1>1, <1>2 DEF Sends

LEMMA RevokedAfter ==
  ASSUME NEW r \in Session, NEW fs
  PROVE  After(r, fs, Revoked(r, fs))
  <1>1. Revoked(r, fs) \in Session
    BY RevokedLater DEF Later
  <1> QED
    BY <1>1 DEF After, Revoked, Session

LEMMA PingAfter ==
  ASSUME NEW r \in Session, NEW q \in PingIfDone(r)
  PROVE  After(r, {}, q)
  <1>1. CASE q = r
    BY <1>1 DEF After
  <1> QED
    BY <1>1, SendsAfter DEF PingIfDone

\* Flags go, then a PING may be written.
LEMMA RevokedPingAfter ==
  ASSUME NEW r \in Session, NEW fs, NEW q \in PingIfDone(Revoked(r, fs))
  PROVE  After(r, fs, q)
  <1>1. After(r, fs, Revoked(r, fs))
    BY RevokedAfter
  <1>2. After(Revoked(r, fs), {}, q)
    BY <1>1, PingAfter DEF After
  <1>3. After(r, fs \cup {}, q)
    BY <1>1, <1>2, AfterTrans
  <1> QED
    BY <1>3 DEF After

\* destroyIdentRequest with a line to the client before or after it.
LEMMA IdentSendsAfter ==
  ASSUME NEW r \in Session
  PROVE  /\ \A q \in UNION {IdentDone(p) : p \in Sends(r)} : After(r, {"ident"}, q)
         /\ \A q \in UNION {Sends(p) : p \in IdentDone(r)} : After(r, {"ident"}, q)
  <1>1. ASSUME NEW p \in Sends(r), NEW q \in IdentDone(p)
        PROVE  After(r, {"ident"}, q)
    <2>1. After(r, {}, p) /\ p \in Session
      BY SendsAfter DEF After
    <2>2. After(p, {"ident"}, q)
      BY <2>1, RevokedPingAfter DEF IdentDone
    <2> QED
      BY <2>1, <2>2 DEF After
  <1>2. ASSUME NEW p \in IdentDone(r), NEW q \in Sends(p)
        PROVE  After(r, {"ident"}, q)
    <2>1. After(r, {"ident"}, p) /\ p \in Session
      BY RevokedPingAfter DEF IdentDone, After
    <2>2. After(p, {}, q)
      BY <2>1, SendsAfter
    <2> QED
      BY <2>1, <2>2 DEF After
  <1> QED
    BY <1>1, <1>2

\* Writes keep what is kept, and so does a flag that goes, other than AFDNS.
LEMMA AfterKept ==
  ASSUME NEW r \in Session, Kept(r), NEW fs, "dns" \notin fs, NEW q, After(r, fs, q)
  PROVE  q \in Session /\ Kept(q)
  <1>1. q \in Session
    BY DEF After
  <1>2. Answers(q)
    BY DEF After, Kept, Answers
  <1>3. Patient(q)
    BY DEF After, Kept, Patient
  <1>4. EndsOnce(q)
    BY DEF After, Kept, EndsOnce, OneEnd, Stuck
  <1>5. ComesBack(q)
    BY DEF After, Kept, ComesBack
  <1> QED
    BY <1>1, <1>2, <1>3, <1>4, <1>5 DEF Kept

\* A close, where a fast resolver has answered.
LEMMA ClosedKept ==
  ASSUME NEW r \in Session, Reported(r), Kept(r), NEW q \in Closed(r),
         "slow_dns" \notin Mishaps => r.dns = "none"
  PROVE  Kept(q)
  <1>0. q \in Session
    BY ClosedType
  <1>1. /\ q.sock = "shut" /\ q.auth = r.auth /\ q.dns = r.dns
        /\ q.ident = r.ident /\ q.due = r.due /\ q.doomed = r.doomed
        /\ r.sock = "open" => q.reports = r.reports + 1
        /\ r.sock # "open" /\ "double_report" \notin Mishaps => q.reports = r.reports
    <2>1. CASE r.sock = "open"
      BY <2>1 DEF Closed, Session
    <2>2. CASE r.sock # "open"
      <3>1. PICK p \in {r} \cup Sends(r) : q = [p EXCEPT !.sock = "shut"]
        BY <2>2 DEF Closed
      <3>2. After(r, {}, p)
        <4>1. CASE p = r
          BY <4>1 DEF After
        <4> QED
          BY <4>1, SendsAfter
      <3> QED
        BY <2>2, <3>1, <3>2 DEF After, Session
    <2> QED
      BY <2>1, <2>2
  <1>2. Answers(q)
    BY <1>1 DEF Kept, Answers
  <1>3. Patient(q)
    BY <1>1 DEF Patient
  <1>4. EndsOnce(q)
    <2>1. CASE r.sock = "open"
      BY <1>1, <2>1 DEF Kept, EndsOnce
    <2>2. CASE r.sock # "open"
      BY <1>1, <2>2 DEF Kept, EndsOnce, OneEnd, Stuck
    <2> QED
      BY <2>1, <2>2
  <1>5. ComesBack(q)
    BY <1>1 DEF Kept, ComesBack
  <1> QED
    BY <1>2, <1>3, <1>4, <1>5 DEF Kept

\* A handler that rewrites the record of a live user.
LEMMA NowKept ==
  ASSUME KInv, IInv', NEW u \in live, NEW q \in Session, Kept(q), Now(u, q)
  PROVE  KInv' /\ OnlyEndedGo
  <1>1. u \in Users /\ live' = live /\ s' = [s EXCEPT ![u] = q] /\ s \in [Users -> Session]
    BY DEF Now, KInv, IInv, TypeOK
  <1>2. live \subseteq Users
    BY DEF KInv, IInv, TypeOK
  <1>3. \A v \in live' : Kept(s[v])'
    <2> SUFFICES ASSUME NEW v \in live PROVE Kept(s'[v])
      BY <1>1 DEF Kept, Answers, Patient, EndsOnce, ComesBack, Stuck, OneEnd,
                  Deferrable, LookupOnly
    <2>1. s'[v] = IF v = u THEN q ELSE s[v]
      BY <1>1, <1>2
    <2> QED
      BY <2>1 DEF KInv
  <1>4. NothingLeft'
    BY <1>1 DEF KInv, NothingLeft, OneEnd, LookupOnly
  <1>5. OnlyEndedGo
    BY <1>1 DEF OnlyEndedGo
  <1> QED
    BY <1>3, <1>4, <1>5 DEF KInv

LEMMA BecomesKept ==
  ASSUME KInv, IInv', NEW u \in live, NEW rs,
         \A q \in rs : q \in Session /\ Kept(q), Becomes(u, rs)
  PROVE  KInv' /\ OnlyEndedGo
  BY NowKept DEF Becomes

\* A handler that only writes and revokes flags other than AFDNS.
LEMMA WritesKept ==
  ASSUME KInv, IInv', NEW u \in live, NEW r \in Session, Kept(r),
         NEW fs, "dns" \notin fs, NEW rs, \A q \in rs : After(r, fs, q),
         Becomes(u, rs)
  PROVE  KInv' /\ OnlyEndedGo
  BY AfterKept, BecomesKept

\* A process that stops leaves everything as it is.
LEMMA StopKept ==
  ASSUME KInv, IInv', UNCHANGED <<live, s>>
  PROVE  KInv' /\ OnlyEndedGo
  BY DEF KInv, NothingLeft, OnlyEndedGo, Kept, Answers, Patient, EndsOnce, ComesBack,
         Stuck, OneEnd, Deferrable, LookupOnly

\* A deferred deletion waits for the resolver, and one that takes place takes
\* the last copy, when its handler was called by the end of the connection.
LEMMA DestroyKept ==
  ASSUME KInv, IInv', NEW u \in live, NEW r \in Session, Destroy(u, r),
         Answers(r), Patient(r), EndsOnce(r),
         OneEnd => r.sock # "open" /\ s[u].sock # "open",
         OneEnd /\ HavePendingRequests(r) => r.reports = 0 /\ (r.doomed = 0 \/ Stuck(r))
  PROVE  KInv' /\ OnlyEndedGo
  <1>0. /\ u \in Users /\ s \in [Users -> Session] /\ live \subseteq Users
        /\ r.doomed \in Nat /\ r.reports \in Nat
    BY DEF KInv, IInv, TypeOK, Session
  <1>1. CASE HavePendingRequests(r)
    <2> DEFINE q == Defer(r)
    <2>1. /\ q \in Session /\ q.sock = r.sock /\ q.auth = r.auth /\ q.dns = r.dns
          /\ q.ident = r.ident /\ q.due = r.due /\ q.doomed = r.doomed + 1
          /\ q.reports = r.reports
      BY DEF Defer, Session
    <2> HIDE DEF q
    <2>2. Answers(q)
      BY <2>1 DEF Answers
    <2>3. Patient(q)
      BY <2>1 DEF Patient
    <2>4. EndsOnce(q)
      <3> SUFFICES ASSUME OneEnd
                   PROVE  /\ q.sock # "open"
                          /\ q.reports + q.doomed =< 1 \/ (q.reports = 0 /\ Stuck(q))
        BY DEF EndsOnce
      <3>1. CASE r.doomed = 0
        BY <1>0, <1>1, <2>1, <3>1
      <3>2. CASE Stuck(r)
        BY <1>0, <1>1, <2>1, <3>2 DEF Stuck
      <3> QED
        BY <1>1, <3>1, <3>2
    <2>5. ComesBack(q)
      <3>1. Deferrable => "dns" \in r.auth /\ r.dns = "reverse"
        BY <1>1 DEF Deferrable, LookupOnly, Answers, HavePendingRequests
      <3> QED
        BY <2>1, <3>1 DEF ComesBack
    <2>6. Now(u, q)
      BY <1>1 DEF Destroy, q
    <2> QED
      BY <2>1, <2>2, <2>3, <2>4, <2>5, <2>6, NowKept DEF Kept
  <1>2. CASE ~HavePendingRequests(r)
    <2> DEFINE q == [NoSession EXCEPT !.dns = r.dns, !.ident = r.ident, !.due = r.due,
                                      !.doomed = TakenOff(r.doomed)]
    <2>1. s' = [s EXCEPT ![u] = q] /\ live' = live \ {u}
      BY <1>2 DEF Destroy
    <2>2. q.doomed = TakenOff(r.doomed)
      BY DEF NoSession
    <2>3. OneEnd => r.doomed =< 1
      BY <1>0, <1>2 DEF EndsOnce, Stuck, HavePendingRequests
    <2>4. OneEnd => q.doomed = 0
      BY <1>0, <2>2, <2>3 DEF TakenOff
    <2> HIDE DEF q
    <2>5. NothingLeft'
      <3>1. \A v \in Users : s'[v] = IF v = u THEN q ELSE s[v]
        BY <1>0, <2>1
      <3> QED
        BY <2>1, <2>4, <3>1 DEF KInv, NothingLeft, OneEnd, LookupOnly
    <2>6. \A v \in live' : Kept(s[v])'
      <3> SUFFICES ASSUME NEW v \in live, v # u PROVE Kept(s'[v])
        BY <2>1 DEF Kept, Answers, Patient, EndsOnce, ComesBack, Stuck, OneEnd,
                    Deferrable, LookupOnly
      <3>1. s'[v] = s[v]
        BY <1>0, <2>1
      <3> QED
        BY <3>1 DEF KInv
    <2>7. OnlyEndedGo
      BY <2>1 DEF OnlyEndedGo
    <2> QED
      BY <2>5, <2>6, <2>7 DEF KInv
  <1> QED
    BY <1>1, <1>2

\* The accept starts what it sets the flags for.
LEMMA AcceptsKept ==
  ASSUME KInv, IInv', NEW u \in Users, Accept(u) \/ AcceptGone(u)
  PROVE  KInv' /\ OnlyEndedGo
  <1>0. /\ u \notin live /\ live' = live \cup {u}
        /\ s \in [Users -> Session] /\ live \subseteq Users
    BY DEF Accept, AcceptGone, KInv, IInv, TypeOK
  <1>1. OneEnd => s[u].doomed = 0
    BY <1>0 DEF KInv, NothingLeft
  <1>2. PICK q : s' = [s EXCEPT ![u] = q] /\ Kept(q)
    <2>1. CASE Accept(u)
      <3> DEFINE q == [NewSession EXCEPT
              !.sock = "open", !.dns = "reverse", !.auth = Awaited,
              !.ident = IF IdentCheck THEN "connecting" ELSE "none",
              !.doomed = s[u].doomed]
      <3>1. s' = [s EXCEPT ![u] = q]
        BY <2>1 DEF Accept
      <3>2. /\ q.sock = "open" /\ q.dns = "reverse" /\ q.auth = Awaited
            /\ q.ident = IF IdentCheck THEN "connecting" ELSE "none"
            /\ q.doomed = s[u].doomed /\ q.reports = 0 /\ q.due = {}
        BY DEF NewSession, NoSession
      <3> HIDE DEF q
      <3>3. Answers(q)
        BY <3>2 DEF Answers, Awaited, AuthFlags
      <3>4. Patient(q) /\ ComesBack(q)
        BY <3>2 DEF Patient, ComesBack
      <3>5. EndsOnce(q)
        BY <1>1, <3>2 DEF EndsOnce
      <3> QED
        BY <3>1, <3>3, <3>4, <3>5 DEF Kept
    <2>2. CASE AcceptGone(u)
      <3> DEFINE q == [NewSession EXCEPT
              !.sock = "shut", !.auth = {"nick", "user", "rdns"},
              !.reports = 1, !.doomed = s[u].doomed]
      <3>1. s' = [s EXCEPT ![u] = q] /\ "gone_early" \in Mishaps
        BY <2>2 DEF AcceptGone
      <3>2. /\ q.sock = "shut" /\ q.dns = "none" /\ q.auth = {"nick", "user", "rdns"}
            /\ q.ident = "none" /\ q.doomed = s[u].doomed /\ q.reports = 1
        BY DEF NewSession, NoSession
      <3> HIDE DEF q
      <3>3. Answers(q)
        BY <3>2 DEF Answers
      <3>4. Patient(q)
        BY <3>2 DEF Patient
      <3>5. EndsOnce(q)
        BY <1>1, <3>2 DEF EndsOnce
      <3>6. ComesBack(q)
        BY <1>1, <3>1, <3>2 DEF ComesBack, Deferrable
      <3> QED
        BY <3>1, <3>3, <3>4, <3>5, <3>6 DEF Kept
    <2> QED
      BY <2>1, <2>2
  <1>3. \A v \in Users : s'[v] = IF v = u THEN q ELSE s[v]
    BY <1>0, <1>2
  <1>4. \A v \in live' : Kept(s[v])'
    <2> SUFFICES ASSUME NEW v \in live \cup {u} PROVE Kept(s'[v])
      BY <1>0 DEF Kept, Answers, Patient, EndsOnce, ComesBack, Stuck, OneEnd,
                  Deferrable, LookupOnly
    <2>1. s'[v] = IF v = u THEN q ELSE s[v]
      BY <1>0, <1>3
    <2> QED
      BY <1>2, <2>1 DEF KInv
  <1>5. NothingLeft'
    BY <1>0, <1>3 DEF KInv, NothingLeft, OneEnd, LookupOnly
  <1>6. OnlyEndedGo
    BY <1>0 DEF OnlyEndedGo
  <1> QED
    BY <1>4, <1>5, <1>6 DEF KInv

LEMMA LiveKept ==
  ASSUME KInv, NEW u \in live
  PROVE  /\ u \in Users /\ s[u] \in Session /\ Reported(s[u]) /\ Kept(s[u])
         /\ s[u].reports \in Nat /\ s[u].doomed \in Nat
  <1>1. u \in Users /\ s[u] \in Session /\ Reported(s[u])
    BY LiveRecord DEF KInv
  <1> QED
    BY <1>1 DEF KInv, Session

\* NICK writes and revokes a flag, like USER, PONG and a message.
LEMMA CommandKept ==
  ASSUME KInv, IInv', NEW u \in Users,
         (\E n \in Nicks \cup {NoNick} : Nick(u, n)) \/ UserCmd(u) \/ Pong(u) \/ Message(u)
  PROVE  KInv' /\ OnlyEndedGo
  <1>0. u \in live
    BY DEF Nick, UserCmd, Pong, Message, Runs
  <1>1. s[u] \in Session /\ Kept(s[u]) /\ live \subseteq Users /\ s \in [Users -> Session]
    BY <1>0, LiveKept DEF KInv, IInv, TypeOK
  <1>2. ASSUME NEW n \in Nicks \cup {NoNick}, Nick(u, n) PROVE KInv' /\ OnlyEndedGo
    <2> DEFINE rs == IF "nick" \in s[u].auth
                       THEN PingIfDone(Revoked(s[u], {"nick"})) ELSE Sends(s[u])
    <2>1. PICK q \in rs : s' = [s EXCEPT ![u] = q]
      BY <1>2 DEF Nick
    <2>2. live' = live
      BY <1>2 DEF Nick
    <2>3. Kept(q)
      BY <1>1, RevokedPingAfter, SendsAfter, AfterKept
    <2>4. \A v \in Users : s'[v] = IF v = u THEN q ELSE s[v]
      BY <1>1, <2>1
    <2>5. \A v \in live' : Kept(s[v])'
      <3> SUFFICES ASSUME NEW v \in live PROVE Kept(s'[v])
        BY <2>2 DEF Kept, Answers, Patient, EndsOnce, ComesBack, Stuck, OneEnd,
                    Deferrable, LookupOnly
      <3>1. s'[v] = IF v = u THEN q ELSE s[v]
        BY <1>1, <2>4
      <3> QED
        BY <2>3, <3>1 DEF KInv
    <2>6. NothingLeft' /\ OnlyEndedGo
      BY <1>0, <2>2, <2>4 DEF KInv, NothingLeft, OneEnd, LookupOnly, OnlyEndedGo
    <2> QED
      BY <2>5, <2>6 DEF KInv
  <1>3. CASE UserCmd(u)
    BY <1>0, <1>1, <1>3, RevokedPingAfter, WritesKept DEF UserCmd
  <1>4. CASE Pong(u)
    <2> DEFINE r == [s[u] EXCEPT !.ponged = TRUE, !.welcomed = TRUE, !.wait = "ping"]
    <2>1. /\ r.sock = s[u].sock /\ r.auth = s[u].auth /\ r.dns = s[u].dns
          /\ r.ident = s[u].ident /\ r.due = s[u].due /\ r.doomed = s[u].doomed
          /\ r.reports = s[u].reports
      BY <1>1 DEF Session
    <2>2. r \in Session
      BY <1>1 DEF Session, Timers
    <2>3. Becomes(u, Sends(r))
      BY <1>4 DEF Pong
    <2> HIDE DEF r
    <2>4. After(s[u], {}, r)
      BY <2>1, <2>2 DEF After
    <2>5. Kept(r)
      BY <1>1, <2>4, AfterKept
    <2> QED
      BY <1>0, <2>2, <2>3, <2>5, SendsAfter, WritesKept
  <1>5. CASE Message(u)
    BY <1>0, <1>1, <1>5, SendsAfter, WritesKept DEF Message
  <1> QED
    BY <1>2, <1>3, <1>4, <1>5

\* The connection ends.
LEMMA EndKept ==
  ASSUME KInv, IInv', NEW u \in Users, Close(u) \/ PeerGone(u)
  PROVE  KInv' /\ OnlyEndedGo
  <1>0. u \in live /\ ("slow_dns" \notin Mishaps => s[u].dns = "none")
    BY DEF Close, PeerGone, Runs, MayEnd
  <1>1. s[u] \in Session /\ Reported(s[u]) /\ Kept(s[u])
    BY <1>0, LiveKept
  <1>2. CASE Close(u)
    BY <1>0, <1>1, <1>2, ClosedType, ClosedKept, BecomesKept DEF Close
  <1>3. CASE PeerGone(u)
    <2> PICK k \in {"eof", "shut"} : Now(u, [s[u] EXCEPT !.sock = k, !.reports = 1])
      BY <1>3 DEF PeerGone, Becomes
    <2> DEFINE r == [s[u] EXCEPT !.sock = k, !.reports = 1]
    <2>0. s[u].sock = "open"
      BY <1>3 DEF PeerGone
    <2>1. r \in Session
      <3>1. CASE k = "eof"
        BY <1>1, <3>1 DEF Session
      <3>2. CASE k = "shut"
        BY <1>1, <3>2 DEF Session
      <3> QED
        BY <3>1, <3>2
    <2>2. /\ r.sock = k /\ r.auth = s[u].auth /\ r.dns = s[u].dns
          /\ r.ident = s[u].ident /\ r.due = s[u].due /\ r.doomed = s[u].doomed
          /\ r.reports = 1
      BY <1>1 DEF Session
    <2>3. Now(u, r)
      OBVIOUS
    <2> HIDE DEF r
    <2>4. Answers(r) /\ Patient(r) /\ ComesBack(r)
      BY <1>0, <1>1, <2>0, <2>2 DEF Kept, Answers, Patient, ComesBack
    <2>5. EndsOnce(r)
      BY <1>1, <2>0, <2>2 DEF Kept, EndsOnce
    <2> QED
      BY <1>0, <2>1, <2>3, <2>4, <2>5, NowKept DEF Kept
  <1> QED
    BY <1>2, <1>3

\* A report is the one end, and nothing is deferred before it.
LEMMA RemoveKept ==
  ASSUME KInv, IInv', NEW u \in Users, RemoveConnection(u)
  PROVE  KInv' /\ OnlyEndedGo
  <1> DEFINE r == [s[u] EXCEPT !.reports = @ - 1]
  <1>0. u \in live /\ s[u].reports > 0
    BY DEF RemoveConnection, Runs
  <1>1. /\ s[u] \in Session /\ Kept(s[u])
        /\ s[u].reports \in Nat /\ s[u].doomed \in Nat
    BY <1>0, LiveKept
  <1>2. s[u].reports - 1 \in Nat
    BY <1>0, <1>1
  <1>3. r \in Session
    BY <1>1, <1>2 DEF Session
  <1>4. /\ r.sock = s[u].sock /\ r.auth = s[u].auth /\ r.dns = s[u].dns
        /\ r.ident = s[u].ident /\ r.due = s[u].due /\ r.doomed = s[u].doomed
        /\ r.reports = s[u].reports - 1
    BY <1>1 DEF Session
  <1>5. Destroy(u, r)
    BY DEF RemoveConnection
  <1> HIDE DEF r
  <1>6. Answers(r) /\ Patient(r)
    BY <1>1, <1>4 DEF Kept, Answers, Patient
  <1>7. OneEnd => s[u].sock # "open" /\ s[u].reports = 1 /\ s[u].doomed = 0
    BY <1>0, <1>1 DEF Kept, EndsOnce
  <1>8. EndsOnce(r)
    BY <1>4, <1>7 DEF EndsOnce
  <1> QED
    BY <1>0, <1>3, <1>4, <1>5, <1>6, <1>7, <1>8, DestroyKept

\* The last answer finds a user that waits for nothing else, or one that has
\* not ended.
LEMMA LookupKept ==
  ASSUME KInv, IInv', NEW u \in Users, LookupDone(u), s[u].dns \in {"reverse", "forward"},
         "reverse_fails" \notin Mishaps => s[u].dns = "forward"
  PROVE  KInv' /\ OnlyEndedGo
  <1>1. CASE u \notin live \/ Throws(s[u])
    BY <1>1, StopKept DEF LookupDone, Callback, Crash, Undefined
  <1>2. CASE u \in live /\ ~Throws(s[u])
    <2> DEFINE p == Revoked(s[u], {"rdns"})
               r == [p EXCEPT !.dns = "none"]
    <2>1. /\ s[u] \in Session /\ Kept(s[u])
          /\ s[u].reports \in Nat /\ s[u].doomed \in Nat
      BY <1>2, LiveKept
    <2>2. After(s[u], {"rdns"}, p)
      BY <2>1, RevokedAfter
    <2>3. PICK q \in Sends(r) : DestroyIfDoomed(u, q, PingIfDone(q))
      BY <1>2 DEF LookupDone, Callback
    <2> HIDE DEF p
    <2>4. r \in Session
      BY <2>2 DEF After, Session
    <2>5. /\ r.sock = p.sock /\ r.auth = p.auth /\ r.dns = "none"
          /\ r.ident = p.ident /\ r.due = p.due /\ r.doomed = p.doomed
          /\ r.reports = p.reports
      BY <2>2 DEF After, Session
    <2> HIDE DEF r
    <2>6. After(r, {}, q)
      BY <2>4, SendsAfter
    <2>7. /\ q \in Session /\ q.sock = s[u].sock /\ q.auth = s[u].auth \ {"rdns"}
          /\ q.dns = "none" /\ q.ident = s[u].ident /\ q.due = s[u].due
          /\ q.doomed = s[u].doomed
          /\ "double_report" \notin Mishaps => q.reports = s[u].reports
      BY <2>2, <2>5, <2>6 DEF After
    <2>8. Answers(q)
      BY <2>1, <2>7 DEF Kept, Answers
    <2>9. Patient(q)
      BY <2>7 DEF Patient
    <2>10. EndsOnce(q)
      BY <2>1, <2>7 DEF Kept, EndsOnce, OneEnd, Stuck
    <2>11. CASE q.doomed > 0
      <3>1. OneEnd => s[u].sock # "open"
        BY <2>1, <2>7, <2>11 DEF Kept, EndsOnce
      <3>2. OneEnd => ~HavePendingRequests(q)
        <4> SUFFICES ASSUME OneEnd PROVE ~HavePendingRequests(q)
          OBVIOUS
        <4>1. "slow_dns" \in Mishaps
          BY <2>1, <3>1 DEF Kept, Patient
        <4>2. LookupOnly
          BY <4>1 DEF OneEnd
        <4>3. s[u].dns = "forward"
          BY <4>2 DEF LookupOnly
        <4>4. "dns" \notin s[u].auth /\ "ident" \notin s[u].auth
          BY <2>1, <4>2, <4>3 DEF LookupOnly, Kept, Answers
        <4> QED
          BY <2>7, <4>4 DEF HavePendingRequests
      <3>3. Destroy(u, q)
        BY <2>3, <2>11 DEF DestroyIfDoomed
      <3> QED
        BY <1>2, <2>7, <2>8, <2>9, <2>10, <3>1, <3>2, <3>3, DestroyKept
    <2>12. CASE ~(q.doomed > 0)
      <3>1. Kept(q)
        BY <2>8, <2>9, <2>10, <2>12 DEF Kept, ComesBack
      <3>2. Becomes(u, PingIfDone(q))
        BY <2>3, <2>12 DEF DestroyIfDoomed
      <3> QED
        BY <1>2, <2>7, <3>1, <3>2, PingAfter, WritesKept
    <2> QED
      BY <2>11, <2>12
  <1> QED
    BY <1>1, <1>2

LEMMA ResolverKept ==
  ASSUME KInv, IInv', NEW u \in Users, ResolverStep(u)
  PROVE  KInv' /\ OnlyEndedGo
  <1>1. CASE ReverseError(u)
    BY <1>1, LookupKept DEF ReverseError
  <1>2. CASE ForwardAnswer(u)
    BY <1>2, LookupKept DEF ForwardAnswer
  <1>3. CASE ReverseAnswer(u)
    <2>1. CASE u \notin live \/ Throws(s[u])
      BY <1>3, <2>1, StopKept DEF ReverseAnswer, Callback, Crash, Undefined
    <2>2. CASE u \in live /\ ~Throws(s[u])
      <3> DEFINE p == Revoked(s[u], {"dns"})
                 r == [p EXCEPT !.dns = "forward"]
      <3>1. s[u] \in Session /\ Kept(s[u]) /\ s[u].dns = "reverse"
        BY <1>3, <2>2, LiveKept DEF ReverseAnswer
      <3>2. After(s[u], {"dns"}, p)
        BY <3>1, RevokedAfter
      <3>3. Now(u, r)
        BY <1>3, <2>2 DEF ReverseAnswer, Callback
      <3> HIDE DEF p
      <3>4. r \in Session
        BY <3>2 DEF After, Session
      <3>5. /\ r.sock = p.sock /\ r.auth = p.auth /\ r.dns = "forward"
            /\ r.ident = p.ident /\ r.due = p.due /\ r.doomed = p.doomed
            /\ r.reports = p.reports
        BY <3>2 DEF After, Session
      <3> HIDE DEF r
      <3>6. /\ r.sock = s[u].sock /\ r.auth = s[u].auth \ {"dns"}
            /\ r.ident = s[u].ident /\ r.due = s[u].due /\ r.doomed = s[u].doomed
            /\ "double_report" \notin Mishaps => r.reports = s[u].reports
        BY <3>2, <3>5 DEF After
      <3>7. Answers(r) /\ Patient(r) /\ ComesBack(r)
        BY <3>1, <3>5, <3>6 DEF Kept, Answers, Patient, ComesBack
      <3>8. EndsOnce(r)
        BY <3>1, <3>6 DEF Kept, EndsOnce, OneEnd, Stuck
      <3> QED
        BY <2>2, <3>3, <3>4, <3>7, <3>8, NowKept DEF Kept
    <2> QED
      BY <2>1, <2>2
  <1> QED
    BY <1>1, <1>2, <1>3 DEF ResolverStep

\* q is r with its ident socket in another state.
IdentMoved(r, q) ==
    /\ q \in Session
    /\ q.sock = r.sock /\ q.auth = r.auth /\ q.dns = r.dns /\ q.due = r.due
    /\ q.doomed = r.doomed /\ q.reports = r.reports

LEMMA IdentMoves ==
  ASSUME NEW r \in Session,
         NEW i \in {"none", "connecting", "connected", "answered", "failed",
                    "cancelConnect", "cancelRead"}
  PROVE  LET q == [r EXCEPT !.ident = i] IN IdentMoved(r, q) /\ q.ident = i
  BY DEF Session, IdentMoved

\* Whatever becomes of the socket, its flag may go.
LEMMA IdentGone ==
  ASSUME NEW r \in Session, Kept(r), IdentCheck, NEW q, IdentMoved(r, q),
         NEW x, After(q, {"ident"}, x)
  PROVE  x \in Session /\ Kept(x)
  <1>1. /\ x \in Session /\ x.sock = r.sock /\ x.auth = r.auth \ {"ident"}
        /\ x.dns = r.dns /\ x.due = r.due /\ x.doomed = r.doomed
        /\ "double_report" \notin Mishaps => x.reports = r.reports
    BY DEF IdentMoved, After
  <1>2. Answers(x)
    BY <1>1 DEF Kept, Answers
  <1>3. Patient(x) /\ ComesBack(x)
    BY <1>1 DEF Kept, Patient, ComesBack
  <1>4. EndsOnce(x)
    BY <1>1 DEF Kept, EndsOnce, OneEnd, Stuck
  <1> QED
    BY <1>1, <1>2, <1>3, <1>4 DEF Kept

\* The callbacks of the ident socket; the one that looks into user_destructs
\* meets a user that is stuck, or deletes it.
LEMMA IdentKept ==
  ASSUME KInv, IInv', NEW u \in Users, IdentStep(u)
  PROVE  KInv' /\ OnlyEndedGo
  <1>1. CASE u \notin live
    BY <1>1, StopKept DEF IdentStep, IdentConnected, IdentError, IdentRead,
                          IdentDisconnected, Callback, Undefined
  <1>2. CASE u \in live
    <2>0. /\ s[u] \in Session /\ Kept(s[u])
          /\ s[u].reports \in Nat /\ s[u].doomed \in Nat
      BY <1>2, LiveKept
    <2>1. IdentCheck
      <3>1. s[u].ident # "none"
        BY DEF IdentStep, IdentConnected, IdentError, IdentRead, IdentDisconnected
      <3>2. ~IdentCheck => s[u].ident = "none"
        BY <2>0 DEF Kept, Answers
      <3> QED
        BY <3>1, <3>2, SessionParams
    <2>2. CASE IdentConnected(u)
      <3>1. CASE Throws(s[u])
        BY <1>2, <2>2, <3>1, StopKept DEF IdentConnected, Callback, Crash
      <3>2. CASE ~Throws(s[u])
        <4> DEFINE q == [s[u] EXCEPT !.ident = "connected"]
        <4>1. IdentMoved(s[u], q) /\ q.ident = "connected"
          BY <2>0, IdentMoves
        <4>2. Now(u, q)
          BY <1>2, <2>2, <3>2 DEF IdentConnected, Callback
        <4> HIDE DEF q
        <4>3. Answers(q)
          BY <2>0, <2>1, <4>1 DEF IdentMoved, Kept, Answers
        <4>4. Patient(q) /\ ComesBack(q)
          BY <2>0, <4>1 DEF IdentMoved, Kept, Patient, ComesBack
        <4>5. EndsOnce(q)
          BY <2>0, <4>1 DEF IdentMoved, Kept, EndsOnce, Stuck
        <4>6. q \in Session
          BY <4>1 DEF IdentMoved
        <4> QED
          BY <1>2, <4>2, <4>3, <4>4, <4>5, <4>6, NowKept DEF Kept
      <3> QED
        BY <3>1, <3>2
    <2>3. CASE IdentError(u)
      <3> DEFINE r == [s[u] EXCEPT !.ident =
                        IF @ = "connecting" THEN "failed" ELSE "none"]
      <3>1. IdentMoved(s[u], r)
        BY <2>0, IdentMoves
      <3>2. Becomes(u, UNION {IdentDone(q) : q \in Sends(r)})
        BY <1>2, <2>3 DEF IdentError, Callback
      <3> HIDE DEF r
      <3>3. \A q \in UNION {IdentDone(p) : p \in Sends(r)} : q \in Session /\ Kept(q)
        BY <2>0, <2>1, <3>1, IdentSendsAfter, IdentGone DEF IdentMoved
      <3> QED
        BY <1>2, <3>2, <3>3, BecomesKept
    <2>4. CASE IdentRead(u)
      <3> DEFINE r == [s[u] EXCEPT !.ident = "answered"]
      <3>1. IdentMoved(s[u], r)
        BY <2>0, IdentMoves
      <3>2. Becomes(u, UNION {IdentDone(q) : q \in Sends(r)})
        BY <1>2, <2>4 DEF IdentRead, Callback
      <3> HIDE DEF r
      <3>3. \A q \in UNION {IdentDone(p) : p \in Sends(r)} : q \in Session /\ Kept(q)
        BY <2>0, <2>1, <3>1, IdentSendsAfter, IdentGone DEF IdentMoved
      <3> QED
        BY <1>2, <3>2, <3>3, BecomesKept
    <2>5. CASE IdentDisconnected(u)
      <3> DEFINE r == [s[u] EXCEPT !.ident = "none"]
                 q == Revoked(r, {"ident"})
      <3>1. IdentMoved(s[u], r)
        BY <2>0, IdentMoves
      <3>2. DestroyIfDoomed(u, q, IdentDone(r))
        BY <1>2, <2>5 DEF IdentDisconnected, Callback
      <3> HIDE DEF r
      <3>3. After(r, {"ident"}, q)
        BY <3>1, RevokedAfter DEF IdentMoved
      <3>4. \A x \in IdentDone(r) : x \in Session /\ Kept(x)
        BY <2>0, <2>1, <3>1, RevokedPingAfter, IdentGone DEF IdentDone, IdentMoved
      <3> HIDE DEF q
      <3>5. q \in Session /\ Kept(q)
        BY <2>0, <2>1, <3>1, <3>3, IdentGone
      <3>6. CASE q.doomed > 0
        <4>1. /\ q.sock = s[u].sock /\ q.doomed = s[u].doomed /\ q.dns = s[u].dns
              /\ q.auth = s[u].auth \ {"ident"}
              /\ "double_report" \notin Mishaps => q.reports = s[u].reports
          BY <3>1, <3>3 DEF IdentMoved, After
        <4>2. OneEnd => s[u].sock # "open" /\ q.reports = 0
          BY <2>0, <3>6, <4>1 DEF Kept, EndsOnce, OneEnd
        <4>3. OneEnd => q.dns = "none"
          BY <2>0, <2>1, <4>1, <4>2 DEF Kept, Patient, OneEnd, LookupOnly
        <4>4. OneEnd /\ HavePendingRequests(q) => Stuck(q)
          BY <4>1, <4>3 DEF HavePendingRequests, Stuck
        <4>5. Destroy(u, q)
          BY <3>2, <3>6 DEF DestroyIfDoomed
        <4> QED
          BY <1>2, <3>5, <4>1, <4>2, <4>4, <4>5, DestroyKept DEF Kept
      <3>7. CASE ~(q.doomed > 0)
        BY <1>2, <3>2, <3>4, <3>7, BecomesKept DEF DestroyIfDoomed
      <3> QED
        BY <3>6, <3>7
    <2> QED
      BY <2>2, <2>3, <2>4, <2>5 DEF IdentStep
  <1> QED
    BY <1>1, <1>2

\* A timer handler that is no longer queued.
LEMMA DueKept ==
  ASSUME NEW r \in Session, Kept(r), NEW d \in SUBSET r.due
  PROVE  LET q == [r EXCEPT !.due = d]
         IN  q \in Session /\ Kept(q) /\ q.dns = r.dns
  <1> DEFINE q == [r EXCEPT !.due = d]
  <1>1. /\ q.sock = r.sock /\ q.auth = r.auth /\ q.dns = r.dns /\ q.due = d
        /\ q.ident = r.ident /\ q.doomed = r.doomed /\ q.reports = r.reports
    BY DEF Session
  <1>2. d \in SUBSET Timers
    BY DEF Session
  <1>3. q \in Session
    BY <1>2 DEF Session
  <1> HIDE DEF q
  <1>4. Answers(q) /\ ComesBack(q)
    BY <1>1 DEF Kept, Answers, ComesBack
  <1>5. Patient(q)
    BY <1>1 DEF Kept, Patient
  <1>6. EndsOnce(q)
    BY <1>1 DEF Kept, EndsOnce, Stuck
  <1>7. q \in Session /\ Kept(q) /\ q.dns = r.dns
    BY <1>1, <1>3, <1>4, <1>5, <1>6 DEF Kept
  <1> QED
    BY <1>7 DEF q

\* The timer: a fast resolver has answered before the wait ends.
LEMMA TimerKept ==
  ASSUME KInv, IInv', NEW u \in Users, TimerStep(u)
  PROVE  KInv' /\ OnlyEndedGo
  <1>1. CASE TimerExpires(u)
    <2> DEFINE q == [s[u] EXCEPT !.due = @ \cup {s[u].wait}, !.wait = "none"]
    <2>0. u \in live /\ ("slow_dns" \notin Mishaps => s[u].dns = "none")
      BY <1>1 DEF TimerExpires, Runs, MayEnd
    <2>1. s[u] \in Session /\ Kept(s[u])
      BY <2>0, LiveKept
    <2>2. s[u].due \cup {s[u].wait} \in SUBSET Timers
      BY <1>1, <2>1 DEF TimerExpires, Session
    <2>3. q \in Session
      BY <2>1, <2>2 DEF Session
    <2>4. /\ q.sock = s[u].sock /\ q.auth = s[u].auth /\ q.dns = s[u].dns
          /\ q.ident = s[u].ident /\ q.doomed = s[u].doomed
          /\ q.reports = s[u].reports
      BY <2>1 DEF Session
    <2>5. Now(u, q)
      BY <1>1 DEF TimerExpires
    <2> HIDE DEF q
    <2>6. Answers(q) /\ Patient(q) /\ ComesBack(q)
      BY <2>0, <2>1, <2>4 DEF Kept, Answers, Patient, ComesBack
    <2>7. EndsOnce(q)
      BY <2>1, <2>4 DEF Kept, EndsOnce, Stuck
    <2> QED
      BY <2>0, <2>3, <2>5, <2>6, <2>7, NowKept DEF Kept
  <1>2. CASE u \notin live /\ (AuthTimeout(u) \/ PingTimeout(u))
    BY <1>2, StopKept DEF AuthTimeout, PingTimeout, Callback, Undefined
  <1>3. CASE u \in live /\ AuthTimeout(u)
    <2> DEFINE r == [s[u] EXCEPT !.due = @ \ {"auth"}]
               c == [r EXCEPT !.ident =
                       CASE @ = "connecting" -> "cancelConnect"
                         [] @ = "connected" -> "cancelRead"
                         [] OTHER -> @]
    <2>1. s[u] \in Session /\ Reported(s[u]) /\ Kept(s[u])
      BY <1>3, LiveKept
    <2>2. r \in Session /\ Kept(r) /\ r.dns = s[u].dns
      BY <2>1, DueKept
    <2>3. Reported(r)
      BY <2>1 DEF Session, Reported
    <2>4. "slow_dns" \notin Mishaps => r.dns = "none"
      BY <1>3, <2>1, <2>2 DEF AuthTimeout, Kept, Patient
    <2>5. \/ Becomes(u, Closed(r))
          \/ Now(u, r)
          \/ "ident" \in r.auth /\ Becomes(u, UNION {Sends(q) : q \in IdentDone(c)})
      BY <1>3 DEF AuthTimeout, Callback
    <2> HIDE DEF r
    <2>6. CASE Becomes(u, Closed(r))
      BY <1>3, <2>2, <2>3, <2>4, <2>6, ClosedType, ClosedKept, BecomesKept
    <2>7. CASE Now(u, r)
      BY <1>3, <2>2, <2>7, NowKept
    <2>8. CASE /\ "ident" \in r.auth
               /\ Becomes(u, UNION {Sends(q) : q \in IdentDone(c)})
      <3>1. IdentCheck
        BY <2>2, <2>8, SessionParams DEF Kept, Answers
      <3>2. IdentMoved(r, c)
        <4>1. r.ident \in {"none", "connecting", "connected", "answered", "failed",
                           "cancelConnect", "cancelRead"}
          BY <2>2 DEF Session
        <4>2. \/ c = [r EXCEPT !.ident = "cancelConnect"]
              \/ c = [r EXCEPT !.ident = "cancelRead"]
              \/ c = [r EXCEPT !.ident = r.ident]
          BY <2>2 DEF Session
        <4> HIDE DEF c
        <4> QED
          BY <2>2, <4>1, <4>2, IdentMoves
      <3> HIDE DEF c
      <3>3. \A x \in UNION {Sends(q) : q \in IdentDone(c)} : x \in Session /\ Kept(x)
        BY <2>2, <3>1, <3>2, IdentSendsAfter, IdentGone DEF IdentMoved
      <3> QED
        BY <1>3, <2>8, <3>3, BecomesKept
    <2> QED
      BY <2>5, <2>6, <2>7, <2>8
  <1>4. CASE u \in live /\ PingTimeout(u)
    <2> DEFINE r == [s[u] EXCEPT !.due = @ \ {"ping"}]
               p == [r EXCEPT !.wait = "ping"]
    <2>1. s[u] \in Session /\ Reported(s[u]) /\ Kept(s[u])
      BY <1>4, LiveKept
    <2>2. r \in Session /\ Kept(r) /\ r.dns = s[u].dns
      BY <2>1, DueKept
    <2>3. Reported(r)
      BY <2>1 DEF Session, Reported
    <2>4. "slow_dns" \notin Mishaps => r.dns = "none"
      BY <1>4, <2>1, <2>2 DEF PingTimeout, Kept, Patient
    <2>5. Becomes(u, Closed(r)) \/ Becomes(u, Sends(p))
      BY <1>4 DEF PingTimeout, Callback
    <2> HIDE DEF r
    <2>6. CASE Becomes(u, Closed(r))
      BY <1>4, <2>2, <2>3, <2>4, <2>6, ClosedType, ClosedKept, BecomesKept
    <2>7. CASE Becomes(u, Sends(p))
      <3>1. p \in Session
        BY <2>2 DEF Session, Timers
      <3>2. After(r, {}, p)
        BY <2>2, <3>1 DEF After, Session
      <3> HIDE DEF p
      <3>3. Kept(p)
        BY <2>2, <3>2, AfterKept
      <3> QED
        BY <1>4, <2>7, <3>1, <3>3, SendsAfter, WritesKept
    <2> QED
      BY <2>5, <2>6, <2>7
  <1> QED
    BY <1>1, <1>2, <1>3, <1>4 DEF TimerStep

-----------------------------------------------------------------------------
LEMMA KeptInit == Init => KInv
  BY InitInv DEF Init, KInv, NothingLeft, NoSession

LEMMA KeptNext == KInv /\ [Next]_vars => KInv' /\ OnlyEndedGo
  <1> SUFFICES ASSUME KInv, [Next]_vars PROVE KInv' /\ OnlyEndedGo
    OBVIOUS
  <1>0. IInv'
    BY NextInv DEF KInv
  <1>1. CASE UNCHANGED vars \/ Stopped
    BY <1>0, <1>1, StopKept DEF vars, Stopped
  <1>2. ASSUME NEW u \in Users, ClientStep(u) PROVE KInv' /\ OnlyEndedGo
    <2>1. CASE StaleLookup(u)
      BY <1>0, <2>1, StopKept DEF StaleLookup, Undefined
    <2> QED
      BY <1>0, <1>2, <2>1, AcceptsKept, CommandKept, EndKept DEF ClientStep
  <1>3. ASSUME NEW u \in Users, RemoveConnection(u) PROVE KInv' /\ OnlyEndedGo
    BY <1>0, <1>3, RemoveKept
  <1>4. ASSUME NEW u \in Users, ResolverStep(u) \/ IdentStep(u) \/ TimerStep(u)
        PROVE  KInv' /\ OnlyEndedGo
    BY <1>0, <1>4, ResolverKept, IdentKept, TimerKept
  <1> QED
    BY <1>1, <1>2, <1>3, <1>4 DEF Next

\* Whatever the mishaps, the clauses of Kept whose conditions they meet hold
\* of every user throughout.
THEOREM KeptInductive == Spec => []KInv
  BY KeptInit, KeptNext, PTL DEF Spec

\* Unless a reverse query fails, a connected user waits for nothing that was
\* not asked for, with any resolver, ident server, timer and client.
THEOREM AwaitedOutstanding ==
  "reverse_fails" \notin Mishaps => (Spec => []AwaitedIsOutstanding)
  <1> SUFFICES ASSUME "reverse_fails" \notin Mishaps
               PROVE  Spec => []AwaitedIsOutstanding
    OBVIOUS
  <1>1. KInv => AwaitedIsOutstanding
    BY DEF KInv, Kept, Answers, AwaitedIsOutstanding
  <1> QED
    BY <1>1, KeptInductive, PTL

\* Where only the resolver is waited for, it answers, and no copy is left over
\* for a client that is gone at once, a callback comes back to every user in
\* user_destructs.
THEOREM DeferredMet == Deferrable => (Spec => []DeferredHasCallback)
  <1> SUFFICES ASSUME Deferrable PROVE Spec => []DeferredHasCallback
    OBVIOUS
  <1>1. KInv => DeferredHasCallback
    BY DEF KInv, Kept, ComesBack, DeferredHasCallback
  <1> QED
    BY <1>1, KeptInductive, PTL

\* With one end for each connection, nobody is deleted while connected, by any
\* report, lookup, ident answer or timer of an earlier user at the address.
THEOREM OnlyEndedGone == OneEnd => (Spec => OnlyEndedDestroyed)
  <1> SUFFICES ASSUME OneEnd PROVE Spec => OnlyEndedDestroyed
    OBVIOUS
  <1>1. KInv /\ [Next]_vars => [\A u \in live \ live' : s[u].sock # "open"]_vars
    BY KeptNext DEF OnlyEndedGo
  <1> QED
    BY <1>1, KeptInductive, PTL DEF Spec, OnlyEndedDestroyed
=============================================================================
