------------------------------ MODULE Channels ------------------------------
(***************************************************************************)
(* Channel membership of the server: the channel map of base.hpp, the      *)
(* UnrealChannel objects of channel.cpp, the channel list each UnrealUser  *)
(* keeps (user.cpp), and the commands that change them: JOIN, JOIN 0,      *)
(* PART, KICK, INVITE, MODE, OPER, KILL, QUIT and every way a connection   *)
(* ends.                                                                   *)
(*                                                                         *)
(* The server is one boost::asio reactor thread, so a command handler runs *)
(* to its end before anything else does: one action per command.  What is  *)
(* NOT atomic is the end of a user.  Closing a socket only makes the       *)
(* reactor report an error later; until that report the object is still    *)
(* found by its nick and the lines already in its receive queue still run. *)
(* If a lookup for the user is pending at the report, the deletion waits    *)
(* for the lookup (Session.tla); meanwhile the queue still runs.           *)
(*                                                                         *)
(* A user is named by the address of its UnrealUser object, because that   *)
(* is what the code stores in Member entries and invite lists.  After the  *)
(* object is deleted the allocator may give the address to a later user.   *)
(*                                                                         *)
(* Commands that carry a list (JOIN #a,#b, MODE +ik key) apply its items   *)
(* from left to right, each reading what the one before it wrote, so a     *)
(* list leaves the state its items leave one by one; an action here is one *)
(* item.  A command the code refuses only sends a numeric: it is no step.  *)
(***************************************************************************)
EXTENDS Naturals, FiniteSets, Functions

CONSTANTS
    Users,              \* addresses an UnrealUser object may live at
    Chans,              \* channel names, lower-cased
    Keys,               \* channel keys a client may name
    NoKey,              \* the empty key string
    Limits,             \* numbers a client may give to MODE +l
    Masks,              \* ban masks; a mask is the set of users it matches
    Letters,            \* channel mode letters the clients use
    MaxChans,           \* Limits::MaxChansPerUser
    IdentCheck,         \* Features::EnableIdentCheck
    ChannelCreation     \* Features::ChannelCreation

MemberFlags == {"o", "h", "v"}      \* Member::ChanOp, HalfOp, Voice
JoinModes   == {"i", "k", "l"}      \* InviteOnly, Key, Limit

ASSUME ParamsOK ==
    /\ Limits \subseteq Nat
    /\ Masks \subseteq SUBSET Users
    /\ Letters \subseteq MemberFlags \cup JoinModes \cup {"b"}
    /\ MaxChans \in Nat
    /\ IdentCheck \in BOOLEAN
    /\ ChannelCreation \in BOOLEAN
    /\ NoKey \notin Keys

VARIABLES
    live,       \* users whose object exists (unreal->users)
    intro,      \* users with no auth flag left (isIntroduced)
    closed,     \* users whose socket the server closed, error not reported yet
    doomed,     \* users whose deletion waits for a lookup (user_destructs)
    oper,       \* users with the Operator mode
    joined,     \* joined[u][c]: entries for c in the list u->channels
    channels,   \* names in the map unreal->channels
    members,    \* members[c]: users with a Member entry
    flags,      \* flags[c][u]: Member::flags of that entry
    invites,    \* invites[c]: the pending invites
    props       \* props[c]: modes, key, limit and ban list

userVars == <<live, intro, closed, doomed, oper>>
chanVars == <<joined, channels, members, flags, invites, props>>
vars == <<live, intro, closed, doomed, oper, joined, channels, members, flags,
          invites, props>>

\* What a constructed UnrealChannel holds besides its members.
NewProps == [modes |-> {}, key |-> NoKey, limit |-> 0, bans |-> {}]

Props == [modes : SUBSET JoinModes, key : Keys \cup {NoKey},
          limit : Limits \cup {0}, bans : SUBSET Masks]

Init ==
    /\ live = {} /\ intro = {} /\ closed = {} /\ doomed = {} /\ oper = {}
    /\ joined = [u \in Users |-> [c \in Chans |-> 0]]
    /\ channels = {}
    /\ members = [c \in Chans |-> {}]
    /\ flags = [c \in Chans |-> [u \in Users |-> {}]]
    /\ invites = [c \in Chans |-> {}]
    /\ props = [c \in Chans |-> NewProps]

-----------------------------------------------------------------------------
(* Leaving.  Every leave path of the code ends in UnrealChannel::          *)
(* removeMember followed by the deletion of the channel it emptied.        *)

\* The channels of C that u has a Member entry in: what leaveChannel's
\* find and findMember let through.
Left(u, C) == {c \in C \cap channels : u \in members[c]}

\* Mutant: the deletion of an emptied channel is forgotten.
EmptiedNever(u, C) == {}

\* Channels the removal of u from C empties; leaveChannel deletes them.
Emptied(u, C) == {c \in Left(u, C) : members[c] = {u}}

\* removeMember on every channel of Left(u, C), and the deletions: the
\* Member entry goes with its flags, the channel with all it holds.
RemoveMember(u, C) ==
    /\ members' = [c \in Chans |->
            IF c \in Left(u, C) THEN members[c] \ {u} ELSE members[c]]
    /\ flags' = [c \in Chans |->
            IF c \in Left(u, C) THEN [flags[c] EXCEPT ![u] = {}] ELSE flags[c]]
    /\ channels' = channels \ Emptied(u, C)
    /\ invites' = [c \in Chans |->
            IF c \in Emptied(u, C) THEN {} ELSE invites[c]]
    /\ props' = [c \in Chans |->
            IF c \in Emptied(u, C) THEN NewProps ELSE props[c]]

\* Mutant: removeMember leaves the user's own list alone.
UnlistNothing(u, C) == UNCHANGED joined

\* uptr->channels.remove(this): drops one entry, when there is one.
Unlist(u, C) ==
    joined' = [joined EXCEPT ![u] = [c \in Chans |->
        IF c \in Left(u, C) /\ joined[u][c] > 0 THEN joined[u][c] - 1
                                                ELSE joined[u][c]]]

\* UnrealUser::leaveChannel(chname, message, type).
LeaveChannel(u, C) == RemoveMember(u, C) /\ Unlist(u, C)

\* The channels in u's own list.
Listed(u) == {c \in Chans : joined[u][c] > 0}

-----------------------------------------------------------------------------
(* Users *)

\* Mutant: the isRegistered check of processRecvQueue is missing.
CommandsOfAnybody(u) == u \in live

\* A command line of u is run: it was in u's receive queue, u is introduced.
\* The socket may be closed already: the queue is not emptied by a close.
Commands(u) == u \in live \cap intro

\* UnrealListener::addConnection: a new UnrealUser at a free address.
AddConnection(u) ==
    /\ u \notin live
    /\ live' = live \cup {u}
    /\ joined' = [joined EXCEPT ![u] = [c \in Chans |-> 0]]
    /\ UNCHANGED <<intro, closed, doomed, oper, channels, members, flags,
                   invites, props>>

\* The last auth flag is revoked: NICK, USER, DNS and ident are done.  The
\* handlers of the ident socket do so even if the user is to be deleted; that
\* of the resolver deletes it first.
Introduce(u) ==
    /\ u \in live \ intro
    /\ u \in doomed => IdentCheck
    /\ intro' = intro \cup {u}
    /\ UNCHANGED <<live, closed, doomed, oper, chanVars>>

\* Close u's socket.  The aborted read will report it, unless the report
\* that doomed u was the last.
Shut(u) == closed' = closed \cup ({u} \ doomed)

\* UnrealUser::exit(message): close the socket, nothing else.  Called by the
\* authorization and ping timers.
Exit(u) ==
    /\ u \in live
    /\ Shut(u)
    /\ UNCHANGED <<live, intro, doomed, oper, chanVars>>

\* UnrealUser::drop, exit(ec, msg) then exit(msg): the receive queue is full.
Drop(u) ==
    /\ u \in live
    /\ LeaveChannel(u, Listed(u))
    /\ Shut(u)
    /\ UNCHANGED <<live, intro, doomed, oper>>

\* Mutant: the user's object goes, its operator mode stays counted.
DeleteKeepsOper(u) ==
    /\ live' = live \ {u}
    /\ intro' = intro \ {u}
    /\ closed' = closed \ {u}
    /\ doomed' = doomed \ {u}
    /\ UNCHANGED oper

\* delete uptr, with its channel list.
Delete(u) ==
    /\ live' = live \ {u}
    /\ intro' = intro \ {u}
    /\ closed' = closed \ {u}
    /\ doomed' = doomed \ {u}
    /\ oper' = oper \ {u}

\* Mutant: destroy neither deletes nor defers.
RemoveConnectionUndone(u) ==
    /\ LeaveChannel(u, Listed(u))
    /\ UNCHANGED userVars

\* removeConnection: the reactor reports an error on the socket.  exit(ec)
\* leaves every channel in the list; destroy deletes the object or, if a
\* lookup is pending, puts it into user_destructs.  No invite list is
\* looked at.
RemoveConnection(u) ==
    /\ LeaveChannel(u, Listed(u))
    /\ \/ Delete(u)
       \/ /\ u \notin intro
          /\ closed' = closed \ {u}
          /\ doomed' = doomed \cup {u}
          /\ UNCHANGED <<live, intro, oper>>

\* The peer went away.
LinkError(u) == u \in live \ closed /\ RemoveConnection(u)

\* The operations aborted by the server's own close.
CloseReported(u) == u \in closed /\ RemoveConnection(u)

\* The lookup is over, destroy is called again.  It leaves no channel.
DestroyDoomed(u) ==
    /\ u \in doomed
    /\ Delete(u)
    /\ joined' = [joined EXCEPT ![u] = [c \in Chans |-> 0]]
    /\ UNCHANGED <<channels, members, flags, invites, props>>

\* OPER with a matching host and password.
Oper(u) ==
    /\ Commands(u)
    /\ oper' = oper \cup {u}
    /\ UNCHANGED <<live, intro, closed, doomed, chanVars>>

\* MODE <own nick> -o
Deoper(u) ==
    /\ Commands(u)
    /\ oper' = oper \ {u}
    /\ UNCHANGED <<live, intro, closed, doomed, chanVars>>

\* KILL, an oper-only command, on any user found by its nick.
Kill(u, v) ==
    /\ Commands(u) /\ u \in oper
    /\ Drop(v)

\* QUIT takes each channel out of the list before it leaves it, so the list
\* is empty afterwards whatever leaveChannel finds.
Quit(u) ==
    /\ Commands(u)
    /\ RemoveMember(u, Listed(u))
    /\ joined' = [joined EXCEPT ![u] = [c \in Chans |-> 0]]
    /\ Shut(u)
    /\ UNCHANGED <<live, intro, doomed, oper>>

-----------------------------------------------------------------------------
(* Channel commands *)

\* u->channels.size(): list entries, not distinct channels.
ListSize(u) == FoldFunction(+, 0, joined[u])

\* The gates of joinChannel, in its order: +i, +k, +l, +b.  An invite opens
\* all four, the operator mode all but the ban.
MayEnter(u, c, key) ==
    LET p == props[c]
        force == u \in invites[c]
    IN  \/ force
        \/ /\ \/ u \in oper
              \/ /\ "i" \notin p.modes
                 /\ "k" \in p.modes => key = p.key
                 /\ "l" \in p.modes => Cardinality(members[c]) < p.limit
           /\ \A m \in p.bans : u \notin m

\* The quota check of JOIN.
HasSlot(u) == ListSize(u) < MaxChans

\* Mutant: the invite is used up only where it was needed.
UseInviteIfNeeded(u, c) ==
    invites' = [invites EXCEPT ![c] =
                    IF "i" \in props[c].modes THEN @ \ {u} ELSE @]

\* chptr->invites.remove(this)
UseInvite(u, c) == invites' = [invites EXCEPT ![c] = @ \ {u}]

\* JOIN <channel> [<key>].  A missing channel is created and its creator
\* gets operator status; an invite is used up by any successful join.
Join(u, c, key) ==
    /\ Commands(u)
    /\ HasSlot(u)
    /\ c \in channels \/ ChannelCreation \/ u \in oper
    /\ u \notin members[c]
    /\ MayEnter(u, c, key)
    /\ members' = [members EXCEPT ![c] = @ \cup {u}]
    /\ flags' = [flags EXCEPT ![c][u] = IF c \in channels THEN {} ELSE {"o"}]
    /\ joined' = [joined EXCEPT ![u][c] = @ + 1]
    /\ channels' = channels \cup {c}
    /\ UseInvite(u, c)
    /\ UNCHANGED <<userVars, props>>

\* JOIN 0: PART every channel of the list.
JoinZero(u) ==
    /\ Commands(u)
    /\ LeaveChannel(u, Listed(u))
    /\ UNCHANGED userVars

\* PART <channel>
Part(u, c) ==
    /\ Commands(u)
    /\ u \in members[c]
    /\ LeaveChannel(u, {c})
    /\ UNCHANGED userVars

\* KICK <channel> <nick>
Kick(u, c, v) ==
    /\ Commands(u)
    /\ v \in live
    /\ u \in members[c]
    /\ "o" \in flags[c][u] \/ u \in oper
    /\ v \in members[c]
    /\ LeaveChannel(v, {c})
    /\ UNCHANGED userVars

\* INVITE <nick> <channel>: channel operators only, an IRC operator has no
\* override here.  The user found by the nick need not be introduced.
Invite(u, v, c) ==
    /\ Commands(u)
    /\ c \in channels
    /\ u \in members[c]
    /\ "o" \in flags[c][u]
    /\ v \in live
    /\ v \notin members[c]
    /\ invites' = [invites EXCEPT ![c] = @ \cup {v}]
    /\ UNCHANGED <<userVars, joined, channels, members, flags, props>>

-----------------------------------------------------------------------------
(* MODE <channel>, one letter and its argument.  parseModeChange returns   *)
(* at once for a user without a Member entry, IRC operators included.      *)

\* Mutant: half-operators may change any mode.
MayChangeAsHalfOp(u, c, l) ==
    /\ Commands(u)
    /\ l \in Letters
    /\ u \in members[c]
    /\ flags[c][u] \cap {"o", "h"} # {} \/ u \in oper

\* The privilege check both signs share.
MayChange(u, c, l) ==
    /\ Commands(u)
    /\ l \in Letters
    /\ u \in members[c]
    /\ \/ "o" \in flags[c][u]
       \/ l = "v" /\ "h" \in flags[c][u]
       \/ u \in oper

SetProps(c, p) == props' = [props EXCEPT ![c] = p]

\* +o, +h, +v, -o, -h and -v: the target is a member with a known nick.
ModeMember(u, c, l, v, add) ==
    /\ l \in MemberFlags
    /\ MayChange(u, c, l)
    /\ v \in live \cap members[c]
    /\ flags' = [flags EXCEPT ![c][v] = IF add THEN @ \cup {l} ELSE @ \ {l}]
    /\ UNCHANGED <<userVars, joined, channels, members, invites, props>>

ModeInviteOnly(u, c) ==
    /\ MayChange(u, c, "i")
    /\ SetProps(c, [props[c] EXCEPT !.modes = @ \cup {"i"}])
    /\ UNCHANGED <<userVars, joined, channels, members, flags, invites>>

\* -i empties the invite list, whether or not +i was set.
ModeNotInviteOnly(u, c) ==
    /\ MayChange(u, c, "i")
    /\ SetProps(c, [props[c] EXCEPT !.modes = @ \ {"i"}])
    /\ invites' = [invites EXCEPT ![c] = {}]
    /\ UNCHANGED <<userVars, joined, channels, members, flags>>

ModeKey(u, c, key) ==
    /\ MayChange(u, c, "k")
    /\ SetProps(c, [props[c] EXCEPT !.modes = @ \cup {"k"}, !.key = key])
    /\ UNCHANGED <<userVars, joined, channels, members, flags, invites>>

ModeNoKey(u, c) ==
    /\ MayChange(u, c, "k")
    /\ SetProps(c, [props[c] EXCEPT !.modes = @ \ {"k"}, !.key = NoKey])
    /\ UNCHANGED <<userVars, joined, channels, members, flags, invites>>

ModeLimit(u, c, n) ==
    /\ MayChange(u, c, "l")
    /\ SetProps(c, [props[c] EXCEPT !.modes = @ \cup {"l"}, !.limit = n])
    /\ UNCHANGED <<userVars, joined, channels, members, flags, invites>>

\* +l with an argument that is no number: the letter is set all the same,
\* the limit keeps its value.
ModeBadLimit(u, c) ==
    /\ MayChange(u, c, "l")
    /\ SetProps(c, [props[c] EXCEPT !.modes = @ \cup {"l"}])
    /\ UNCHANGED <<userVars, joined, channels, members, flags, invites>>

ModeNoLimit(u, c) ==
    /\ MayChange(u, c, "l")
    /\ SetProps(c, [props[c] EXCEPT !.modes = @ \ {"l"}, !.limit = 0])
    /\ UNCHANGED <<userVars, joined, channels, members, flags, invites>>

ModeBan(u, c, m, add) ==
    /\ MayChange(u, c, "b")
    /\ SetProps(c, [props[c] EXCEPT !.bans =
                                    IF add THEN @ \cup {m} ELSE @ \ {m}])
    /\ UNCHANGED <<userVars, joined, channels, members, flags, invites>>

-----------------------------------------------------------------------------
UserStep ==
    \E u \in Users :
        \/ AddConnection(u) \/ Introduce(u)
        \/ Exit(u) \/ Drop(u) \/ LinkError(u) \/ CloseReported(u)
        \/ DestroyDoomed(u)
        \/ Oper(u) \/ Deoper(u) \/ Quit(u) \/ JoinZero(u)
        \/ \E v \in Users : Kill(u, v)

ChannelStep ==
    \E u \in Users, c \in Chans :
        \/ \E key \in Keys \cup {NoKey} : Join(u, c, key)
        \/ Part(u, c)
        \/ \E v \in Users : Kick(u, c, v)

InviteStep == \E u, v \in Users, c \in Chans : Invite(u, v, c)

ModeStep ==
    \E u \in Users, c \in Chans :
        \/ \E l \in MemberFlags, v \in Users, add \in BOOLEAN :
              ModeMember(u, c, l, v, add)
        \/ ModeInviteOnly(u, c) \/ ModeNotInviteOnly(u, c)
        \/ \E key \in Keys \cup {NoKey} : ModeKey(u, c, key)
        \/ ModeNoKey(u, c)
        \/ \E n \in Limits : ModeLimit(u, c, n)
        \/ ModeBadLimit(u, c) \/ ModeNoLimit(u, c)
        \/ \E m \in Masks, add \in BOOLEAN : ModeBan(u, c, m, add)

Next == UserStep \/ ChannelStep \/ InviteStep \/ ModeStep

Spec == Init /\ [][Next]_vars

\* The reactor dispatches every completion handler it queued, so a close is
\* reported in the end.  Nothing is assumed of the peers.
Fairness == \A u \in Users : WF_vars(CloseReported(u))

FairSpec == Spec /\ Fairness
-----------------------------------------------------------------------------
(* Properties *)

TypeOK ==
    /\ live \subseteq Users /\ intro \subseteq live
    /\ closed \subseteq live /\ doomed \subseteq live /\ oper \subseteq intro
    /\ joined \in [Users -> [Chans -> Nat]]
    /\ channels \subseteq Chans
    /\ members \in [Chans -> SUBSET Users]
    /\ flags \in [Chans -> [Users -> SUBSET MemberFlags]]
    /\ invites \in [Chans -> SUBSET Users]
    /\ props \in [Chans -> Props]

\* A user's channel list and the member tables are the same relation, and a
\* channel is listed once.  The loops of exit, JOIN 0 and QUIT run until the
\* list is empty and only ever remove a channel the user has a Member entry
\* in: a list entry without one would make exit and JOIN 0 loop for ever, and
\* a Member entry without one would outlive the user it points to.
MembershipSymmetric ==
    \A u \in Users, c \in Chans :
        joined[u][c] = IF u \in members[c] THEN 1 ELSE 0

\* A channel exists exactly as long as somebody is in it: whichever of PART,
\* KICK, KILL, QUIT, JOIN 0 or a lost connection takes the last member out
\* deletes it, and none deletes it earlier.
NoEmptyChannel == channels = {c \in Chans : members[c] # {}}

\* Every Member entry points to a user object that exists and has finished
\* authentication, through every order of closes, reports, kicks and joins
\* still in a receive queue.
MembersIntroduced == \A c \in Chans : members[c] \subseteq intro

\* An invite is for somebody outside: INVITE refuses members and every way
\* into a channel, by invite or not, uses the pending invite up, so an old
\* invite never lets a kicked or banned user back in.
InvitesOutside == \A c \in Chans : invites[c] \cap members[c] = {}

\* No Member entry means no status: a user who was an operator, left in
\* whichever way and comes back starts without it.
StatusLeavesToo ==
    \A c \in Chans, u \in Users : flags[c][u] # {} => u \in members[c]

\* Channel operator or IRC operator, in the channel.
Chief(u, c) == u \in members[c] /\ ("o" \in flags[c][u] \/ u \in oper)

\* A change of a living channel's properties, or of the status of somebody
\* who stays, is one that somebody in the channel is entitled to.
PrivilegedChange ==
    \A c \in channels \cap channels' :
        /\ props'[c] # props[c] => \E u \in Users : Chief(u, c)
        /\ \A v \in members'[c] :
              /\ flags'[c][v] \ {"v"} # flags[c][v] \ {"v"}
                    => \E u \in Users : Chief(u, c)
              /\ flags'[c][v] # flags[c][v]
                    => \E u \in members[c] : Chief(u, c) \/ "h" \in flags[c][u]

\* As long as a channel lives, its modes, key, limit and bans change only
\* while a channel operator or IRC operator is in it, and so does the status
\* of somebody who stays; half-operators reach as far as the voice flag.
OnlyPrivilegedChange == [][PrivilegedChange]_vars

\* A user whose socket the server closed is in the end out of every channel
\* and deleted, or waits for its lookup, even if its queued JOINs ran after
\* the close.
ClosedUsersVanish ==
    \A u \in Users :
        u \in closed ~> /\ u \notin live \/ u \in doomed
                        /\ \A c \in Chans : u \notin members[c]
-----------------------------------------------------------------------------
(* What all this implements *)

Pairs == {<<u, c>> : u \in Users, c \in Chans}

\* The member tables and the operator flags as relations.
InChannel == {p \in Pairs : p[1] \in members[p[2]]}
IsChanOp == {p \in Pairs : "o" \in flags[p[2]][p[1]]}

Abstract == INSTANCE Membership WITH
    present <- intro, rel <- InChannel, ops <- IsChanOp, names <- channels

\* Every handler, the double one of a user's end included, does to the tables
\* what one step of the abstract relation does: no leave path forgets a
\* channel, a status or a user, none touches another user's, and what a user
\* finds when it creates a channel is a new channel.
ImplementsMembership == Abstract!Spec
=============================================================================
