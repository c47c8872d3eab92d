--------------------------- MODULE ChannelsProofs ---------------------------
(***************************************************************************)
(* Invariants of Channels for any number of users and channels.            *)
(*                                                                         *)
(* IInv is inductive.  What holds of the channels alone (ChanInv) needs    *)
(* nothing of the users.  The two facts that relate users and channels     *)
(* need each other, NoEmptyChannel and the absence of ghosts: leaveChannel *)
(* finds a channel by its name, so a Member entry in a channel missing     *)
(* from the map could not be removed; the end of a user removes it from    *)
(* the channels of its own list and no others; and a user whose deletion   *)
(* was deferred is deleted without leaving, so it must be in no channel.   *)
(* Without ident lookups it never is.                                      *)
(***************************************************************************)
EXTENDS Channels, TLAPS

UserType ==
    /\ live \subseteq Users /\ intro \subseteq live
    /\ closed \subseteq live /\ doomed \subseteq live /\ oper \subseteq intro

ChanType ==
    /\ joined \in [Users -> [Chans -> Nat]]
    /\ channels \subseteq Chans
    /\ members \in [Chans -> SUBSET Users]
    /\ flags \in [Chans -> [Users -> SUBSET MemberFlags]]
    /\ invites \in [Chans -> SUBSET Users]
    /\ props \in [Chans -> Props]

\* What holds of the channels whatever state the users are in.
ChanInv ==
    /\ ChanType
    /\ NoEmptyChannel
    /\ InvitesOutside
    /\ StatusLeavesToo

\* No user becomes a member of anything while its deletion is deferred.
NoGhost ==
    /\ MembershipSymmetric
    /\ MembersIntroduced
    /\ doomed \cap intro = {}

IInv == UserType /\ ChanInv /\ (IdentCheck \/ NoGhost)

-----------------------------------------------------------------------------

\* A newly constructed channel's properties are of the right type.
LEMMA NewPropsType == NewProps \in Props
  BY DEF NewProps, Props

\* Leaving the channels of C takes u out of all of them, and out of no other.
LEMMA RemoveMemberEffect ==
  ASSUME ChanInv, NEW u \in Users, NEW C \in SUBSET Chans, RemoveMember(u, C)
  PROVE  /\ members' = [c \in Chans |->
                IF c \in C THEN members[c] \ {u} ELSE members[c]]
         /\ flags' \in [Chans -> [Users -> SUBSET MemberFlags]]
         /\ \A c \in Chans, v \in Users :
                flags'[c][v] = IF c \in C /\ v = u THEN {} ELSE flags[c][v]
         /\ \A c \in Chans : invites'[c] \subseteq invites[c]
         /\ channels' = {c \in Chans : members'[c] # {}}
         /\ channels' \subseteq channels
         /\ invites' \in [Chans -> SUBSET Users]
         /\ props' \in [Chans -> Props]
  <1>1. Left(u, C) = {c \in C : u \in members[c]}
    BY DEF ChanInv, ChanType, NoEmptyChannel, Left
  <1>2. members' = [c \in Chans |->
                IF c \in C THEN members[c] \ {u} ELSE members[c]]
    <2>1. \A c \in Chans : (IF c \in Left(u, C) THEN members[c] \ {u} ELSE members[c])
                = (IF c \in C THEN members[c] \ {u} ELSE members[c])
      BY <1>1 DEF ChanInv, ChanType
    <2> QED
      BY <2>1 DEF RemoveMember
  <1>3. /\ flags' \in [Chans -> [Users -> SUBSET MemberFlags]]
        /\ \A c \in Chans, v \in Users :
              flags'[c][v] = IF c \in C /\ v = u THEN {} ELSE flags[c][v]
    BY <1>1 DEF ChanInv, ChanType, RemoveMember, StatusLeavesToo
  <1>4. Emptied(u, C) = {c \in C : members[c] = {u}}
    BY <1>1 DEF Emptied
  <1>5. /\ \A c \in Chans : invites'[c] \subseteq invites[c]
        /\ invites' \in [Chans -> SUBSET Users]
    BY DEF ChanInv, ChanType, RemoveMember
  <1>6. props' \in [Chans -> Props]
    BY NewPropsType DEF ChanInv, ChanType, RemoveMember
  <1>7. channels' = {c \in Chans : members'[c] # {}}
    <2>1. \A c \in Chans : c \in channels' <=> members[c] # {} /\ c \notin Emptied(u, C)
      BY DEF RemoveMember, ChanInv, NoEmptyChannel
    <2>2. \A c \in Chans : members'[c] # {} <=> members[c] # {} /\ c \notin Emptied(u, C)
      BY <1>2, <1>4 DEF ChanInv, ChanType
    <2>3. channels' \subseteq Chans
      BY DEF RemoveMember, ChanInv, ChanType
    <2> QED
      BY <2>1, <2>2, <2>3
  <1>8. channels' \subseteq channels
    BY DEF RemoveMember
  <1> QED
    BY <1>2, <1>3, <1>5, <1>6, <1>7, <1>8

\* leaveChannel preserves what is known of channels.
LEMMA LeaveChannelInv ==
  ASSUME ChanInv, NEW u \in Users, NEW C \in SUBSET Chans, LeaveChannel(u, C)
  PROVE  /\ ChanInv'
         /\ MembershipSymmetric => MembershipSymmetric'
         /\ members' = [c \in Chans |->
                IF c \in C THEN members[c] \ {u} ELSE members[c]]
  <1> USE DEF LeaveChannel
  <1>1. /\ members' = [c \in Chans |->
                IF c \in C THEN members[c] \ {u} ELSE members[c]]
        /\ flags' \in [Chans -> [Users -> SUBSET MemberFlags]]
        /\ \A c \in Chans, v \in Users :
                flags'[c][v] = IF c \in C /\ v = u THEN {} ELSE flags[c][v]
        /\ \A c \in Chans : invites'[c] \subseteq invites[c]
        /\ channels' = {c \in Chans : members'[c] # {}}
        /\ channels' \subseteq channels
        /\ invites' \in [Chans -> SUBSET Users]
        /\ props' \in [Chans -> Props]
    BY RemoveMemberEffect
  <1>2. joined' \in [Users -> [Chans -> Nat]]
    BY DEF Unlist, ChanInv, ChanType
  <1>3. ChanType'
    BY <1>1, <1>2 DEF ChanInv, ChanType
  <1>4. ASSUME MembershipSymmetric PROVE MembershipSymmetric'
    <2>1. Left(u, C) = {c \in C : u \in members[c]}
      BY DEF ChanInv, ChanType, NoEmptyChannel, Left
    <2>2. ASSUME NEW v \in Users, NEW c \in Chans
          PROVE  joined'[v][c] = IF v \in members'[c] THEN 1 ELSE 0
      <3>1. joined[v][c] = IF v \in members[c] THEN 1 ELSE 0
        BY <1>4 DEF MembershipSymmetric
      <3>2. CASE v # u
        BY <3>1, <3>2, <1>1 DEF Unlist, ChanInv, ChanType
      <3>3. CASE v = u
        BY <3>1, <3>3, <2>1, <1>1 DEF Unlist, ChanInv, ChanType
      <3> QED
        BY <3>2, <3>3
    <2> QED
      BY <2>2 DEF MembershipSymmetric
  <1>5. NoEmptyChannel'
    BY <1>1 DEF NoEmptyChannel
  <1>6. InvitesOutside'
    BY <1>1 DEF ChanInv, InvitesOutside, ChanType
  <1>7. StatusLeavesToo'
    BY <1>1 DEF ChanInv, StatusLeavesToo, ChanType
  <1> QED
    BY <1>1, <1>3, <1>4, <1>5, <1>6, <1>7 DEF ChanInv

\* Without ghosts, leaving every channel of its list takes u out of all.
LEMMA LeaveAll ==
  ASSUME IInv, NEW u \in Users, LeaveChannel(u, Listed(u))
  PROVE  /\ ChanInv'
         /\ \A c \in Chans : members'[c] \subseteq members[c]
         /\ NoGhost => /\ MembershipSymmetric'
                       /\ \A c \in Chans : members'[c] = members[c] \ {u}
  <1>1. Listed(u) \in SUBSET Chans
    BY DEF Listed
  <1>2. /\ ChanInv'
        /\ MembershipSymmetric => MembershipSymmetric'
        /\ members' = [c \in Chans |->
                IF c \in Listed(u) THEN members[c] \ {u} ELSE members[c]]
    BY <1>1, LeaveChannelInv DEF IInv
  <1>3. ASSUME NoGhost PROVE \A c \in Chans : members'[c] = members[c] \ {u}
    <2>1. \A c \in Chans : c \in Listed(u) <=> u \in members[c]
      BY <1>3 DEF Listed, NoGhost, MembershipSymmetric
    <2> QED
      BY <1>2, <2>1 DEF IInv, ChanInv, ChanType
  <1> QED
    BY <1>2, <1>3 DEF NoGhost

\* QUIT leaves every channel too, although it empties the list by itself.
LEMMA QuitInv ==
  ASSUME IInv, NEW u \in Users, Quit(u)
  PROVE  /\ ChanInv'
         /\ \A c \in Chans : members'[c] \subseteq members[c]
         /\ NoGhost => MembershipSymmetric'
  <1>1. Listed(u) \in SUBSET Chans
    BY DEF Listed
  <1>2. /\ members' = [c \in Chans |->
                IF c \in Listed(u) THEN members[c] \ {u} ELSE members[c]]
        /\ flags' \in [Chans -> [Users -> SUBSET MemberFlags]]
        /\ \A c \in Chans, v \in Users :
                flags'[c][v] = IF c \in Listed(u) /\ v = u THEN {} ELSE flags[c][v]
        /\ \A c \in Chans : invites'[c] \subseteq invites[c]
        /\ channels' = {c \in Chans : members'[c] # {}}
        /\ channels' \subseteq channels
        /\ invites' \in [Chans -> SUBSET Users]
        /\ props' \in [Chans -> Props]
    BY <1>1, RemoveMemberEffect DEF Quit, IInv
  <1>3. \A c \in Chans : members'[c] \subseteq members[c]
    BY <1>2 DEF IInv, ChanInv, ChanType
  <1>4. ChanType'
    BY <1>2 DEF Quit, IInv, ChanInv, ChanType
  <1>5. ASSUME NoGhost PROVE MembershipSymmetric'
    <2>1. \A c \in Chans : c \in Listed(u) <=> u \in members[c]
      BY <1>5 DEF Listed, NoGhost, MembershipSymmetric
    <2>2. \A c \in Chans : members'[c] = members[c] \ {u}
      BY <1>2, <2>1 DEF IInv, ChanInv, ChanType
    <2> QED
      BY <1>5, <2>2 DEF Quit, IInv, ChanInv, ChanType, NoGhost, MembershipSymmetric
  <1>6. NoEmptyChannel' /\ InvitesOutside'
    BY <1>2, <1>3 DEF IInv, ChanInv, NoEmptyChannel, InvitesOutside
  <1>7. StatusLeavesToo'
    BY <1>2 DEF IInv, ChanInv, ChanType, StatusLeavesToo
  <1> QED
    BY <1>3, <1>4, <1>5, <1>6, <1>7 DEF ChanInv

\* JOIN adds one entry to either side and uses the invite up.
LEMMA JoinInv ==
  ASSUME IInv, NEW u \in Users, NEW c \in Chans, NEW key, Join(u, c, key)
  PROVE  IInv'
  <1> USE DEF Join, UseInvite, IInv, ChanInv, ChanType
  <1>1. UserType'
    BY DEF UserType, userVars
  <1>2. ChanType'
    <2>1. flags' \in [Chans -> [Users -> SUBSET MemberFlags]]
      BY DEF MemberFlags
    <2>2. joined' \in [Users -> [Chans -> Nat]]
      OBVIOUS
    <2> QED
      BY <2>1, <2>2
  <1>3. \A d \in Chans : members'[d] = IF d = c THEN members[c] \cup {u} ELSE members[d]
    OBVIOUS
  <1>4. NoGhost => MembershipSymmetric'
    BY <1>3 DEF NoGhost, MembershipSymmetric
  <1>5. NoEmptyChannel'
    BY <1>3 DEF NoEmptyChannel
  <1>6. InvitesOutside'
    BY <1>3 DEF InvitesOutside
  <1>7. StatusLeavesToo'
    BY <1>3 DEF StatusLeavesToo
  <1>8. NoGhost => MembersIntroduced' /\ doomed' \cap intro' = {}
    BY <1>3 DEF NoGhost, MembersIntroduced, Commands, userVars
  <1> QED
    BY <1>1, <1>2, <1>4, <1>5, <1>6, <1>7, <1>8 DEF NoGhost

\* INVITE adds to an invite list and touches nothing else.
LEMMA InviteInv ==
  ASSUME IInv, NEW u \in Users, NEW v \in Users, NEW c \in Chans, Invite(u, v, c)
  PROVE  IInv'
  <1> USE DEF Invite, IInv, ChanInv, ChanType, userVars
  <1>1. UserType' /\ ChanType'
    BY DEF UserType
  <1>2. NoGhost => NoGhost'
    BY DEF NoGhost, MembersIntroduced, MembershipSymmetric
  <1>3. NoEmptyChannel' /\ StatusLeavesToo'
    BY DEF NoEmptyChannel, StatusLeavesToo
  <1>4. InvitesOutside'
    BY DEF InvitesOutside
  <1> QED
    BY <1>1, <1>2, <1>3, <1>4

\* Leaving one channel, by PART or KICK.
LEMMA LeaveOneInv ==
  ASSUME IInv, NEW u \in Users, NEW C \in SUBSET Chans,
         LeaveChannel(u, C), UNCHANGED userVars
  PROVE  IInv'
  <1>1. /\ ChanInv'
        /\ MembershipSymmetric => MembershipSymmetric'
        /\ members' = [c \in Chans |->
                IF c \in C THEN members[c] \ {u} ELSE members[c]]
    BY LeaveChannelInv DEF IInv
  <1>2. UserType'
    BY DEF IInv, UserType, userVars
  <1>3. NoGhost => NoGhost'
    BY <1>1 DEF IInv, NoGhost, MembersIntroduced, userVars, ChanInv, ChanType
  <1> QED
    BY <1>1, <1>2, <1>3 DEF IInv

\* An end of a user's stay that keeps the object: KILL, QUIT, a full queue.
LEMMA DropInv ==
  ASSUME IInv, NEW v \in Users, Drop(v)
  PROVE  IInv'
  <1>1. /\ ChanInv'
        /\ \A c \in Chans : members'[c] \subseteq members[c]
        /\ NoGhost => MembershipSymmetric'
    BY LeaveAll DEF Drop
  <1>2. UserType'
    BY DEF Drop, Shut, IInv, UserType
  <1>3. NoGhost => NoGhost'
    BY <1>1 DEF Drop, NoGhost, MembersIntroduced
  <1> QED
    BY <1>1, <1>2, <1>3 DEF IInv

\* The report of a dead socket: without ghosts, what is deleted or deferred is
\* in no channel.
LEMMA RemoveConnectionInv ==
  ASSUME IInv, NEW u \in Users, u \in live, RemoveConnection(u)
  PROVE  IInv'
  <1>1. /\ ChanInv'
        /\ NoGhost => /\ MembershipSymmetric'
                      /\ \A c \in Chans : members'[c] = members[c] \ {u}
    BY LeaveAll DEF RemoveConnection
  <1>2. UserType'
    BY DEF RemoveConnection, Delete, IInv, UserType
  <1>3. NoGhost => NoGhost'
    BY <1>1 DEF RemoveConnection, Delete, NoGhost, MembersIntroduced
  <1> QED
    BY <1>1, <1>2, <1>3 DEF IInv

\* The deletion of a doomed user, which leaves no channel.
LEMMA DestroyDoomedInv ==
  ASSUME IInv, NEW u \in Users, DestroyDoomed(u)
  PROVE  IInv'
  <1>1. UserType'
    BY DEF DestroyDoomed, Delete, IInv, UserType
  <1>2. ChanInv'
    BY DEF DestroyDoomed, IInv, ChanInv, ChanType, NoEmptyChannel,
        InvitesOutside, StatusLeavesToo
  <1>3. ASSUME NoGhost PROVE NoGhost'
    <2>1. \A c \in Chans : u \notin members[c]
      BY <1>3 DEF DestroyDoomed, NoGhost, MembersIntroduced
    <2>2. MembershipSymmetric'
      BY <1>3, <2>1 DEF DestroyDoomed, NoGhost, MembershipSymmetric, IInv,
            ChanInv, ChanType
    <2>3. MembersIntroduced' /\ doomed' \cap intro' = {}
      BY <1>3, <2>1 DEF DestroyDoomed, Delete, NoGhost, MembersIntroduced
    <2> QED
      BY <2>2, <2>3 DEF NoGhost
  <1> QED
    BY <1>1, <1>2, <1>3 DEF IInv

\* A new user at an address that, without ghosts, no Member entry points to.
LEMMA AddConnectionInv ==
  ASSUME IInv, NEW u \in Users, AddConnection(u)
  PROVE  IInv'
  <1> USE DEF AddConnection
  <1>1. UserType'
    BY DEF IInv, UserType
  <1>2. ChanInv'
    BY DEF IInv, ChanInv, ChanType, NoEmptyChannel, InvitesOutside,
        StatusLeavesToo
  <1>3. ASSUME NoGhost PROVE NoGhost'
    <2>1. \A c \in Chans : u \notin members[c]
      BY <1>3 DEF IInv, UserType, NoGhost, MembersIntroduced
    <2>2. MembershipSymmetric'
      BY <1>3, <2>1 DEF NoGhost, MembershipSymmetric, IInv, ChanInv, ChanType
    <2>3. MembersIntroduced' /\ doomed' \cap intro' = {}
      BY <1>3 DEF NoGhost, MembersIntroduced
    <2> QED
      BY <2>2, <2>3 DEF NoGhost
  <1> QED
    BY <1>1, <1>2, <1>3 DEF IInv

\* Everything that happens to a user's object or empties its list.
LEMMA UserStepInv ==
  ASSUME IInv, UserStep
  PROVE  IInv'
  <1> PICK u \in Users :
        \/ AddConnection(u) \/ Introduce(u)
        \/ Exit(u) \/ Drop(u) \/ LinkError(u) \/ CloseReported(u)
        \/ DestroyDoomed(u)
        \/ Oper(u) \/ Deoper(u) \/ Quit(u) \/ JoinZero(u)
        \/ \E v \in Users : Kill(u, v)
    BY DEF UserStep
  <1>1. ASSUME UNCHANGED chanVars
        PROVE  /\ ChanInv'
               /\ MembershipSymmetric => MembershipSymmetric'
    BY <1>1 DEF chanVars, IInv, ChanInv, ChanType, MembershipSymmetric,
          NoEmptyChannel, InvitesOutside, StatusLeavesToo
  <1>2. CASE Introduce(u)
    <2>1. NoGhost /\ ~IdentCheck => NoGhost'
      BY <1>1, <1>2 DEF Introduce, NoGhost, MembersIntroduced, chanVars
    <2> QED
      BY <1>1, <1>2, <2>1 DEF Introduce, IInv, UserType
  <1>3. CASE Exit(u)
    BY <1>1, <1>3 DEF Exit, Shut, IInv, UserType, NoGhost, MembersIntroduced,
          chanVars
  <1>4. CASE Oper(u) \/ Deoper(u)
    BY <1>1, <1>4 DEF Oper, Deoper, Commands, IInv, UserType, NoGhost,
          MembersIntroduced, chanVars
  <1>5. CASE Quit(u)
    <2>1. /\ ChanInv'
          /\ \A c \in Chans : members'[c] \subseteq members[c]
          /\ NoGhost => MembershipSymmetric'
      BY <1>5, QuitInv
    <2>2. UserType'
      BY <1>5 DEF Quit, Shut, Commands, IInv, UserType
    <2>3. NoGhost => NoGhost'
      BY <1>5, <2>1 DEF Quit, NoGhost, MembersIntroduced
    <2> QED
      BY <2>1, <2>2, <2>3 DEF IInv
  <1>6. CASE JoinZero(u)
    BY <1>6, LeaveOneInv DEF JoinZero, Listed
  <1>7. CASE LinkError(u) \/ CloseReported(u)
    BY <1>7, RemoveConnectionInv DEF LinkError, CloseReported, IInv, UserType
  <1>8. CASE Drop(u) \/ \E v \in Users : Kill(u, v)
    BY <1>8, DropInv DEF Kill
  <1> QED
    BY <1>2, <1>3, <1>4, <1>5, <1>6, <1>7, <1>8, AddConnectionInv,
        DestroyDoomedInv

\* Joins, parts and kicks.
LEMMA ChannelStepInv ==
  ASSUME IInv, ChannelStep
  PROVE  IInv'
  <1> PICK u \in Users, c \in Chans :
        \/ \E key \in Keys \cup {NoKey} : Join(u, c, key)
        \/ Part(u, c)
        \/ \E v \in Users : Kick(u, c, v)
    BY DEF ChannelStep
  <1>1. CASE \E key \in Keys \cup {NoKey} : Join(u, c, key)
    BY <1>1, JoinInv
  <1>2. CASE Part(u, c)
    BY <1>2, LeaveOneInv DEF Part
  <1>3. CASE \E v \in Users : Kick(u, c, v)
    BY <1>3, LeaveOneInv DEF Kick
  <1> QED
    BY <1>1, <1>2, <1>3

\* Everything MODE does to a channel besides member status.
ModeProps(u, c) ==
    \/ ModeInviteOnly(u, c) \/ ModeNotInviteOnly(u, c)
    \/ \E key \in Keys \cup {NoKey} : ModeKey(u, c, key)
    \/ ModeNoKey(u, c)
    \/ \E n \in Limits : ModeLimit(u, c, n)
    \/ ModeBadLimit(u, c) \/ ModeNoLimit(u, c)
    \/ \E m \in Masks, add \in BOOLEAN : ModeBan(u, c, m, add)

\* Writing a channel's modes, or modes and one parameter, or its ban list.
LEMMA PropsModes ==
  ASSUME NEW p \in Props, NEW x \in JoinModes
  PROVE  /\ [p EXCEPT !.modes = @ \cup {x}] \in Props
         /\ [p EXCEPT !.modes = @ \ {x}] \in Props
  BY DEF Props

\* The same with the key.
LEMMA PropsKey ==
  ASSUME NEW p \in Props, NEW x \in JoinModes, NEW key \in Keys \cup {NoKey}
  PROVE  /\ [p EXCEPT !.modes = @ \cup {x}, !.key = key] \in Props
         /\ [p EXCEPT !.modes = @ \ {x}, !.key = key] \in Props
  BY DEF Props

\* The same with the limit.
LEMMA PropsLimit ==
  ASSUME NEW p \in Props, NEW x \in JoinModes, NEW n \in Limits \cup {0}
  PROVE  /\ [p EXCEPT !.modes = @ \cup {x}, !.limit = n] \in Props
         /\ [p EXCEPT !.modes = @ \ {x}, !.limit = n] \in Props
  BY DEF Props

\* A ban set or lifted.
LEMMA PropsBans ==
  ASSUME NEW p \in Props, NEW m \in Masks, NEW add \in BOOLEAN
  PROVE  [p EXCEPT !.bans = IF add THEN @ \cup {m} ELSE @ \ {m}] \in Props
  <1>1. CASE add = TRUE
    BY <1>1 DEF Props
  <1>2. CASE add = FALSE
    BY <1>2 DEF Props
  <1> QED
    BY <1>1, <1>2

\* Each channel MODE writes well-typed properties of its one channel.
LEMMA ModePropsValue ==
  ASSUME IInv, NEW u \in Users, NEW c \in Chans, ModeProps(u, c)
  PROVE  \E p \in Props : SetProps(c, p)
  <1>1. props[c] \in Props
    BY DEF IInv, ChanInv, ChanType
  <1>2. "i" \in JoinModes /\ "k" \in JoinModes /\ "l" \in JoinModes
    BY DEF JoinModes
  <1>3. CASE ModeInviteOnly(u, c)
    <2>1. [props[c] EXCEPT !.modes = @ \cup {"i"}] \in Props
      BY <1>1, <1>2, PropsModes
    <2> QED
      BY <1>3, <2>1 DEF ModeInviteOnly
  <1>4. CASE ModeNotInviteOnly(u, c)
    <2>1. [props[c] EXCEPT !.modes = @ \ {"i"}] \in Props
      BY <1>1, <1>2, PropsModes
    <2> QED
      BY <1>4, <2>1 DEF ModeNotInviteOnly
  <1>5. CASE \E key \in Keys \cup {NoKey} : ModeKey(u, c, key)
    <2> PICK key \in Keys \cup {NoKey} : ModeKey(u, c, key)
      BY <1>5
    <2>1. [props[c] EXCEPT !.modes = @ \cup {"k"}, !.key = key] \in Props
      BY <1>1, <1>2, PropsKey
    <2> QED
      BY <2>1 DEF ModeKey
  <1>6. CASE ModeNoKey(u, c)
    <2>1. [props[c] EXCEPT !.modes = @ \ {"k"}, !.key = NoKey] \in Props
      BY <1>1, <1>2, PropsKey
    <2> QED
      BY <1>6, <2>1 DEF ModeNoKey
  <1>7. CASE \E n \in Limits : ModeLimit(u, c, n)
    <2> PICK n \in Limits : ModeLimit(u, c, n)
      BY <1>7
    <2>1. [props[c] EXCEPT !.modes = @ \cup {"l"}, !.limit = n] \in Props
      BY <1>1, <1>2, PropsLimit
    <2> QED
      BY <2>1 DEF ModeLimit
  <1>8. CASE ModeBadLimit(u, c)
    <2>1. [props[c] EXCEPT !.modes = @ \cup {"l"}] \in Props
      BY <1>1, <1>2, PropsModes
    <2> QED
      BY <1>8, <2>1 DEF ModeBadLimit
  <1>9. CASE ModeNoLimit(u, c)
    <2>1. [props[c] EXCEPT !.modes = @ \ {"l"}, !.limit = 0] \in Props
      BY <1>1, <1>2, PropsLimit
    <2> QED
      BY <1>9, <2>1 DEF ModeNoLimit
  <1>10. CASE \E m \in Masks, add \in BOOLEAN : ModeBan(u, c, m, add)
    <2> PICK m \in Masks, add \in BOOLEAN : ModeBan(u, c, m, add)
      BY <1>10
    <2>1. [props[c] EXCEPT !.bans = IF add THEN @ \cup {m} ELSE @ \ {m}] \in Props
      BY <1>1, PropsBans
    <2> QED
      BY <2>1 DEF ModeBan
  <1> QED
    BY <1>3, <1>4, <1>5, <1>6, <1>7, <1>8, <1>9, <1>10 DEF ModeProps

\* The channel modes, key, limit and bans keep their type, and nothing but
\* the invite list changes with them.
LEMMA ModePropsEffect ==
  ASSUME IInv, NEW u \in Users, NEW c \in Chans, ModeProps(u, c)
  PROVE  /\ props' \in [Chans -> Props]
         /\ invites' \in [Chans -> SUBSET Users]
         /\ \A d \in Chans : invites'[d] \subseteq invites[d]
         /\ UNCHANGED <<userVars, joined, channels, members, flags>>
         /\ \A d \in Chans : d # c => props'[d] = props[d]
         /\ \E l \in Letters : MayChange(u, c, l) /\ l # "v"
  <1>1. /\ props' \in [Chans -> Props]
        /\ \A d \in Chans : d # c => props'[d] = props[d]
    BY ModePropsValue DEF IInv, ChanInv, ChanType, SetProps
  <1>2. /\ invites' \in [Chans -> SUBSET Users]
        /\ \A d \in Chans : invites'[d] \subseteq invites[d]
        /\ UNCHANGED <<userVars, joined, channels, members, flags>>
    BY DEF ModeProps, ModeInviteOnly, ModeNotInviteOnly, ModeKey, ModeNoKey,
        ModeLimit, ModeBadLimit, ModeNoLimit, ModeBan, IInv, ChanInv, ChanType
  <1>3. \E l \in Letters : MayChange(u, c, l) /\ l # "v"
    BY DEF ModeProps, ModeInviteOnly, ModeNotInviteOnly, ModeKey, ModeNoKey,
        ModeLimit, ModeBadLimit, ModeNoLimit, ModeBan, MayChange
  <1> QED
    BY <1>1, <1>2, <1>3

\* A change of a member's status.
LEMMA ModeMemberInv ==
  ASSUME IInv, NEW u \in Users, NEW c \in Chans, NEW l \in MemberFlags,
         NEW v \in Users, NEW add \in BOOLEAN, ModeMember(u, c, l, v, add)
  PROVE  IInv'
  <1> USE DEF ModeMember, IInv, ChanInv, ChanType, userVars
  <1>1. UserType' /\ ChanType'
    BY DEF UserType
  <1>2. NoGhost => NoGhost'
    BY DEF NoGhost, MembersIntroduced, MembershipSymmetric
  <1>3. NoEmptyChannel' /\ InvitesOutside'
    BY DEF NoEmptyChannel, InvitesOutside
  <1>4. StatusLeavesToo'
    BY DEF StatusLeavesToo
  <1> QED
    BY <1>1, <1>2, <1>3, <1>4

\* A MODE step is about one channel and either one member's status or the
\* channel's own properties.
LEMMA ModeStepSplit ==
  ASSUME ModeStep
  PROVE  \E u \in Users, c \in Chans :
            \/ ModeProps(u, c)
            \/ \E l \in MemberFlags, v \in Users, add \in BOOLEAN :
                  ModeMember(u, c, l, v, add)
  BY DEF ModeStep, ModeProps

\* MODE on a channel.
LEMMA ModeStepInv ==
  ASSUME IInv, ModeStep
  PROVE  IInv'
  <1> PICK u \in Users, c \in Chans :
        \/ ModeProps(u, c)
        \/ \E l \in MemberFlags, v \in Users, add \in BOOLEAN :
              ModeMember(u, c, l, v, add)
    BY ModeStepSplit
  <1>1. CASE ModeProps(u, c)
    <2>1. /\ props' \in [Chans -> Props]
          /\ invites' \in [Chans -> SUBSET Users]
          /\ \A d \in Chans : invites'[d] \subseteq invites[d]
          /\ UNCHANGED <<userVars, joined, channels, members, flags>>
      BY <1>1, ModePropsEffect
    <2>2. UserType' /\ ChanType'
      BY <2>1 DEF IInv, ChanInv, ChanType, UserType, userVars
    <2>3. NoGhost => NoGhost'
      BY <2>1 DEF NoGhost, MembersIntroduced, MembershipSymmetric, userVars
    <2>4. NoEmptyChannel' /\ StatusLeavesToo'
      BY <2>1 DEF IInv, ChanInv, NoEmptyChannel, StatusLeavesToo
    <2>5. InvitesOutside'
      BY <2>1 DEF IInv, ChanInv, InvitesOutside
    <2> QED
      BY <2>2, <2>3, <2>4, <2>5 DEF IInv, ChanInv
  <1>2. CASE \E l \in MemberFlags, v \in Users, add \in BOOLEAN :
                ModeMember(u, c, l, v, add)
    BY <1>2, ModeMemberInv
  <1> QED
    BY <1>1, <1>2

-----------------------------------------------------------------------------

\* The server starts without users and channels.
LEMMA InitInv == Init => IInv
  <1> SUFFICES ASSUME Init PROVE IInv
    OBVIOUS
  <1> USE DEF Init
  <1>1. UserType
    BY DEF UserType
  <1>2. ChanType
    BY NewPropsType DEF ChanType
  <1>3. NoEmptyChannel /\ InvitesOutside /\ StatusLeavesToo
    BY DEF NoEmptyChannel, InvitesOutside, StatusLeavesToo
  <1>4. NoGhost
    BY DEF NoGhost, MembershipSymmetric, MembersIntroduced
  <1> QED
    BY <1>1, <1>2, <1>3, <1>4 DEF IInv, ChanInv

\* Every step preserves the invariant.
LEMMA NextInv == IInv /\ [Next]_vars => IInv'
  <1> SUFFICES ASSUME IInv, [Next]_vars PROVE IInv'
    OBVIOUS
  <1>1. CASE UserStep
    BY <1>1, UserStepInv
  <1>2. CASE ChannelStep
    BY <1>2, ChannelStepInv
  <1>3. CASE InviteStep
    BY <1>3, InviteInv DEF InviteStep
  <1>4. CASE ModeStep
    BY <1>4, ModeStepInv
  <1>5. CASE UNCHANGED vars
    BY <1>5 DEF vars, IInv, UserType, ChanInv, ChanType, NoGhost,
          MembersIntroduced, MembershipSymmetric, NoEmptyChannel,
          InvitesOutside, StatusLeavesToo
  <1> QED
    BY <1>1, <1>2, <1>3, <1>4, <1>5 DEF Next

\* The inductive invariant holds in every reachable state.
THEOREM Inductive == Spec => []IInv
  BY InitInv, NextInv, PTL DEF Spec

\* Type correctness, for any users, channels and parameters.
THEOREM TypeCorrect == Spec => []TypeOK
  <1>1. IInv => TypeOK
    BY DEF IInv, UserType, ChanInv, ChanType, TypeOK
  <1> QED
    BY <1>1, Inductive, PTL

\* Without ident lookups the two directions of the membership agree whatever
\* the order of closes, reports, deferred deletions and queued commands, so
\* the leave loops of user.cpp end.
THEOREM Symmetric == ASSUME ~IdentCheck PROVE Spec => []MembershipSymmetric
  <1>1. IInv => MembershipSymmetric
    BY DEF IInv, NoGhost
  <1> QED
    BY <1>1, Inductive, PTL

\* Channels exist exactly while they have members.
THEOREM NoEmpty == Spec => []NoEmptyChannel
  <1>1. IInv => NoEmptyChannel
    BY DEF IInv, ChanInv
  <1> QED
    BY <1>1, Inductive, PTL

\* Without ident lookups no Member entry outlives the user it points to.
THEOREM NoDanglingMember == ASSUME ~IdentCheck PROVE Spec => []MembersIntroduced
  <1>1. IInv => MembersIntroduced
    BY DEF IInv, NoGhost
  <1> QED
    BY <1>1, Inductive, PTL

\* A pending invite is never one of a member, and status never outlives the
\* membership it came with.
THEOREM NothingStale == Spec => [](InvitesOutside /\ StatusLeavesToo)
  <1>1. IInv => InvitesOutside /\ StatusLeavesToo
    BY DEF IInv, ChanInv
  <1> QED
    BY <1>1, Inductive, PTL

-----------------------------------------------------------------------------

\* Taking a member out changes neither the properties of a channel that
\* survives nor the status of anybody who stays.
LEMMA RemoveMemberPrivileged ==
  ASSUME IInv, NEW u \in Users, NEW C \in SUBSET Chans, RemoveMember(u, C)
  PROVE  PrivilegedChange
  <1>1. /\ members' = [c \in Chans |->
                IF c \in C THEN members[c] \ {u} ELSE members[c]]
        /\ \A c \in Chans, v \in Users :
                flags'[c][v] = IF c \in C /\ v = u THEN {} ELSE flags[c][v]
    BY RemoveMemberEffect DEF IInv
  <1>2. ASSUME NEW c \in channels \cap channels' PROVE props'[c] = props[c]
    BY <1>2 DEF RemoveMember, IInv, ChanInv, ChanType
  <1>3. ASSUME NEW c \in channels \cap channels', NEW v \in members'[c]
        PROVE  flags'[c][v] = flags[c][v]
    BY <1>1, <1>3 DEF IInv, ChanInv, ChanType
  <1> QED
    BY <1>2, <1>3 DEF PrivilegedChange

\* No end of a user's stay changes a surviving channel or who stays in it.
LEMMA UserStepPrivileged ==
  ASSUME IInv, UserStep
  PROVE  PrivilegedChange
  <1>1. ASSUME UNCHANGED chanVars PROVE PrivilegedChange
    BY <1>1 DEF chanVars, PrivilegedChange
  <1>2. ASSUME NEW u \in Users, LeaveChannel(u, Listed(u)) PROVE PrivilegedChange
    BY <1>2, RemoveMemberPrivileged DEF LeaveChannel, Listed
  <1>3. ASSUME NEW u \in Users, AddConnection(u) PROVE PrivilegedChange
    BY <1>3 DEF AddConnection, PrivilegedChange
  <1>4. ASSUME NEW u \in Users, Quit(u) PROVE PrivilegedChange
    BY <1>4, RemoveMemberPrivileged DEF Quit, Listed
  <1>5. ASSUME NEW u \in Users, DestroyDoomed(u) PROVE PrivilegedChange
    BY <1>5 DEF DestroyDoomed, PrivilegedChange
  <1> QED
    BY <1>1, <1>2, <1>3, <1>4, <1>5 DEF UserStep, Introduce, Exit, Drop, LinkError,
        CloseReported, RemoveConnection, Oper, Deoper, JoinZero, Kill, chanVars

\* Nor does a join, a part or a kick.
LEMMA ChannelStepPrivileged ==
  ASSUME IInv, ChannelStep
  PROVE  PrivilegedChange
  <1>1. ASSUME NEW u \in Users, NEW c \in Chans, NEW key, Join(u, c, key)
        PROVE  PrivilegedChange
    <2>1. flags[c][u] = {}
      BY <1>1 DEF Join, IInv, ChanInv, StatusLeavesToo
    <2>2. ASSUME NEW d \in channels \cap channels', NEW v \in members'[d]
          PROVE  flags'[d][v] = flags[d][v]
      BY <1>1, <2>1, <2>2 DEF Join, IInv, ChanInv, ChanType
    <2> QED
      BY <1>1, <2>2 DEF Join, PrivilegedChange
  <1>2. ASSUME NEW u \in Users, NEW c \in Chans, LeaveChannel(u, {c})
        PROVE  PrivilegedChange
    BY <1>2, RemoveMemberPrivileged DEF LeaveChannel
  <1> QED
    BY <1>1, <1>2 DEF ChannelStep, Part, Kick

\* MODE does, for those entitled to it.
LEMMA ModeStepPrivileged ==
  ASSUME IInv, ModeStep
  PROVE  PrivilegedChange
  <1> USE DEF MayChange, Chief, IInv, ChanInv, ChanType
  <1> PICK u \in Users, c \in Chans :
        \/ ModeProps(u, c)
        \/ \E l \in MemberFlags, v \in Users, add \in BOOLEAN :
              ModeMember(u, c, l, v, add)
    BY ModeStepSplit
  <1>1. CASE ModeProps(u, c)
    <2>1. /\ UNCHANGED <<userVars, joined, channels, members, flags>>
          /\ \A d \in Chans : d # c => props'[d] = props[d]
          /\ \E l \in Letters : MayChange(u, c, l) /\ l # "v"
      BY <1>1, ModePropsEffect
    <2>2. Chief(u, c)
      BY <2>1
    <2> QED
      BY <2>1, <2>2 DEF PrivilegedChange
  <1>2. ASSUME NEW l \in MemberFlags, NEW v \in Users, NEW add \in BOOLEAN,
               ModeMember(u, c, l, v, add)
        PROVE  PrivilegedChange
    <2> USE <1>2 DEF ModeMember
    <2>1. UNCHANGED props
      OBVIOUS
    <2>2. ASSUME NEW d \in Chans, NEW w \in Users, d # c \/ w # v
          PROVE  flags'[d][w] = flags[d][w]
      BY <2>2
    <2>3. l # "v" => Chief(u, c)
      OBVIOUS
    <2>4. Chief(u, c) \/ "h" \in flags[c][u]
      OBVIOUS
    <2>5. l = "v" => flags'[c][v] \ {"v"} = flags[c][v] \ {"v"}
      OBVIOUS
    <2>6. u \in members[c]
      OBVIOUS
    <2> QED
      BY <2>1, <2>2, <2>3, <2>4, <2>5, <2>6 DEF PrivilegedChange
  <1> QED
    BY <1>1, <1>2

\* Channel properties and status of those who stay change only while somebody
\* entitled to change them is in the channel.
THEOREM Privileged == Spec => OnlyPrivilegedChange
  <1>1. IInv /\ [Next]_vars => [PrivilegedChange]_vars
    <2> SUFFICES ASSUME IInv, Next PROVE PrivilegedChange
      OBVIOUS
    <2>1. CASE InviteStep
      BY <2>1 DEF InviteStep, Invite, PrivilegedChange
    <2> QED
      BY <2>1, UserStepPrivileged, ChannelStepPrivileged, ModeStepPrivileged
          DEF Next
  <1> QED
    BY <1>1, Inductive, PTL DEF Spec, OnlyPrivilegedChange

-----------------------------------------------------------------------------
(* Channels implements Membership, where no ident lookup can introduce a   *)
(* user that is to be deleted.  The inductive invariant does the work:     *)
(* that a user's list and the member tables agree makes "leave every       *)
(* channel in the list" the abstract step that leaves all, and that nobody *)
(* outside a channel has a status there makes entering one the abstract    *)
(* step.                                                                   *)

\* A pair is in a relation iff the table says so.
LEMMA PairsOf ==
  /\ \A u \in Users, c \in Chans :
        /\ <<u, c>> \in Pairs
        /\ <<u, c>> \in InChannel <=> u \in members[c]
        /\ <<u, c>> \in IsChanOp <=> "o" \in flags[c][u]
  /\ \A p \in Pairs : \E u \in Users, c \in Chans : p = <<u, c>>
  /\ InChannel \subseteq Pairs /\ IsChanOp \subseteq Pairs
  BY DEF Pairs, InChannel, IsChanOp

\* The same of the next state.
LEMMA PairsOfNext ==
  /\ \A u \in Users, c \in Chans :
        /\ <<u, c>> \in InChannel' <=> u \in members'[c]
        /\ <<u, c>> \in IsChanOp' <=> "o" \in flags'[c][u]
  /\ InChannel' \subseteq Pairs /\ IsChanOp' \subseteq Pairs
  BY DEF Pairs, InChannel, IsChanOp

\* Two relations with the same pairs are the same.
LEMMA SamePairs ==
  ASSUME NEW R, NEW S, R \subseteq Pairs, S \subseteq Pairs,
         \A u \in Users, c \in Chans : <<u, c>> \in R <=> <<u, c>> \in S
  PROVE  R = S
  BY PairsOf

\* Channels where the tables hold somebody are the inhabited names.
LEMMA InhabitedNext ==
  ASSUME \A c \in Chans : members'[c] \subseteq Users,
         channels' = {c \in Chans : members'[c] # {}}
  PROVE  channels' = Abstract!Inhabited(InChannel')
  BY PairsOfNext DEF Abstract!Inhabited

\* Tables that lost u from the channels of C are relations that lost {u} \X C.
LEMMA Leaves ==
  ASSUME NEW u \in Users, NEW C \in SUBSET Chans,
         \A c \in Chans : members'[c] = IF c \in C THEN members[c] \ {u}
                                                   ELSE members[c],
         \A c \in Chans, v \in Users :
            flags'[c][v] = IF c \in C /\ v = u THEN {} ELSE flags[c][v]
  PROVE  /\ InChannel' = InChannel \ ({u} \X C)
         /\ IsChanOp' = IsChanOp \ ({u} \X C)
  <1> DEFINE R == InChannel \ ({u} \X C)
  <1> DEFINE S == IsChanOp \ ({u} \X C)
  <1>1. \A v \in Users, c \in Chans : <<v, c>> \in InChannel' <=> <<v, c>> \in R
    BY PairsOf, PairsOfNext
  <1>2. ASSUME NEW v \in Users, NEW c \in Chans
        PROVE  <<v, c>> \in IsChanOp' <=> <<v, c>> \in S
    <2>1. <<v, c>> \in IsChanOp' <=> "o" \in flags[c][v] /\ ~(c \in C /\ v = u)
      BY PairsOfNext
    <2>2. <<v, c>> \in {u} \X C <=> v = u /\ c \in C
      OBVIOUS
    <2> QED
      BY <2>1, <2>2, PairsOf
  <1>3. R \subseteq Pairs /\ S \subseteq Pairs
    BY PairsOf
  <1>4. InChannel' \subseteq Pairs /\ IsChanOp' \subseteq Pairs
    BY PairsOfNext
  <1> HIDE DEF R, S
  <1>5. InChannel' = R
    BY <1>1, <1>3, <1>4, SamePairs
  <1>6. IsChanOp' = S
    BY <1>2, <1>3, <1>4, SamePairs
  <1> QED
    BY <1>5, <1>6 DEF R, S

\* removeMember and the deletions that follow it are an abstract leave, as
\* long as nobody comes or goes.
LEMMA RemoveIsLeave ==
  ASSUME ChanInv, NEW u \in Users, NEW C \in SUBSET Chans, RemoveMember(u, C),
         intro' = intro
  PROVE  Abstract!Next
  <1>1. /\ members' = [c \in Chans |->
                IF c \in C THEN members[c] \ {u} ELSE members[c]]
        /\ \A c \in Chans, v \in Users :
                flags'[c][v] = IF c \in C /\ v = u THEN {} ELSE flags[c][v]
        /\ channels' = {c \in Chans : members'[c] # {}}
    BY RemoveMemberEffect
  <1>2. InChannel' = InChannel \ ({u} \X C) /\ IsChanOp' = IsChanOp \ ({u} \X C)
    BY <1>1, Leaves
  <1>3. \A c \in Chans : members'[c] \subseteq Users
    BY <1>1 DEF ChanInv, ChanType
  <1>4. channels' = Abstract!Inhabited(InChannel')
    BY <1>1, <1>3, InhabitedNext
  <1>5. Abstract!LeaveSome(u, C)
    BY <1>2, <1>4 DEF Abstract!LeaveSome
  <1> QED
    BY <1>5 DEF Abstract!Next

\* The report of a dead socket takes an introduced user out of everything.
LEMMA RemoveConnectionImplements ==
  ASSUME IInv, ~IdentCheck, NEW u \in Users, RemoveConnection(u)
  PROVE  Abstract!Next
  <1> DEFINE L == Listed(u)
  <1>1. L \in SUBSET Chans /\ RemoveMember(u, L)
    BY DEF Listed, RemoveConnection, LeaveChannel
  <1>2. CASE intro' = intro
    BY <1>1, <1>2, RemoveIsLeave DEF IInv
  <1>3. CASE intro' # intro
    <2>1. u \in intro /\ intro' = intro \ {u}
      BY <1>3 DEF RemoveConnection, Delete
    <2>2. \A c \in Chans : c \in L <=> u \in members[c]
      BY DEF IInv, NoGhost, MembershipSymmetric, Listed
    <2> HIDE DEF L
    <2>3. /\ members' = [c \in Chans |->
                IF c \in L THEN members[c] \ {u} ELSE members[c]]
          /\ \A c \in Chans, v \in Users :
                flags'[c][v] = IF c \in L /\ v = u THEN {} ELSE flags[c][v]
          /\ channels' = {c \in Chans : members'[c] # {}}
      BY <1>1, RemoveMemberEffect DEF IInv
    <2>4. \A c \in Chans : members'[c] = IF c \in Chans THEN members[c] \ {u}
                                                        ELSE members[c]
      BY <2>2, <2>3 DEF IInv, ChanInv, ChanType
    <2>5. \A c \in Chans, v \in Users :
                flags'[c][v] = IF c \in Chans /\ v = u THEN {} ELSE flags[c][v]
      BY <2>2, <2>3 DEF IInv, ChanInv, StatusLeavesToo
    <2>6. /\ InChannel' = InChannel \ ({u} \X Chans)
          /\ IsChanOp' = IsChanOp \ ({u} \X Chans)
      BY <2>4, <2>5, Leaves
    <2>7. \A c \in Chans : members'[c] \subseteq Users
      BY <2>4 DEF IInv, ChanInv, ChanType
    <2>8. channels' = Abstract!Inhabited(InChannel')
      BY <2>3, <2>7, InhabitedNext
    <2>9. Abstract!Go(u)
      BY <2>1, <2>6, <2>8 DEF Abstract!Go
    <2> QED
      BY <2>9 DEF Abstract!Next
  <1> QED
    BY <1>2, <1>3

\* What leaves the tables alone is no step of the relation.
LEMMA TablesUnchanged ==
  ASSUME UNCHANGED <<intro, channels, members, flags>>
  PROVE  UNCHANGED Abstract!mvars
  BY DEF Abstract!mvars, InChannel, IsChanOp

\* JOIN is an abstract entry: whoever was outside had no status there.
LEMMA JoinImplements ==
  ASSUME IInv, NEW u \in Users, NEW c \in Chans, NEW key, Join(u, c, key)
  PROVE  Abstract!Next
  <1> DEFINE S == IF c \in channels THEN IsChanOp ELSE IsChanOp \cup {<<u, c>>}
  <1>1. flags[c][u] = {}
    BY DEF Join, IInv, ChanInv, StatusLeavesToo
  <1>2. \A v \in Users, d \in Chans :
            <<v, d>> \in InChannel' <=> <<v, d>> \in InChannel \cup {<<u, c>>}
    BY PairsOf, PairsOfNext DEF Join, IInv, ChanInv, ChanType
  <1>3. ASSUME NEW v \in Users, NEW d \in Chans
        PROVE  <<v, d>> \in IsChanOp' <=> <<v, d>> \in S
    <2>1. <<v, d>> \in IsChanOp' <=> "o" \in flags'[d][v]
      BY PairsOfNext
    <2>2. flags'[d][v] = IF d = c /\ v = u
                         THEN IF c \in channels THEN {} ELSE {"o"}
                         ELSE flags[d][v]
      BY DEF Join, IInv, ChanInv, ChanType
    <2>3. CASE c \in channels
      BY <1>1, <2>1, <2>2, <2>3, PairsOf
    <2>4. CASE c \notin channels
      BY <1>1, <2>1, <2>2, <2>4, PairsOf
    <2> QED
      BY <2>3, <2>4
  <1>4. InChannel \cup {<<u, c>>} \subseteq Pairs /\ S \subseteq Pairs
    BY PairsOf
  <1> HIDE DEF S
  <1>5. InChannel' \subseteq Pairs /\ IsChanOp' \subseteq Pairs
    BY PairsOfNext
  <1>6. InChannel' = InChannel \cup {<<u, c>>}
    BY <1>2, <1>4, <1>5, SamePairs
  <1>7. IsChanOp' = S
    BY <1>3, <1>4, <1>5, SamePairs
  <1>8. /\ u \in intro /\ <<u, c>> \notin InChannel
        /\ channels' = channels \cup {c} /\ intro' = intro
    BY PairsOf DEF Join, Commands, userVars
  <1>9. Abstract!Enter(u, c)
    BY <1>6, <1>7, <1>8 DEF Abstract!Enter, S
  <1> QED
    BY <1>9 DEF Abstract!Next

\* A change of a member's flags sets or clears its operator status.
LEMMA ModeMemberImplements ==
  ASSUME IInv, NEW u \in Users, NEW c \in Chans, NEW l \in MemberFlags,
         NEW v \in Users, NEW add \in BOOLEAN, ModeMember(u, c, l, v, add)
  PROVE  Abstract!Next
  <1> USE DEF ModeMember
  <1>1. \A w \in Users, d \in Chans :
            <<w, d>> \in InChannel' <=> <<w, d>> \in InChannel
    BY PairsOf, PairsOfNext
  <1>2. InChannel' = InChannel
    BY <1>1, SamePairs, PairsOf, PairsOfNext
  <1>3. \A w \in Users, d \in Chans : w # v \/ d # c =>
            (<<w, d>> \in IsChanOp' <=> <<w, d>> \in IsChanOp)
    BY PairsOf, PairsOfNext DEF IInv, ChanInv, ChanType
  <1>4. CASE <<v, c>> \in IsChanOp'
    <2>1. \A w \in Users, d \in Chans :
            <<w, d>> \in IsChanOp' <=> <<w, d>> \in IsChanOp \cup {<<v, c>>}
      BY <1>3, <1>4
    <2>2. IsChanOp' = IsChanOp \cup {<<v, c>>}
      BY <2>1, SamePairs, PairsOf, PairsOfNext
    <2> QED
      BY <1>2, <2>2, PairsOf DEF Abstract!SetStatus, Abstract!Next, userVars
  <1>5. CASE <<v, c>> \notin IsChanOp'
    <2>1. \A w \in Users, d \in Chans :
            <<w, d>> \in IsChanOp' <=> <<w, d>> \in IsChanOp \ {<<v, c>>}
      BY <1>3, <1>5
    <2>2. IsChanOp' = IsChanOp \ {<<v, c>>}
      BY <2>1, SamePairs, PairsOf, PairsOfNext
    <2> QED
      BY <1>2, <2>2, PairsOf DEF Abstract!SetStatus, Abstract!Next, userVars
  <1> QED
    BY <1>4, <1>5

\* Every end of a user's stay, and its beginning.
LEMMA UserStepImplements ==
  ASSUME IInv, ~IdentCheck, UserStep
  PROVE  [Abstract!Next]_(Abstract!mvars)
  <1> PICK u \in Users :
        \/ AddConnection(u) \/ Introduce(u)
        \/ Exit(u) \/ Drop(u) \/ LinkError(u) \/ CloseReported(u)
        \/ DestroyDoomed(u)
        \/ Oper(u) \/ Deoper(u) \/ Quit(u) \/ JoinZero(u)
        \/ \E v \in Users : Kill(u, v)
    BY DEF UserStep
  <1>1. ASSUME NEW v \in Users, RemoveMember(v, Listed(v)), intro' = intro
        PROVE  Abstract!Next
    BY <1>1, RemoveIsLeave DEF Listed, IInv
  <1>2. CASE Introduce(u)
    <2>1. UNCHANGED <<InChannel, IsChanOp, channels>>
      BY <1>2 DEF Introduce, chanVars, InChannel, IsChanOp
    <2>2. Abstract!Come(u)
      BY <1>2, <2>1 DEF Introduce, Abstract!Come
    <2> QED
      BY <2>2 DEF Abstract!Next
  <1>3. CASE AddConnection(u) \/ Exit(u) \/ Oper(u) \/ Deoper(u)
    BY <1>3, TablesUnchanged DEF AddConnection, Exit, Oper, Deoper, chanVars
  <1>4. CASE DestroyDoomed(u)
    <2>1. intro' = intro
      BY <1>4 DEF DestroyDoomed, Delete, IInv, NoGhost
    <2> QED
      BY <1>4, <2>1, TablesUnchanged DEF DestroyDoomed
  <1>5. CASE Drop(u) \/ Quit(u) \/ JoinZero(u) \/ \E v \in Users : Kill(u, v)
    BY <1>1, <1>5 DEF Drop, Quit, JoinZero, Kill, LeaveChannel, userVars
  <1>6. CASE LinkError(u) \/ CloseReported(u)
    BY <1>6, RemoveConnectionImplements DEF LinkError, CloseReported
  <1> QED
    BY <1>2, <1>3, <1>4, <1>5, <1>6

\* Joins, parts and kicks.
LEMMA ChannelStepImplements ==
  ASSUME IInv, ChannelStep
  PROVE  Abstract!Next
  <1> PICK u \in Users, c \in Chans :
        \/ \E key \in Keys \cup {NoKey} : Join(u, c, key)
        \/ Part(u, c)
        \/ \E v \in Users : Kick(u, c, v)
    BY DEF ChannelStep
  <1>1. CASE \E key \in Keys \cup {NoKey} : Join(u, c, key)
    BY <1>1, JoinImplements
  <1>2. CASE Part(u, c) \/ \E v \in Users : Kick(u, c, v)
    BY <1>2, RemoveIsLeave DEF Part, Kick, LeaveChannel, IInv, userVars
  <1> QED
    BY <1>1, <1>2

\* Invites and channel modes.
LEMMA OtherStepImplements ==
  ASSUME IInv, InviteStep \/ ModeStep
  PROVE  [Abstract!Next]_(Abstract!mvars)
  <1>1. CASE InviteStep
    BY <1>1, TablesUnchanged DEF InviteStep, Invite, userVars
  <1>2. CASE ModeStep
    <2> PICK u \in Users, c \in Chans :
          \/ ModeProps(u, c)
          \/ \E l \in MemberFlags, v \in Users, add \in BOOLEAN :
                ModeMember(u, c, l, v, add)
      BY <1>2, ModeStepSplit
    <2>1. CASE ModeProps(u, c)
      BY <2>1, ModePropsEffect, TablesUnchanged DEF userVars
    <2> QED
      BY <2>1, ModeMemberImplements
  <1> QED
    BY <1>1, <1>2

\* Every step of the server is a step or a stutter of the relation.
LEMMA StepImplements ==
  ASSUME ~IdentCheck
  PROVE  IInv /\ [Next]_vars => [Abstract!Next]_(Abstract!mvars)
  <1> SUFFICES ASSUME IInv, [Next]_vars
               PROVE  [Abstract!Next]_(Abstract!mvars)
    OBVIOUS
  <1>1. CASE UNCHANGED vars
    BY <1>1, TablesUnchanged DEF vars
  <1> QED
    BY <1>1, UserStepImplements, ChannelStepImplements, OtherStepImplements
        DEF Next

\* The server starts where the relation starts.
LEMMA InitImplements == Init => Abstract!Init
  BY DEF Init, Abstract!Init, InChannel, IsChanOp, Pairs

\* Without ident lookups the channel tables, kept in two objects and taken
\* apart by several leave paths in two steps, behave as the one relation of
\* Membership, for every order of commands, closes, reports and lookups.
THEOREM Refines == ASSUME ~IdentCheck PROVE Spec => ImplementsMembership
  <1>1. IInv /\ [Next]_vars => [Abstract!Next]_(Abstract!mvars)
    BY StepImplements
  <1>2. Init => Abstract!Init
    BY InitImplements
  <1> QED
    BY <1>1, <1>2, Inductive, PTL DEF Spec, ImplementsMembership, Abstract!Spec
=============================================================================
