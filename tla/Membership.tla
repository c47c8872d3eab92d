----------------------------- MODULE Membership -----------------------------
(***************************************************************************)
(* What the server promises about channels, without how it stores them:    *)
(* one relation between the users present and the names of channels.  A    *)
(* channel is nothing but a name somebody is in.  Whoever comes to a name  *)
(* nobody is in is its operator; whoever comes later is not, until made    *)
(* one; whoever leaves is none any more.  Only users who are present are   *)
(* in a channel, and who goes is out of all of them in the same step.      *)
(*                                                                         *)
(* Channels.tla implements it: several leave paths, a membership stored in *)
(* two objects, channels deleted by hand, users that end in two steps.     *)
(***************************************************************************)
CONSTANTS Users, Chans

VARIABLES
    present,    \* users who are introduced
    rel,        \* who is in which channel
    ops,        \* who is operator of which channel
    names       \* the channels that exist

mvars == <<present, rel, ops, names>>

Init ==
    /\ present = {} /\ rel = {} /\ ops = {} /\ names = {}

\* The names somebody is in.
Inhabited(R) == {c \in Chans : \E u \in Users : <<u, c>> \in R}

Come(u) ==
    /\ u \notin present
    /\ present' = present \cup {u}
    /\ UNCHANGED <<rel, ops, names>>

Enter(u, c) ==
    /\ u \in present
    /\ <<u, c>> \notin rel
    /\ rel' = rel \cup {<<u, c>>}
    /\ ops' = IF c \in names THEN ops ELSE ops \cup {<<u, c>>}
    /\ names' = names \cup {c}
    /\ UNCHANGED present

\* u leaves some of its channels: PART, KICK, JOIN 0, QUIT, KILL.
LeaveSome(u, C) ==
    /\ rel' = rel \ ({u} \X C)
    /\ ops' = ops \ ({u} \X C)
    /\ names' = Inhabited(rel')
    /\ UNCHANGED present

\* The status of somebody who is in the channel.
SetStatus(u, c) ==
    /\ <<u, c>> \in rel
    /\ ops' \in {ops \cup {<<u, c>>}, ops \ {<<u, c>>}}
    /\ UNCHANGED <<present, rel, names>>

Go(u) ==
    /\ u \in present
    /\ present' = present \ {u}
    /\ rel' = rel \ ({u} \X Chans)
    /\ ops' = ops \ ({u} \X Chans)
    /\ names' = Inhabited(rel')

Next ==
    \E u \in Users :
        \/ Come(u) \/ Go(u)
        \/ \E c \in Chans : Enter(u, c) \/ SetStatus(u, c)
        \/ \E C \in SUBSET Chans : LeaveSome(u, C)

Spec == Init /\ [][Next]_mvars
=============================================================================
