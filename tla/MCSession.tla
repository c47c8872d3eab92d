----------------------------- MODULE MCSession ------------------------------
(* Session on small instances.                                             *)
EXTENDS Session, TLC

\* Addresses are interchangeable, and so are nicknames.
Symmetry == Permutations(Users) \cup Permutations(Nicks)

\* Bound: handlers are outstanding or queued for one user at a time.  Users
\* share nothing but the nick map, so that the other one matters for its
\* nickname only.
Busy(u) == Callbacks(s[u]) # {} \/ s[u].reports > 0
OneBusy == \A u, v \in Users : Busy(u) /\ Busy(v) => u = v
=============================================================================
