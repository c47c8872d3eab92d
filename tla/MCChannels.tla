----------------------------- MODULE MCChannels -----------------------------
(* Channels on small instances.                                            *)
EXTENDS Channels, TLC

CONSTANTS u1, u2, u3

\* The ban masks of an instance: one user's host, and everybody's.
MCMasks == {{u1}, Users}

\* Addresses are interchangeable where no mask names one of them, and channel
\* names always are.
Symmetry == Permutations(Users) \cup Permutations(Chans)
=============================================================================
