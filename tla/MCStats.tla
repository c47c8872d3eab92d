------------------------------- MODULE MCStats -------------------------------
(* Stats on a small instance: lines that repeat a change, take one back,   *)
(* name a letter nobody knows, and end in a sign.                          *)
EXTENDS Stats, TLC

MCLines == {<<"+", "i">>, <<"-", "i", "+", "o">>, <<"i", "-", "x", "o">>,
            <<"+", "o", "-", "o", "+", "w", "-", "w", "+">>}

Symmetry == Permutations(Sockets)
=============================================================================
