------------------------------ MODULE ModeTable ------------------------------
(***************************************************************************)
(* How modes are stored: a table (mode.hpp) gives each letter one bit of   *)
(* an unsigned integer of Width bits, and the modes of a channel are such  *)
(* an integer (bitmask.hpp).  Every flag handed to a mask comes from the   *)
(* table, so it is a power of two: it is named here by its exponent, and   *)
(* an integer is the set of the bits that are 1.                           *)
(***************************************************************************)
EXTENDS Naturals, SequencesExt

CONSTANT Width      \* bits of the storage type

ASSUME WidthOK == Width \in Nat \ {0}

-----------------------------------------------------------------------------
(* The table: a function from letters to bits *)

Bits == 0..(Width - 1)
NoBit == Width      \* no power of two: 0

\* Mutant: the elements are not looked through.
GetFreeSlotFirst(table) == Min(Bits)

\* getFreeSlot: NoBit when every bit is taken.
GetFreeSlot(table) ==
    LET free == Bits \ Range(table) IN IF free = {} THEN NoBit ELSE Min(free)

\* registerMode
RegisterMode(table, x) ==
    LET slot == GetFreeSlot(table)
    IN  IF slot = NoBit \/ x \in DOMAIN table THEN table
        ELSE [y \in DOMAIN table \cup {x} |-> IF y = x THEN slot ELSE table[y]]

\* initModes: the channel's letters in the order they are registered.
InitModes(halfop) ==
    FoldLeft(RegisterMode, [x \in {} |-> NoBit],
             <<"b">> \o (IF halfop THEN <<"h">> ELSE <<>>)
             \o <<"i", "k", "l", "m", "n", "o", "p", "s", "t", "v">>)

-----------------------------------------------------------------------------
(* The mask *)

IsSet(data, flag) == flag \in data

AddFlag(data, flag) == data \cup {flag}

Revoke(data, flag) == data \ {flag}
=============================================================================
