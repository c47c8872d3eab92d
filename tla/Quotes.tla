-------------------------------- MODULE Quotes --------------------------------
(***************************************************************************)
(* The value of a configuration entry, read out of its quotes              *)
(* (UnrealConfig::getQuotedContent).  One action is one round of the loop  *)
(* over the characters.                                                    *)
(*                                                                         *)
(* What the loop is given is cut out of the line by UnrealConfig::read,    *)
(* which looks for the first semicolon and not for the quotes: as many     *)
(* characters from the value on as stand in front of that semicolon in the *)
(* whole line, name and blank included.  Behind it the line is read on.    *)
(***************************************************************************)
EXTENDS Naturals, SequencesExt

CONSTANTS
    Letters,        \* characters without a meaning of their own
    Inputs,         \* what may stand behind the name of an entry and a blank
    Names,          \* lengths of names
    Values          \* what an administrator may want to write

Quote     == "quote"
Semicolon == "semicolon"
Backslash == "backslash"

Characters == Letters \cup {Quote, Semicolon, Backslash}

ASSUME QuoteParams ==
    /\ Letters \cap {Quote, Semicolon, Backslash, "nul"} = {}
    /\ Inputs \subseteq Seq(Characters) /\ Values \subseteq Seq(Characters)
    /\ \A s \in Inputs : \E i \in DOMAIN s : s[i] = Semicolon
    /\ Names \subseteq Nat \ {0}

VARIABLES
    behind,         \* the line behind the name
    inp,            \* the text that is looked at
    siter,          \* place reached in it
    val,            \* the value so far
    has_quote,      \* a quote is open
    closed          \* the result: "none" yet, "yes" or "no"

quoteVars == <<behind, inp, siter, val, has_quote, closed>>

-----------------------------------------------------------------------------
Semicolons(s) == {i \in DOMAIN s : s[i] = Semicolon}

\* Where the entry ends and the line is read on behind.
EntryEnd(s) == Min(Semicolons(s))

\* line.mid(fi + 1, sc), for a name of that many characters.
Passed(s, characters) == SubSeq(s, 1, Min({Len(s), characters + EntryEnd(s)}))

Going == closed = "none" /\ siter <= Len(inp)

Here == inp[siter]

\* The text ends in a character that no text holds.
Following == IF siter < Len(inp) THEN inp[siter + 1] ELSE "nul"

\* *(siter - 1) == '\\'
Escaped == siter > 1 /\ inp[siter - 1] = Backslash

\* Mutant: a quote cannot be escaped.
SpecialsButQuote == {Semicolon, Backslash}

\* What a backslash takes its meaning from.
Specials == {Quote, Semicolon, Backslash}

QuoteInit ==
    /\ behind \in Inputs
    /\ \E characters \in Names : inp = Passed(behind, characters)
    /\ siter = 1 /\ val = <<>> /\ has_quote = FALSE /\ closed = "none"

\* A backslash, and the character it takes the meaning from.
Escape ==
    /\ Going /\ Here = Backslash
    /\ IF Following \in Specials
         THEN val' = Append(val, Following) /\ siter' = siter + 2
         ELSE val' = val /\ siter' = siter + 1
    /\ UNCHANGED <<behind, inp, has_quote, closed>>

TurnQuote ==
    /\ Going /\ Here = Quote
    /\ has_quote' = IF Escaped THEN has_quote ELSE ~has_quote
    /\ siter' = siter + 1
    /\ UNCHANGED <<behind, inp, val, closed>>

\* The end of the line, if no quote is open.
EndLine ==
    /\ Going /\ Here = Semicolon /\ ~has_quote
    /\ IF Escaped THEN siter' = siter + 1 /\ closed' = closed
       ELSE siter' = siter /\ closed' = "yes"
    /\ UNCHANGED <<behind, inp, val, has_quote>>

Copy ==
    /\ Going /\ Here \notin {Backslash, Quote}
    /\ Here = Semicolon => has_quote
    /\ val' = Append(val, Here)
    /\ siter' = siter + 1
    /\ UNCHANGED <<behind, inp, has_quote, closed>>

EndText ==
    /\ closed = "none" /\ siter > Len(inp)
    /\ closed' = IF has_quote THEN "no" ELSE "yes"
    /\ UNCHANGED <<behind, inp, siter, val, has_quote>>

QuoteNext == Escape \/ TurnQuote \/ EndLine \/ Copy \/ EndText

QuoteSpec == QuoteInit /\ [][QuoteNext]_quoteVars

-----------------------------------------------------------------------------
(* Properties *)

\* How a careful administrator writes a character.
MustEscape == {Quote, Semicolon, Backslash}

Shown(x) == IF x \in MustEscape THEN <<Backslash, x>> ELSE <<x>>

Body(v) == FoldLeft(LAMBDA s, x : s \o Shown(x), <<>>, v)

Written(v) == (<<Quote>> \o Body(v)) \o <<Quote, Semicolon>>

\* A value without a semicolon that is written in quotes, with a backslash
\* before every quote and backslash, is read as what it was, whatever follows,
\* and the line is read on right behind it; unless it ends in a backslash:
\* then its closing quote counts as escaped (getQuotedContent, read).
ValuesReadAsWritten ==
    closed # "none" =>
        \A v \in Values :
            /\ IsPrefix(Written(v), behind)
            /\ Semicolons(v) = {} /\ (v # <<>> => Last(v) # Backslash)
            => /\ val = v /\ closed = "yes"
               /\ EntryEnd(behind) = Len(Written(v))
=============================================================================
