-------------------------------- MODULE MCText --------------------------------
(***************************************************************************)
(* Wildcard, RecvQueue and Quotes on short texts.  The three share         *)
(* nothing, so a behaviour has one of them at work and the others at rest. *)
(***************************************************************************)
EXTENDS Wildcard, RecvQueue, Quotes, TLC

VARIABLE atWork

MCMasks == UNION {[1..k -> {"a", "*", "?", "_"}] : k \in 0..5}
MCSubjects == UNION {[1..k -> {"a", " "}] : k \in 0..4}

MCChars == {"a", " ", ":", "\r"}

Texts(len) == UNION {[1..k -> Characters] : k \in 0..len}
MCInputs == {s \in Texts(7) : Semicolons(s) # {} /\ (Len(s) = 7 => s[1] = Quote)}
MCValues == Texts(3)

-----------------------------------------------------------------------------
MatchRests == mask = <<>> /\ text = <<>> /\ MatchInit
QuotesRest == behind = <<Semicolon>> /\ QuoteInit

Init ==
    /\ QueueInit
    /\ \/ atWork = "match" /\ MatchInit /\ QuotesRest
       \/ atWork = "queue" /\ MatchRests /\ QuotesRest
       \/ atWork = "quotes" /\ MatchRests /\ QuoteInit

Next ==
    /\ UNCHANGED atWork
    /\ \/ atWork = "match" /\ MatchNext /\ UNCHANGED <<queueVars, quoteVars>>
       \/ atWork = "queue" /\ QueueNext /\ UNCHANGED <<matchVars, quoteVars>>
       \/ atWork = "quotes" /\ QuoteNext /\ UNCHANGED <<matchVars, queueVars>>

Spec == Init /\ [][Next]_<<atWork, matchVars, queueVars, quoteVars>>
=============================================================================
