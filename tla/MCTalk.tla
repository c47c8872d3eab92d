------------------------------- MODULE MCTalk -------------------------------
(* Talk on a small instance.                                               *)
EXTENDS Talk, TLC

CONSTANTS n1, n2, m1, e0, wb

MCMatches == {<<n1, n1>>, <<n2, n2>>, <<n2, m1>>}

\* e0 is the empty word, wb one of two words with a blank between them.
MCOnWire ==
    [w \in Words |-> CASE w = e0 -> <<>> [] w = wb -> <<m1, n2>> [] OTHER -> <<w>>]

L(f, a) == [flags |-> f, args |-> a]

\* Lines that cross a piece, change sign, repeat a change, use up or miss
\* words, read beyond the last one, give or take the privilege of their own
\* sender on the way, and leave their readers a word too many or too few.
MCLines == {
    L(<<"+", "i", "m", "n", "s", "p", "t", "b">>, <<m1>>),
    L(<<"-", "i", "m", "n", "s", "p", "t", "b">>, <<m1>>),
    L(<<"+", "m", "-", "i", "+", "v">>, <<n2>>),
    L(<<"+", "o", "-", "v">>, <<n2, n2>>),
    L(<<"-", "o", "+", "s">>, <<n1>>),
    L(<<"+", "m", "+", "h">>, <<n1>>),
    L(<<"+", "k", "l", "x", "b">>, <<m1, m1, m1>>),
    L(<<"-", "l", "b", "+", "b", "-", "k">>, <<m1, m1, m1>>),
    L(<<"-", "k", "+", "b">>, <<wb>>),
    L(<<"+", "k", "v">>, <<e0, n2>>),
    L(<<"+", "s", "v">>, <<>>)}

\* At most one IRC operator and one invisible user.  With an odd word about
\* there is no other ban, topic or user mode.
Bounds ==
    /\ Cardinality(oper) =< 1 /\ Cardinality(invisible) =< 1
    /\ \A c \in Chans :
          wb \in bans[c] \/ (\E u \in Users : view[u][c].misread) =>
              oper \cup invisible = {} /\ bans[c] \subseteq {wb} /\ topic[c] = NoTopic
=============================================================================
