------------------------------ MODULE RecvQueue ------------------------------
(***************************************************************************)
(* The receive queue, which keeps the lines of a client in one string      *)
(* (recvq.cpp), and the split of a line into a command and its arguments   *)
(* (listener.cpp, string.cpp).                                             *)
(*                                                                         *)
(* A text is a sequence of characters.  The state is what a client has     *)
(* typed of its next line, its receive queue, and whether a line of its    *)
(* has ended the server: processRecvQueue looks at the first character of  *)
(* the first word, and a line that begins with a blank has none.           *)
(***************************************************************************)
EXTENDS Naturals, SequencesExt

CONSTANTS
    Chars,          \* characters of a line
    MaxText         \* bound: characters typed and not yet run

Separator == "\n"
Blank == " "

ASSUME QueueParams == MaxText \in Nat /\ Separator \notin Chars

VARIABLES
    typed,      \* the stream buffer: a line that is not complete
    queue,      \* UnrealRecvQueue::queue_str_
    lines,      \* history: the complete lines that have not been run
    thrown      \* an exception has gone through the reactor

queueVars == <<typed, queue, lines, thrown>>

-----------------------------------------------------------------------------
(* Splitting *)

Has(s, c) == \E i \in DOMAIN s : s[i] = c

\* A separator begins the next piece, any other character goes on with it.
Piece(pieces, x, c) ==
    IF x = c THEN Append(pieces, <<>>)
    ELSE Append(Front(pieces), Append(Last(pieces), x))

Pieces(s, c) == FoldLeft(LAMBDA pieces, x : Piece(pieces, x, c), <<(<<>>)>>, s)

\* String::split: nothing at all for a text without a separator.
Split(s, c) == IF Has(s, c) THEN Pieces(s, c) ELSE <<>>

Glue(s, part, c) == s \o <<c>> \o part

Join(parts, c) ==
    IF parts = <<>> THEN <<>>
    ELSE FoldLeft(LAMBDA s, part : Glue(s, part, c), Head(parts), Tail(parts))

Blanks == {" ", "\n", "\r", "\t"}

\* String::trimmed
Trimmed(s) ==
    LET ink == {i \in DOMAIN s : s[i] \notin Blanks}
    IN  IF ink = {} THEN <<>> ELSE SubSeq(s, Min(ink), Max(ink))

BeginsLong(word) == word # <<>> /\ word[1] = ":"

\* The words, not the first, that a long argument could start with.
LongWords(tokens) == {i \in DOMAIN tokens : i > 1 /\ BeginsLong(tokens[i])}

\* Mutant: the last of them.
LongFromLast(tokens) == Max(LongWords(tokens))

\* The word the long argument starts with.
LongFrom(tokens) == Min(LongWords(tokens))

\* splitLine
SplitLine(s) ==
    LET tokens == Split(s, Blank)
    IN  IF tokens = <<>> THEN <<Trimmed(s)>>
        ELSE IF LongWords(tokens) = {} THEN tokens
        ELSE LET i == LongFrom(tokens)
             IN  Append(SubSeq(tokens, 1, i - 1),
                        Tail(Join(SubSeq(tokens, i, Len(tokens)), Blank)))

-----------------------------------------------------------------------------
(* The receive queue *)

\* add
Add(q, s) == IF q = <<>> THEN s ELSE q \o <<Separator>> \o s

\* Mutant: the rest is not put back.
GetLineDropsRest(q) ==
    [line |-> IF Has(q, Separator) THEN Head(Split(q, Separator)) ELSE q,
     rest |-> <<>>]

\* getline
GetLine(q) ==
    IF ~Has(q, Separator) THEN [line |-> q, rest |-> <<>>]
    ELSE LET sq == Split(q, Separator)
         IN  [line |-> Head(sq), rest |-> Join(Tail(sq), Separator)]

\* size
Size(q) == IF q = <<>> THEN 0
           ELSE IF Has(q, Separator) THEN Len(Split(q, Separator)) ELSE 1

QueueInit == typed = <<>> /\ queue = <<>> /\ lines = <<>> /\ thrown = FALSE

Type(c) ==
    /\ ~thrown
    /\ Len(typed) + Len(queue) < MaxText
    /\ typed' = Append(typed, c)
    /\ UNCHANGED <<queue, lines, thrown>>

\* The returns at the end of a line go, unless the line is nothing else.
Stripped(s) ==
    LET ink == {i \in DOMAIN s : s[i] # "\r"}
    IN  IF ink = {} THEN s ELSE SubSeq(s, 1, Max(ink))

\* handleRead: the end of the line; an empty one is not handed on.
Complete ==
    /\ ~thrown
    /\ typed' = <<>>
    /\ IF typed = <<>> THEN UNCHANGED <<queue, lines>>
       ELSE /\ queue' = Add(queue, Stripped(typed))
            /\ lines' = Append(lines, Stripped(typed))
    /\ UNCHANGED thrown

\* tokens.at(0).at(0) throws.
Throws(line) == Head(SplitLine(line)) = <<>>

\* One round of processRecvQueue's loop.
Run ==
    /\ ~thrown
    /\ Size(queue) > 0
    /\ queue' = GetLine(queue).rest
    /\ lines' = Tail(lines)
    /\ thrown' = Throws(GetLine(queue).line)
    /\ UNCHANGED typed

QueueNext == (\E c \in Chars : Type(c)) \/ Complete \/ Run

QueueSpec == QueueInit /\ [][QueueNext]_queueVars

-----------------------------------------------------------------------------
(* Properties *)

\* What is run next is the oldest line, whole, and the string knows how many
\* there are, although all lines are kept in one text (UnrealRecvQueue).
LinesInOrder ==
    /\ Size(queue) = Len(lines)
    /\ lines # <<>> => GetLine(queue).line = Head(lines)

\* A line that does not begin with a blank, a tab or a return is handed to a
\* command and does not end the server.  The words of one that is handed on
\* are the line again when they are written with blanks between them: none
\* but the last holds a blank, none but the first and the last begins with a
\* colon, and the last needs one in front exactly if it was written with one.
\* Between two blanks there is an empty word, which is handed on like any
\* other (splitLine, processRecvQueue).
WordsInOrder ==
    \A k \in DOMAIN lines :
        LET line == lines[k]
            argv == SplitLine(line)
            last == Len(argv)
        IN  /\ Throws(line) => line[1] \in Blanks
            /\ Has(line, Blank) /\ ~Throws(line) =>
                  /\ last > 1
                  /\ \A i \in 1..(last - 1) : ~Has(argv[i], Blank)
                  /\ \A i \in 2..(last - 1) : ~BeginsLong(argv[i])
                  /\ \/ line = Join(Append(Front(argv), <<":">> \o Last(argv)), Blank)
                     \/ /\ line = Join(argv, Blank)
                        /\ ~Has(argv[last], Blank) /\ ~BeginsLong(argv[last])
=============================================================================
