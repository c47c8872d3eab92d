-------------------------------- MODULE Talk --------------------------------
(***************************************************************************)
(* What clients are told: the broadcasts of a channel (JOIN, PART, KICK,   *)
(* QUIT, TOPIC, MODE), the replies of NAMES, TOPIC, MODE, WHO, WHOIS and   *)
(* LIST, and what a client that does nothing but read them believes.       *)
(*                                                                         *)
(* The server keeps one channel state and sends clients CHANGES of it.  A  *)
(* mode line changes several things, is cut into pieces of six changes     *)
(* and written with signs and parameters; the client takes the pieces      *)
(* apart again by the CHANMODES and PREFIX the server announced.  Words go  *)
(* out as they were stored: one that is empty, begins with a colon or      *)
(* contains a blank is not the word its readers find.                      *)
(*                                                                         *)
(* Who may join is the subject of Channels: here any user may.  A user is  *)
(* named by its nick; nobody changes it or is deaf (README, Not modelled). *)
(***************************************************************************)
EXTENDS ModeTable, FiniteSets

CONSTANTS
    Users,          \* introduced users
    Chans,          \* channel names
    Masks,          \* ban masks, and words sent as such
    OnWire,         \* the words a client reads where the server wrote a word
    Matches,        \* pairs <<user, mask>> of UnrealUser::match
    Topics,         \* topics a client may set
    NoTopic,        \* the empty topic
    Lines,          \* mode lines: [flags : signs and letters, args : words]
    EnableHalfOp    \* Features::EnableHalfOp

None == "none"
Words == Users \cup Masks
Status == {"o", "h", "v"}
Table == InitModes(EnableHalfOp)

ASSUME TalkParams ==
    /\ Matches \subseteq Users \X Words
    /\ NoTopic \notin Topics
    /\ None \notin Words
    /\ OnWire \in [Words -> Seq(Words)]
    /\ \A u \in Users : OnWire[u] = <<u>>
    /\ \A l \in Lines : l.flags \in Seq(Range(l.flags)) /\ l.args \in Seq(Words)
    /\ EnableHalfOp \in BOOLEAN

VARIABLES
    oper,       \* IRC operators
    invisible,  \* users with mode +i
    status,     \* status[c]: function from the members to their flags
    modes,      \* modes[c]: a mask
    bans,       \* bans[c]
    topic,      \* topic[c]
    view        \* view[u][c]: what the client of member u believes

vars == <<oper, invisible, status, modes, bans, topic, view>>

Members(c) == DOMAIN status[c]
Shared(u, v) == {c \in Chans : {u, v} \subseteq Members(c)}

\* isModerated, isSecret and the like
Has(c, x) == IsSet(modes[c], Table[x])

\* A word that is read as it was written.
Plain(w) == OnWire[w] = <<w>>

\* asked: the client has sent MODE #c and MODE #c b, most do after a JOIN.
\* own: the client's own flags.  misread: it was sent a mode line or a ban
\* list that does not read as it was meant (history, for the properties).
Blank == [names |-> {}, ops |-> {}, own |-> {}, topic |-> NoTopic, asked |-> FALSE,
          modes |-> {}, bans |-> {}, misread |-> FALSE]

Init ==
    /\ oper = {} /\ invisible = {}
    /\ status = [c \in Chans |-> [u \in {} |-> {}]]
    /\ modes = [c \in Chans |-> {}]
    /\ bans = [c \in Chans |-> {}]
    /\ topic = [c \in Chans |-> NoTopic]
    /\ view = [u \in Users |-> [c \in Chans |-> Blank]]

-----------------------------------------------------------------------------
(* Replies.  They change nothing on the server. *)

\* NAMES answers anybody; it marks operators and, if they are none, voices.
Names(c) == Members(c)
NamedOps(c) == {u \in Members(c) : "o" \in status[c][u]}

\* WHOIS of v: the channels named to u.
Whois(u, v) == {c \in Chans : v \in Members(c) /\ (Has(c, "s") => u \in oper)}

\* LIST, without limits.
List == {c \in Chans : Members(c) # {} /\ ~Has(c, "p") /\ ~Has(c, "s")}

\* WHO #c: the members named to u.
WhoChannel(u, c) ==
    {v \in Members(c) : v \in invisible => u \in Members(c) \cup oper}

\* Mutant: WHO names any channel of the user.
WhoAnyChannel(u) ==
    [v \in {v \in Users : v \in invisible => Shared(u, v) # {} \/ u \in oper \/ u = v}
        |-> {c \in Chans : v \in Members(c)}]

\* WHO <mask>: the users named to u, each with one of these channels or "*".
WhoMask(u) ==
    [v \in {v \in Users : v \in invisible => Shared(u, v) # {} \/ u \in oper \/ u = v}
        |-> Shared(u, v)]

-----------------------------------------------------------------------------
(* Speaking *)

Banned(u, c) == \E m \in bans[c] : <<u, m>> \in Matches

\* Mutant: the ban is one more alternative of the chain.
CanSendOneCheck(u, c) ==
    \/ u \in oper
    \/ IF Has(c, "m") THEN u \in Members(c) => status[c][u] # {}
       ELSE IF Has(c, "n") /\ u \notin Members(c) THEN FALSE
       ELSE ~Banned(u, c)

\* canSend for a text that is not empty: one chain of alternatives.
CanSend(u, c) ==
    \/ u \in oper
    \/ /\ IF Has(c, "m") THEN u \in Members(c) => status[c][u] # {}
                          ELSE Has(c, "n") => u \in Members(c)
       /\ ~Banned(u, c)

\* PRIVMSG and NOTICE to a channel: who hears u.  They tell u of a refusal
\* or keep silent.
Hears(u, c) == IF CanSend(u, c) THEN Members(c) \ {u} ELSE {}
Notices(u, c) == IF CanSend(u, c) THEN Members(c) \ {u} ELSE {}

-----------------------------------------------------------------------------
(* Joining and leaving *)

\* The views after each member u of c but those in X has come to believe now[u].
Told(c, X, now) ==
    [u \in Users |-> IF u \in Members(c) \ X
                        THEN [view[u] EXCEPT ![c] = now[u]] ELSE view[u]]

Without(v, u) == [v EXCEPT !.names = @ \ {u}, !.ops = @ \ {u}]

\* joinChannel: the members are sent JOIN, the user NAMES and TOPIC.
Join(u, c) ==
    LET flags == IF Members(c) = {} THEN {"o"} ELSE {}
        told == Told(c, {}, [w \in Users |-> [view[w][c] EXCEPT !.names = @ \cup {u}]])
        own == [Blank EXCEPT
                    !.names = Names(c) \cup {u},
                    !.ops = NamedOps(c) \cup (IF flags = {} THEN {} ELSE {u}),
                    !.own = flags,
                    !.topic = topic[c]]
    IN  /\ u \notin Members(c)
        /\ status' = [status EXCEPT
                ![c] = [v \in Members(c) \cup {u} |->
                            IF v = u THEN flags ELSE status[c][v]]]
        /\ view' = [told EXCEPT ![u][c] = own]
        /\ UNCHANGED <<oper, invisible, modes, bans, topic>>

\* removeMember and the deletion of an emptied channel, for the channels C.
RemoveFrom(u, C) ==
    LET gone == {c \in C : Members(c) = {u}}
    IN  /\ status' = [c \in Chans |->
                IF c \in C THEN [v \in Members(c) \ {u} |-> status[c][v]]
                           ELSE status[c]]
        /\ modes' = [c \in Chans |-> IF c \in gone THEN {} ELSE modes[c]]
        /\ bans' = [c \in Chans |-> IF c \in gone THEN {} ELSE bans[c]]
        /\ topic' = [c \in Chans |-> IF c \in gone THEN NoTopic ELSE topic[c]]

\* Mutant: the channel is left before its members are told.
LeaveSilently(u, c) ==
    /\ u \in Members(c)
    /\ RemoveFrom(u, {c})
    /\ view' = [view EXCEPT ![u][c] = Blank]
    /\ UNCHANGED <<oper, invisible>>

\* PART, and KICK by an operator: all members are told, then u is removed.
Leave(u, c) ==
    /\ u \in Members(c)
    /\ RemoveFrom(u, {c})
    /\ view' = [Told(c, {u}, [w \in Users |-> Without(view[w][c], u)])
                    EXCEPT ![u][c] = Blank]
    /\ UNCHANGED <<oper, invisible>>

Part(u, c) == Leave(u, c)
Kick(u, c, v) ==
    /\ u \in Members(c)
    /\ "o" \in status[c][u] \/ u \in oper
    /\ Leave(v, c)

\* exit(ec), QUIT, KILL: out of every channel; those who stay get a QUIT.
\* The user is gone; one with the same nick may come.
Quit(u) ==
    LET C == {c \in Chans : u \in Members(c)}
    IN  /\ RemoveFrom(u, C)
        /\ view' = [w \in Users |-> [c \in Chans |->
                IF w = u THEN Blank
                ELSE IF c \in C /\ w \in Members(c) THEN Without(view[w][c], u)
                ELSE view[w][c]]]
        /\ oper' = oper \ {u}
        /\ invisible' = invisible \ {u}

-----------------------------------------------------------------------------
(* User modes and topics *)

Oper(u) ==
    /\ oper' = oper \cup {u}
    /\ UNCHANGED <<invisible, status, modes, bans, topic, view>>

ToggleInvisible(u) ==
    /\ invisible' = IF u \in invisible THEN invisible \ {u} ELSE invisible \cup {u}
    /\ UNCHANGED <<oper, status, modes, bans, topic, view>>

\* TOPIC #c :t
SetTopic(u, c, t) ==
    /\ u \in Members(c)
    /\ Has(c, "t") => status[c][u] \cap {"o", "h"} # {}
    /\ topic' = [topic EXCEPT ![c] = t]
    /\ view' = Told(c, {}, [w \in Users |-> [view[w][c] EXCEPT !.topic = t]])
    /\ UNCHANGED <<oper, invisible, status, modes, bans>>

-----------------------------------------------------------------------------
(* A mode line.  It is read letter by letter; par is the next word, out    *)
(* the changes made so far.  What an earlier letter did counts for a later *)
(* one, a privilege it gave or took included.                              *)

Demands == {"b", "h", "k", "l", "o"}    \* UnrealChannelMode::param_count = 1

Refuses(u, args, a, x) ==
    \/ x \notin DOMAIN Table
    \/ /\ "o" \notin a.status[u]
       /\ x = "v" => "h" \notin a.status[u]
       /\ u \notin oper
    \/ x \in Demands /\ Len(args) < a.par /\ (a.add \/ x # "l")

\* A change goes into the list only if it changed something.
Changed(a, x, arg) ==
    [a EXCEPT !.out = Append(@, [add |-> a.add, letter |-> x, arg |-> arg])]

\* A member's flag or an element of what a client knows.
Put(add, S, e) == IF add THEN S \cup {e} ELSE S \ {e}

DoFlag(a, x) ==
    LET bit == Table[x]
    IN  IF IsSet(a.modes, bit) = a.add THEN a
        ELSE [Changed(a, x, None) EXCEPT
                !.modes = IF a.add THEN AddFlag(@, bit) ELSE Revoke(@, bit)]

FindBan(B, m) == m \in B
AddBan(B, m) == B \cup {m}
RemoveBan(B, m) == B \ {m}

DoBan(a, m) ==
    IF FindBan(a.bans, m) = a.add THEN a
    ELSE [Changed(a, "b", m) EXCEPT
            !.bans = IF a.add THEN AddBan(@, m) ELSE RemoveBan(@, m)]

DoMember(a, x, v) ==
    IF v \notin DOMAIN a.status \/ (x \in a.status[v]) = a.add THEN a
    ELSE [Changed(a, x, v) EXCEPT !.status[v] = Put(a.add, @, x)]

\* -k demands a word and takes none; +k takes its word even if k is set.
Letter(u, args, a, x) ==
    IF x \in {"+", "-"} THEN [a EXCEPT !.add = (x = "+")]
    ELSE IF Refuses(u, args, a, x) THEN a
    ELSE IF x \in Status \cup {"b"} THEN
        LET b == IF a.par > Len(args) THEN a
                 ELSE IF x = "b" THEN DoBan(a, args[a.par])
                 ELSE DoMember(a, x, args[a.par])
        IN  [b EXCEPT !.par = @ + 1]
    ELSE IF x \in {"k", "l"} /\ a.add THEN
        [DoFlag(a, x) EXCEPT !.par = @ + 1,
                             !.key = IF x = "k" THEN args[a.par] ELSE @]
    ELSE [DoFlag(a, x) EXCEPT !.key = IF x = "k" THEN None ELSE @]

ParseLine(u, c, line) ==
    FoldLeft(LAMBDA a, x : Letter(u, line.args, a, x),
             [add |-> TRUE, par |-> 1, key |-> None, status |-> status[c],
              modes |-> modes[c], bans |-> bans[c], out |-> <<>>],
             line.flags)

\* modebufSend: a sign where it differs from the one before in this piece,
\* the key as it is after the whole line, the limit when one is set.
Param(ch, key) ==
    IF ch.arg # None THEN OnWire[ch.arg]
    ELSE IF ch.letter = "k" /\ key # None THEN OnWire[key]
    ELSE IF ch.letter = "l" /\ ch.add THEN <<"limit">>
    ELSE <<>>

Sign(add) == IF add THEN "+" ELSE "-"

Write(p, ch, key) ==
    LET sign == Sign(ch.add)
    IN  [sign |-> sign,
         flags |-> Append(IF p.sign = sign THEN p.flags ELSE Append(p.flags, sign),
                          ch.letter),
         args |-> p.args \o Param(ch, key)]

Piece(changes, key) ==
    FoldLeft(LAMBDA p, ch : Write(p, ch, key),
             [sign |-> None, flags |-> <<>>, args |-> <<>>], changes)

PieceLen == 6

\* The j-th piece's changes.
Cut(changes, j) ==
    LET from == (j - 1) * PieceLen + 1
        to == j * PieceLen
    IN  SubSeq(changes, from, IF to < Len(changes) THEN to ELSE Len(changes))

Count(changes) == (Len(changes) + PieceLen - 1) \div PieceLen

\* Mutant: the sign is not written again at the start of a piece.
PiecesCarrySign(changes, key) ==
    [j \in 1..Count(changes) |->
        LET p == Piece(Cut(changes, j), key)
            n == (j - 1) * PieceLen + 1
        IN  IF j > 1 /\ changes[n].add = changes[n - 1].add
              THEN [p EXCEPT !.flags = Tail(@)] ELSE p]

Pieces(changes, key) ==
    [j \in 1..Count(changes) |-> Piece(Cut(changes, j), key)]

\* These changes do not read as they were meant: a word on the wire is not
\* the word, or k goes without one (-k, which every client reads with a
\* word) before another change.
Garbled(changes, key) ==
    \E i \in DOMAIN changes :
        LET ch == changes[i]
        IN  \/ ch.arg # None /\ ~Plain(ch.arg)
            \/ ch.letter = "k" /\ IF key = None THEN i < Len(changes) ELSE ~Plain(key)

\* How a client reads a piece, by CHANMODES=b,k,l,imnsp and PREFIX: b, k and
\* the member letters always take a word, l when it is set.  Modes and bans
\* are noted once asked for.
Noted(v, add, S, e) == IF v.asked THEN Put(add, S, e) ELSE S

ReadLetter(u, a, x) ==
    LET takes == /\ a.args # <<>>
                 /\ x \in Status \cup {"b", "k"} \cup (IF a.add THEN {"l"} ELSE {})
        w == IF takes THEN Head(a.args) ELSE None
        v == a.v
        heard ==
            CASE x = "b" -> [v EXCEPT !.bans = Noted(v, a.add, @, w)]
              [] x \in Status -> [v EXCEPT
                    !.ops = IF x = "o" THEN Put(a.add, @, w) ELSE @,
                    !.own = IF w = u THEN Put(a.add, @, x) ELSE @]
              [] OTHER -> [v EXCEPT !.modes = Noted(v, a.add, @, x)]
    IN  IF x \in {"+", "-"} THEN [a EXCEPT !.add = (x = "+")]
        ELSE [add |-> a.add, args |-> IF takes THEN Tail(a.args) ELSE a.args, v |-> heard]

Read(u, v, piece) ==
    FoldLeft(LAMBDA a, x : ReadLetter(u, a, x),
             [add |-> TRUE, args |-> piece.args, v |-> v], piece.flags).v

\* MODE #c <line>.  Reading beyond the last word (+v, declared without one)
\* throws through the reactor, which ends the server.
Mode(u, c, line) ==
    /\ u \in Members(c)
    /\ LET a == ParseLine(u, c, line)
       IN  /\ a.par =< Len(line.args) + 1
           /\ status' = [status EXCEPT ![c] = a.status]
           /\ modes' = [modes EXCEPT ![c] = a.modes]
           /\ bans' = [bans EXCEPT ![c] = a.bans]
           /\ view' = Told(c, {}, [w \in Users |->
                [FoldLeft(LAMBDA b, p : Read(w, b, p), view[w][c], Pieces(a.out, a.key))
                    EXCEPT !.misread = @ \/ Garbled(a.out, a.key)]])
    /\ UNCHANGED <<oper, invisible, topic>>

\* modestr and sendBanList
Modestr(c) == {x \in DOMAIN Table : Has(c, x)}
BanList(c) == bans[c]

\* The mask a client finds in an entry of the ban list: where it is empty,
\* the nick of the setter that follows it.
ListedAs(m, setter) == IF OnWire[m] = <<>> THEN setter ELSE Head(OnWire[m])

\* MODE #c and MODE #c b
Ask(u, c) ==
    /\ u \in Members(c)
    /\ LET v == view[u][c]
           odd == \E m \in BanList(c) : ~Plain(m)
       IN  \E setter \in Users :
              view' = [view EXCEPT ![u][c] =
                [v EXCEPT !.asked = TRUE, !.modes = Modestr(c),
                          !.bans = {ListedAs(m, setter) : m \in BanList(c)},
                          !.misread = v.misread \/ odd]]
    /\ UNCHANGED <<oper, invisible, status, modes, bans, topic>>

Next ==
    \E u \in Users :
        \/ Oper(u) \/ ToggleInvisible(u) \/ Quit(u)
        \/ \E c \in Chans :
              \/ Join(u, c) \/ Part(u, c) \/ Ask(u, c)
              \/ \E v \in Users : Kick(u, c, v)
              \/ \E t \in Topics : SetTopic(u, c, t)
              \/ \E l \in Lines : Mode(u, c, l)

Spec == Init /\ [][Next]_vars
-----------------------------------------------------------------------------
(* Properties *)

\* A client that starts from the NAMES and TOPIC replies of its JOIN and
\* then only reads broadcasts knows the members of its channel and the topic.
MembersKnown ==
    \A c \in Chans : \A u \in Members(c) :
        view[u][c].names = Members(c) /\ view[u][c].topic = topic[c]

\* It knows the channel operators, and once it has asked for the modes it
\* knows modes and bans, until a line or a list comes that cannot be read as
\* meant: what modebufSend writes, cut in pieces, with the signs and words it
\* drops, reads as what parseModeChange did.
EchoExact ==
    \A c \in Chans : \A u \in Members(c) :
        ~view[u][c].misread =>
            /\ view[u][c].ops = NamedOps(c)
            /\ view[u][c].asked =>
                  view[u][c].modes = Modestr(c) /\ view[u][c].bans = BanList(c)

\* Such a client knows whether its PRIVMSG or NOTICE to a channel it is in is
\* heard, and by whom: by every other member it knows: its own flags, +m and the
\* bans it knows decide exactly what canSend decides.
KnowsWhetherHeard ==
    \A c \in Chans : \A u \in Members(c) \ oper :
        LET v == view[u][c]
            heard == /\ "m" \in v.modes => v.own # {}
                     /\ \A m \in v.bans : <<u, m>> \notin Matches
        IN  v.asked /\ ~v.misread =>
                /\ Hears(u, c) = IF heard THEN v.names \ {u} ELSE {}
                /\ Notices(u, c) = Hears(u, c)

\* Such a client knows to whom the server names it as a member of the channel.
\* LIST names the channel to all or, with +p or +s, to nobody; WHOIS to all or,
\* with +s, to IRC operators; WHO <mask> to the members it knows.  WHO #c names
\* it, on a secret channel too, to everybody, and if it is invisible to the
\* members and IRC operators.
KnowsWhoSees ==
    \A c \in Chans : \A u \in Members(c) :
        LET v == view[u][c]
            ByMask(w) == LET who == WhoMask(w) IN u \in DOMAIN who /\ c \in who[u]
        IN  v.asked /\ ~v.misread =>
                /\ c \in List <=> v.modes \cap {"p", "s"} = {}
                /\ {w \in Users : c \in Whois(w, u)} =
                      IF "s" \in v.modes THEN oper ELSE Users
                /\ {w \in Users : ByMask(w)} = v.names
                /\ {w \in Users : u \in WhoChannel(w, c)} =
                      IF u \in invisible THEN v.names \cup oper ELSE Users
=============================================================================
