------------------------------ MODULE MCConfig ------------------------------
(* Documents and disks for Config: small files with every directive, and   *)
(* a sequence of ten listeners.                                            *)
EXTENDS Config

MCFiles == {"main", "extra"}

MCBlock(name, sets) == [do |-> "block", cond |-> Always, name |-> name, plus |-> FALSE, sets |-> sets]
Under(cond, block) == [block EXCEPT !.cond = cond]
Plus(block) == [block EXCEPT !.plus = TRUE]

Version == Ref(<<Part("Version")>>)
Description(b) == Ref(<<Part(b), Part("Description")>>)

ListenerAt(a, n) == MCBlock("Listener", <<<<"Address", Lit(a)>>, <<"Port", Lit(n)>>, <<"Type", Lit(3)>>>>)
ListenerBlock(n) == ListenerAt(1, n)
Portless == MCBlock("Listener", <<<<"Address", Lit(2)>>, <<"Type", Lit(3)>>>>)
Oper(n, p) == MCBlock("Operator", <<<<"Name", Lit(n)>>, <<"Password", Lit(p)>>>>)
Passless(n) == MCBlock("Operator", <<<<"Name", Lit(n)>>>>)
Masked(n, p, mask) == MCBlock("Operator",
    <<<<"Name", Lit(n)>>, <<"Password", Lit(p)>>, <<"Mask", Lit(mask)>>>>)

\* Lit(8) is the hash of Lit(6); Lit(9) is no number.
MCPasswords == {Empty, Lit(6), Lit(7)}
MCHashes == {Lit(8)}
MCDigests == {<<Lit(6), Lit(8)>>}
MCNumerics == {Lit(3), Lit(4)}

\* Lit(1) is the address of every interface and Lit(2) of one of them, Lit(3)
\* does not resolve; Lit(9) and Lit(4) write the same port, Lit(10) writes 0.
MCEndpoint == [x \in {Lit(1), Lit(2)} \X {Lit(n) : n \in 1..10} |->
    CASE x[2] = Lit(10) -> Anywhere
      [] x[2] = Lit(9)  -> <<x[1], 4>>
      [] OTHER          -> <<x[1], x[2][2]>>]
Every(n) == <<Lit(1), n>>
Single(n) == <<Lit(2), n>>
MCClashes == UNION {{<<Every(n), Single(n)>>, <<Single(n), Every(n)>>} : n \in 1..8}
MCRefusals == {{}, {Every(4)}}

\* Most files end with this block: Map::add keeps what an earlier one gave.
Identity == MCBlock("Me", <<<<"ServerName", Lit(1)>>, <<"Numeric", Lit(4)>>>>)

Items == {
    ListenerBlock(4), ListenerAt(2, 9), ListenerAt(3, 4), Portless, Plus(MCBlock("Listener", <<>>)),
    Under(<<Version, "<", Lit(4)>>, ListenerBlock(6)),
    Oper(2, 7), Oper(2, 8), Passless(2), Masked(2, 7, 5),
    MCBlock("Me", <<<<"Numeric", Lit(3)>>, <<"RestartPassword", Lit(8)>>>>),
    MCBlock("Me", <<<<"Numeric", Lit(9)>>>>),
    MCBlock("Me", <<<<"Description", Description("Admin")>>, <<"Description", Lit(2)>>>>),
    Under(<<Version, ">=", Lit(4)>>, MCBlock("Admin", <<<<"Description", Lit(6)>>>>)),
    MCBlock("Limits", <<<<"PingFreq", Lit(9)>>>>),
    [do |-> "include", file |-> "extra", required |-> FALSE]}

Few == {ListenerBlock(4), Portless, Under(<<Version, "<", Lit(4)>>, ListenerBlock(6)),
        Oper(2, 7), Passless(2)}

Special == {
    <<[do |-> "include", file |-> "extra", required |-> TRUE]>>,
    <<[do |-> "sequence", path |-> <<Part("Class")>>], MCBlock("Class", <<<<"Name", Lit(1)>>>>),
      MCBlock("Class", <<<<"Name", Lit(2)>>>>)>>,
    <<[do |-> "load", module |-> "join"], [do |-> "unclosed"]>>,
    <<[do |-> "assignUnclosed"]>>,
    <<[do |-> "throw"]>>}

Ten == [n \in 1..10 |-> ListenerBlock(n)]

Extra == <<Oper(2, 9), MCBlock("Admin", <<<<"Description", Lit(1)>>>>),
           [do |-> "load", module |-> "part"]>>
Disk(main, extra) == ("main" :> main) @@ ("extra" :> extra)

Mains == {<<a, b>> : a \in Items, b \in Items} \cup {<<a, b, c>> : a \in Few, b \in Few, c \in Few}
            \cup Special \cup {Ten}

\* The second file matters only to a file that includes it.
MCDisks == {Disk(Append(d, Identity), Extra) : d \in Mains}
           \cup {Disk(Append(d, Identity), Gone) : d \in {d \in Mains : Included(d) # <<>>}}
           \cup {Disk(Gone, Extra), Disk(<<ListenerBlock(4)>>, Extra)}

MCEdits == {Disk(d, Extra) : d \in {Append(d, Identity) : d \in Special}
                    \cup {<<ListenerBlock(5), Oper(2, 8), Identity>>, <<ListenerBlock(6)>>, Gone}}

\* The files are such as Config speaks of, and but for the ten listeners they
\* are so when they are read twice.
ASSUME \A d \in MCDisks \cup MCEdits :
    Readable(d) =>
        LET items == Whole(d)
        IN  /\ WellWritten(d) /\ AtMostTen(items)
            /\ PlainBlocks(items)
            /\ Len(items) < 10 => AtMostTen(items \o items)
=============================================================================
