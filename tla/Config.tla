------------------------------- MODULE Config -------------------------------
(***************************************************************************)
(* The configuration (config.cpp) and the readers that matter most:        *)
(* setupListener and setupServer (base.cpp), which open the listeners and  *)
(* name the server when it starts, and OPER (oper.cpp) and RESTART         *)
(* (restart.cpp), which look for their passwords at every call.            *)
(*                                                                         *)
(* A file is read in one go by the only thread, so a read is one step of   *)
(* the server and everything inside it is an operator on the reader's      *)
(* state: the members of UnrealConfig, and the locals category and permit  *)
(* of UnrealConfig::read.  A file is a sequence of directives, one per     *)
(* line; comments, blanks and the layout of a line are left out.           *)
(*                                                                         *)
(* A key is its text split at "::", each part with the number that         *)
(* "_#SEQ-n#" gives it (0 when there is none).  A value is a literal, of   *)
(* which the order of the texts is kept, or $(key) left as it is because   *)
(* nothing is found for it.                                                *)
(***************************************************************************)
EXTENDS Naturals, SequencesExt

CONSTANTS
    Files,          \* names of configuration files
    Main,           \* the file the server is started with (filename_)
    Disks,          \* contents of all the files at the start
    Edits,          \* contents the administrator gives them later
    Numerics,       \* texts String::toUInt reads as a number in 1..4096
    Passwords,      \* words a client may send as a password
    Hashes,         \* texts "$type$digest" of a type UnrealHash knows
    Digests,        \* pairs <<word, hash>>: the digest of word is that of hash
    MaxIncludes,    \* bound: included files of one read
    Endpoint,       \* of <<address, port>>, those that resolve: where that is
    Clashes,        \* pairs of endpoints of which one cannot be bound beside the other
    Refusals        \* sets of endpoints the system may refuse, as other processes have them

Gone == <<[do |-> "unreadable"]>>       \* a file that cannot be opened

ASSUME FilesOK ==
    /\ Main \in Files
    /\ \A d \in Disks \cup Edits, f \in Files :
          /\ DOMAIN d = Files
          /\ d[f] \in Seq(Range(d[f]))
          /\ \A item \in Range(d[f]) :
                /\ item.do = "block" => item.sets \in Seq(Range(item.sets))
                /\ item.do = "sequence" => item.path \in Seq(Range(item.path))
    /\ Digests \subseteq Passwords \X Hashes
    /\ MaxIncludes \in Nat

\* Nothing clashes with itself: that is one endpoint bound twice.
ASSUME EndpointsOK ==
    \A p \in Clashes : p[1] # p[2] /\ <<p[2], p[1]>> \in Clashes

-----------------------------------------------------------------------------
(* Texts and keys *)

Lit(n) == <<"lit", n>>      \* n > 0: a text; their order is that of the n
Ref(k) == <<"ref", k>>      \* the text "$(k)"
Empty  == Lit(0)

\* "$(" sorts before letters and digits.
TextOrder(v) == CASE v = Empty     -> 0
                  [] v[1] = "ref"  -> 1
                  [] OTHER         -> v[2] + 1

Part(name) == <<name, 0>>
Numbered(name, n) == <<name, n>>

\* category + CONFIG_ITEM_SEPARATOR + name; outside of any block this is "::name".
Key(category, name) ==
    Append(IF category = <<>> THEN <<Part("")>> ELSE category, Part(name))

\* initDefaults
DefaultSequences == {<<Part("Listener")>>, <<Part("Operator")>>}
DefaultEntries == [k \in {<<Part(d)>> : d \in {"DLLSuffix", "MODDIR", "OSName", "Version"}} |->
                     Lit(5)]

\* One digit per character: the decimal text of n < 100 and the '#' behind it.
Digits(n) == IF n < 10 THEN <<n>> ELSE <<n \div 10, n % 10>>

\* "i#" sorts before "j#": '#' is smaller than a digit.
TextBefore(i, j) ==
    LET a == Digits(i) b == Digits(j)
    IN  \/ a # b /\ IsPrefix(a, b)
        \/ \E p \in 1..2 : /\ p <= Len(a) /\ p <= Len(b)
                           /\ \A q \in 1..(p - 1) : a[q] = b[q]
                           /\ a[p] < b[p]

-----------------------------------------------------------------------------
(* Looking up *)

Get(entries, k, def) == IF k \in DOMAIN entries THEN entries[k] ELSE def

\* The same text as category, numbered n.
Number(category, n) == Append(Front(category), Numbered(Last(category)[1], n))

\* The numbers keys carry behind the text of category.
Numbers(entries, category) ==
    LET d == Len(category)
        In(k) == Len(k) > d /\ Number(SubSeq(k, 1, d), 0) = category
    IN  {k[d][2] : k \in {k \in DOMAIN entries : In(k)}} \ {0}

\* getLastIndex: one walk over the keys in the order of their texts, in
\* which the number looked for is raised each time it is met.
LastIndex(entries, category) ==
    LET used == Numbers(entries, category)
    IN  CHOOSE n \in 0..Cardinality(used) :
            /\ \A i \in 1..n : i \in used /\ (i > 1 => TextBefore(i - 1, i))
            /\ ~(n + 1 \in used /\ (n > 0 => TextBefore(n, n + 1)))

\* Mutant: the last block is not counted.
SequenceCountLess(entries, name) == Cardinality(Numbers(entries, <<Part(name)>>) \ {1})

\* sequenceCount: the highest number.
SequenceCount(entries, name) ==
    LET used == Numbers(entries, <<Part(name)>>)
    IN  IF used = {} THEN 0 ELSE Max(used)

SeqVal(entries, name, i, key, def) ==
    Get(entries, Key(<<Numbered(name, i)>>, key), def)

\* getVarContent: an entry of the block would be looked for under "block.key",
\* a text no key has, so only the whole key counts.
VarContent(entries, k) == Get(entries, k, Empty)

Found(entries, v) == v[1] = "lit" \/ VarContent(entries, v[2]) # Empty

\* replaceVars
Replaced(entries, v) ==
    IF v[1] = "lit" \/ ~Found(entries, v) THEN v ELSE VarContent(entries, v[2])

-----------------------------------------------------------------------------
(* Reading a line.  A reader r has the members of UnrealConfig and the     *)
(* locals category and permit of read, which are at rest between files;    *)
(* fate tells a read that goes on from one that left the process or never  *)
(* gets past a line.                                                       *)

NewConfig == [entries |-> DefaultEntries, files |-> <<>>, modules |-> <<>>,
              sequences |-> DefaultSequences, warnings |-> 0, fate |-> "reading",
              category |-> <<>>, permit |-> TRUE]

Warned(r) == [r EXCEPT !.warnings = @ + 1]

\* " {": a nested name counts only for the look into sequences_; a nested
\* block that is not numbered forgets the block around it.
Open(r, l) ==
    LET nested   == r.category \o <<Part(l.name)>>
        block    == IF l.plus THEN <<Part(l.name)>> ELSE nested
    IN  [r EXCEPT !.category =
            IF l.plus \/ nested \in r.sequences
            THEN Number(block, LastIndex(r.entries, block) + 1)
            ELSE <<Part(l.name)>>]

\* "};"
Close(r) ==
    [r EXCEPT !.category = IF Len(@) > 1 THEN Front(@) ELSE <<>>]

\* Mutant: a later assignment overwrites an earlier one.
AddOverwrites(entries, k, v) == (k :> v) @@ entries

\* Map::add: std::map::insert, which keeps what is there.
Add(entries, k, v) ==
    [x \in DOMAIN entries \cup {k} |-> IF x \in DOMAIN entries THEN entries[x] ELSE v]

\* "key value;"
Assign(r, l) ==
    LET s == IF Found(r.entries, l.val) THEN r ELSE Warned(r)
    IN  [s EXCEPT !.entries = Add(@, Key(r.category, l.key), Replaced(r.entries, l.val))]

Compares(op, a, b) ==
    CASE op = "==" -> a = b
      [] op = "!=" -> a # b
      [] op = "<=" -> TextOrder(a) <= TextOrder(b)
      [] op = ">=" -> TextOrder(a) >= TextOrder(b)
      [] op = "<"  -> TextOrder(a) < TextOrder(b)
      [] op = ">"  -> TextOrder(a) > TextOrder(b)

\* "If a op b": evaluated even when the lines around it are skipped.
If(r, l) ==
    IF l.op \notin {"==", "!=", "<=", ">=", "<", ">"} THEN Warned(r)
    ELSE [r EXCEPT !.permit = Compares(l.op, Replaced(r.entries, l.left),
                                             Replaced(r.entries, l.right))]

Endif(r) == [r EXCEPT !.permit = TRUE]

\* The other directives, skipped when permit is false.  "unclosed" is any of
\* them with a missing closing quote; "assignUnclosed" is an assignment with
\* one: its loop continues on the same line and never ends.
Directive(r, l) ==
    CASE l.do = "include"    -> [r EXCEPT !.files = Append(@, l)]
      [] l.do = "load"       -> [r EXCEPT !.modules = Append(@, l.module)]
      [] l.do = "sequence"   -> [r EXCEPT !.sequences = @ \cup {r.category \o l.path}]
      [] l.do = "throw"      -> [r EXCEPT !.fate = "exited"]
      [] l.do = "unclosed"   -> Warned(r)
      [] l.do = "assignUnclosed" -> [Warned(r) EXCEPT !.fate = "spinning"]
      [] l.do = "assign"     -> Assign(r, l)

Line(r, l) ==
    IF r.fate # "reading" THEN r
    ELSE CASE l.do = "open"  -> Open(r, l)
           [] l.do = "close" -> Close(r)
           [] l.do = "if"    -> If(r, l)
           [] l.do = "endif" -> Endif(r)
           [] OTHER          -> IF r.permit THEN Directive(r, l) ELSE r

-----------------------------------------------------------------------------
(* What the administrator writes: blocks, each under a condition or none,  *)
(* and single directives.                                                  *)

Always == <<>>

-----------------------------------------------------------------------------
(* Reading files *)

IfLine(cond) == [do |-> "if", left |-> cond[1], op |-> cond[2], right |-> cond[3]]
AssignLine(set) == [do |-> "assign", key |-> set[1], val |-> set[2]]

\* The lines of a block, from its "{" to its "};".
AssignAll(r, sets) == FoldLeft(LAMBDA t, x : Line(t, AssignLine(x)), r, sets)
Block(r, b) ==
    LET open == Line(r, [do |-> "open", name |-> b.name, plus |-> b.plus])
    IN  Line(AssignAll(open, b.sets), [do |-> "close"])

Item(r, item) ==
    IF item.do # "block" THEN Line(r, item)
    ELSE IF item.cond = Always THEN Block(r, item)
    ELSE Line(Block(Line(r, IfLine(item.cond)), item), [do |-> "endif"])

\* The end of a file: an open block is a warning.
EndOfFile(r) ==
    [(IF r.category = <<>> THEN r ELSE Warned(r)) EXCEPT !.category = <<>>, !.permit = TRUE]

\* UnrealConfig::read up to the end of one file.
ReadFile(c, document) == EndOfFile(FoldLeft(Item, c, document))

\* A round of the loop over files_ at the end of read.  A read inside it
\* finds the same list, so files are read in the order they were named.
IncludeNext(c, disk) ==
    IF c.files = <<>> \/ c.fate # "reading" THEN c
    ELSE LET next == Head(c.files)
             rest == [c EXCEPT !.files = Tail(@)]
         IN  IF disk[next.file] # Gone THEN ReadFile(rest, disk[next.file])
             ELSE IF next.required THEN [rest EXCEPT !.fate = "exited"] ELSE rest

\* Files that include each other are read until the stack is full, which ends
\* the process; here it ends when files are left after MaxIncludes rounds.
StackLimit(r) ==
    IF r.files # <<>> /\ r.fate = "reading" THEN [r EXCEPT !.fate = "exited"] ELSE r

ReadIncluded(c, disk) ==
    StackLimit(FoldLeft(LAMBDA r, n : IncludeNext(r, disk), c, [n \in 1..MaxIncludes |-> n]))

\* Mutant: the loop over files_ is missing.
ReadMainOnly(c, disk) == IF disk[Main] # Gone THEN ReadFile(c, disk[Main]) ELSE c

\* read(filename_): false, and nothing read, when the file cannot be opened.
Readable(disk) == disk[Main] # Gone
Read(c, disk) == IF Readable(disk) THEN ReadIncluded(ReadFile(c, disk[Main]), disk)
                                    ELSE c

\* Mutant: rehash keeps the modules of the reads before.
ClearedButModules(c) == [NewConfig EXCEPT !.modules = c.modules]

\* rehash: entries_, files_, modules_, sequences_ and warnings_ are cleared,
\* each, and initDefaults.
Cleared(c) == NewConfig

-----------------------------------------------------------------------------
(* The readers *)

\* setupListener: blocks without an address, a port or a type are left out.
Listener(e, i) ==
    [addr |-> SeqVal(e, "Listener", i, "Address", Empty),
     port |-> SeqVal(e, "Listener", i, "Port", Empty),
     type |-> SeqVal(e, "Listener", i, "Type", Empty),
     freq |-> SeqVal(e, "Listener", i, "PingFreq",
                Get(e, Key(<<Part("Limits")>>, "PingFreq"), Lit(1)))]

Complete(l) == l.addr # Empty /\ l.port # Empty /\ l.type # Empty

\* Where a listener is that has no endpoint of its files: at a port the system
\* chose, as it is for port 0, or not open.
Anywhere == <<>>
Bound(ls) == {l.at : l \in Range(ls)} \ {Anywhere}

AddressOf(l) == <<l.addr, l.port>>

\* The result of resolve is dereferenced before its error is looked at.
Resolves(l) == AddressOf(l) \in DOMAIN Endpoint

\* What bind answers, behind the listeners ls, when the system denies some
\* endpoints: it fails for one that is bound or overlaps one that is.
Binds(ls, at, denied) ==
    /\ at \notin denied \cup Bound(ls)
    /\ \A b \in Bound(ls) : <<b, at>> \notin Clashes

\* UnrealListener::run of a block l that resolves: errors of bind are ignored,
\* and listen() finds a port.
Run(ls, l, denied) ==
    LET at == Endpoint[AddressOf(l)]
    IN  Append(ls, [block |-> l, at |-> IF Binds(ls, at, denied) THEN at ELSE Anywhere])

\* The blocks that are set up, of those numbered up to n.
Named(e, n) == {i \in 1..n : Complete(Listener(e, i))}

SetupListener(e, denied) ==
    FoldLeft(LAMBDA ls, i : IF Complete(Listener(e, i)) THEN Run(ls, Listener(e, i), denied) ELSE ls,
             <<>>, [i \in 1..SequenceCount(e, "Listener") |-> i])

AllResolve(e) == \A i \in Named(e, SequenceCount(e, "Listener")) : Resolves(Listener(e, i))

\* Mutant: the numeric is not looked at.
IdentifiedByName(m) == m.name # Empty

\* setupServer: the server ends without a name or with a bad numeric.
ServerEntry(e) == [name    |-> Get(e, Key(<<Part("Me")>>, "ServerName"), Empty),
                   numeric |-> Get(e, Key(<<Part("Me")>>, "Numeric"), Empty)]
Identified(m) == m.name # Empty /\ m.numeric \in Numerics

AnyMask == Lit(1)   \* "*!*@*"
NoOperator == [name |-> Empty, mask |-> Empty, pass |-> Empty]

Operator(e, i) == [name |-> SeqVal(e, "Operator", i, "Name", Empty),
                   mask |-> SeqVal(e, "Operator", i, "Mask", AnyMask),
                   pass |-> SeqVal(e, "Operator", i, "Password", Empty)]

Usable(o) == o.name # Empty /\ o.mask # Empty /\ o.pass # Empty

\* Mutant: the loop ends at the first block that lacks something.
FindUntilIncomplete(e, oname) ==
    LET ops == [i \in 1..SequenceCount(e, "Operator") |-> Operator(e, i)]
        hit == {i \in DOMAIN ops : ops[i].name = oname /\ \A j \in 1..i : Usable(ops[j])}
    IN  IF hit = {} THEN NoOperator ELSE ops[Min(hit)]

\* OperatorType::find: the first usable block of that name.
Find(e, oname) ==
    LET ops == [i \in 1..SequenceCount(e, "Operator") |-> Operator(e, i)]
        hit == {i \in DOMAIN ops : ops[i].name = oname /\ Usable(ops[i])}
    IN  IF hit = {} THEN NoOperator ELSE ops[Min(hit)]

\* UnrealHash::strtotype and calculate: a text of no known type is a password.
IsHash(password) == password \in Hashes
Calculates(pw, password) == <<pw, password>> \in Digests

CheckPassword(pw, password) ==
    IF IsHash(password) THEN Calculates(pw, password) ELSE password = pw

\* OPER oname pw from a client that matches the masks M.
Opers(e, oname, pw, M) ==
    LET o == Find(e, oname)
    IN  o.name # Empty /\ o.mask \in M /\ CheckPassword(pw, o.pass)

-----------------------------------------------------------------------------
(* The server *)

VARIABLES
    disk,       \* the files as they are now
    config,     \* unreal->config
    listeners,  \* unreal->listeners
    me,         \* unreal->me
    server,     \* "off", "up", "exited", "spinning" or "undefined"
    given,      \* the files as they were at the last read
    booted,     \* the files as they were when the listeners were set up
    refused,    \* what the system refused when they were
    doubled     \* what the reading a RESTART does twice shows in

vars == <<disk, config, listeners, me, server, given, booted, refused, doubled>>

Init ==
    /\ disk \in Disks
    /\ config = NewConfig
    /\ listeners = <<>>
    /\ me = ServerEntry(DefaultEntries)
    /\ server = "off"
    /\ given = disk
    /\ booted = disk
    /\ refused = {}
    /\ doubled = {}

\* What becomes of the process after a read.
After(c) == IF c.fate = "reading" THEN "up"
            ELSE IF c.fate = "spinning" THEN "spinning" ELSE "exited"

\* init() with the configuration c has become: startRead, which exits when
\* there is no file, setupListener, which is undefined when an address does
\* not resolve, and setupServer, which may exit.
Becomes(c) ==
    IF ~Readable(disk) THEN "exited"
    ELSE IF c.fate # "reading" THEN After(c)
    ELSE IF ~AllResolve(c.entries) THEN "undefined"
    ELSE IF Identified(ServerEntry(c.entries)) THEN "up" ELSE "exited"

Start(c) ==
    /\ config' = c
    /\ me' = ServerEntry(c.entries)
    /\ server' = Becomes(c)
    /\ refused' \in Refusals
    /\ listeners' = IF server' = "up" THEN SetupListener(c.entries, refused') ELSE <<>>
    /\ given' = disk /\ booted' = disk
    /\ UNCHANGED disk

Boot ==
    /\ server = "off"
    /\ Start(Read(config, disk))
    /\ UNCHANGED doubled

\* The option -C: read, say how many warnings there were, and end.
CheckConfig ==
    /\ server = "off"
    /\ config' = Read(config, disk)
    /\ server' = IF config'.fate = "spinning" THEN "spinning" ELSE "exited"
    /\ given' = disk
    /\ UNCHANGED <<disk, listeners, me, booted, refused, doubled>>

\* REHASH: the result of rehash() is not looked at, the listeners stay.
Rehash ==
    /\ server = "up"
    /\ config' = Read(Cleared(config), disk)
    /\ server' = After(config')
    /\ given' = disk
    /\ doubled' = doubled \ {"config"}
    /\ UNCHANGED <<disk, listeners, me, booted, refused>>

\* RESTART pw, restart(): rehash() and then init(), which reads the same file
\* again into the same maps.
Restart ==
    /\ server = "up"
    /\ \E pw \in Passwords :
          CheckPassword(pw, Get(config.entries, Key(<<Part("Me")>>, "RestartPassword"), Empty))
    /\ LET once == Read(Cleared(config), disk)
       IN  Start(IF once.fate = "reading" THEN Read(once, disk) ELSE once)
    /\ doubled' = {"config", "listeners"}

\* The administrator edits, removes or restores files.
Edit ==
    /\ \E d \in Edits : disk' = d
    /\ UNCHANGED <<config, listeners, me, server, given, booted, refused, doubled>>

Next == CheckConfig \/ Boot \/ Rehash \/ Restart \/ Edit

Spec == Init /\ [][Next]_vars

-----------------------------------------------------------------------------
(* What a document means, said without a reader: its blocks of one name    *)
(* are numbered from 1 as they stand, and the first assignment to a key    *)
(* counts.  Conditions in documents are about literals and defaults.       *)

\* The files a document includes.
Included(document) ==
    FoldLeft(LAMBDA fs, item : IF item.do = "include" THEN Append(fs, item) ELSE fs,
             <<>>, document)

\* The documents in the order they are read: the files Main includes follow it.
Whole(d) ==
    FoldLeft(LAMBDA items, l : items \o (IF d[l.file] = Gone THEN <<>> ELSE d[l.file]),
             d[Main], Included(d[Main]))

Holds(cond) == cond = Always \/ Compares(cond[2], Replaced(DefaultEntries, cond[1]),
                                                  Replaced(DefaultEntries, cond[3]))

\* Blocks that leave something in the configuration.
Counts(items, j) == items[j].do = "block" /\ items[j].sets # <<>> /\ Holds(items[j].cond)

IsNumbered(items, j) ==
    \/ items[j].plus
    \/ <<Part(items[j].name)>> \in DefaultSequences
    \/ \E i \in 1..(j - 1) : /\ items[i].do = "sequence"
                             /\ items[i].path = <<Part(items[j].name)>>

\* How many blocks of a name are numbered up to the j-th item.
Counted(items, name, j) ==
    Cardinality({i \in 1..j : /\ Counts(items, i) /\ IsNumbered(items, i)
                              /\ items[i].name = name})

Place(items, j) ==
    IF ~IsNumbered(items, j) THEN <<Part(items[j].name)>>
    ELSE <<Numbered(items[j].name, Counted(items, items[j].name, j))>>

Settings(items, j) ==
    IF ~Counts(items, j) THEN <<>>
    ELSE [i \in DOMAIN items[j].sets |->
            <<Key(Place(items, j), items[j].sets[i][1]), items[j].sets[i][2]>>]

Assignments(items) ==
    FoldLeft(LAMBDA A, j : A \o Settings(items, j), <<>>, [j \in DOMAIN items |-> j])

\* The first assignment to k before the i-th, 0 when there is none.
FirstBefore(A, k, i) ==
    LET js == {j \in 1..(i - 1) : A[j][1] = k} IN IF js = {} THEN 0 ELSE Min(js)

\* What the i-th assignment assigns, when the earlier ones assign value.
Value(A, value, i) ==
    LET v == A[i][2]
        j == FirstBefore(A, v[2], i)
    IN  IF v[1] = "lit" THEN v
        ELSE IF v[2] \in DOMAIN DefaultEntries THEN DefaultEntries[v[2]]
        ELSE IF j = 0 THEN v
        ELSE IF value[j] = Empty THEN v ELSE value[j]

\* The entries a sequence of assignments leaves.
Entries(A) ==
    LET value[i \in DOMAIN A] == Value(A, value, i)
        keys == {A[i][1] : i \in DOMAIN A}
    IN  [k \in DOMAIN DefaultEntries \cup keys |->
            IF k \in DOMAIN DefaultEntries THEN DefaultEntries[k]
            ELSE value[FirstBefore(A, k, Len(A) + 1)]]

Meaning(items) == Entries(Assignments(items))

\* How often a name is numbered in the document.
Total(items, name) == Counted(items, name, Len(items))

\* The modules the directives of a document load.
Loads(items) ==
    FoldLeft(LAMBDA names, item : IF item.do = "load" THEN Append(names, item.module) ELSE names,
             <<>>, items)

-----------------------------------------------------------------------------
(* Files whose meaning this is, for any of them.                           *)

Plain(v) == v[1] = "lit" \/ v[2] \in DOMAIN DefaultEntries

PlainCondition(cond) ==
    \/ cond = Always
    \/ cond[2] \in {"==", "!=", "<=", ">=", "<", ">"} /\ Plain(cond[1]) /\ Plain(cond[3])

\* Directives that stand between blocks.
Between == {"include", "load", "sequence", "throw", "unclosed", "assignUnclosed"}

WrittenPlainly(document) ==
    \A item \in Range(document) :
        \/ item.do \in Between
        \/ item.do = "block" /\ PlainCondition(item.cond)

\* Conditions are about literals and defaults, included files include nothing.
WellWritten(d) ==
    LET included == Included(d[Main])
    IN  /\ WrittenPlainly(d[Main])
        /\ Len(included) <= MaxIncludes
        /\ \A l \in Range(included) :
              /\ l.file \in Files
              /\ d[l.file] # Gone =>
                    /\ WrittenPlainly(d[l.file])
                    /\ \A item \in Range(d[l.file]) : item.do # "include"

\* From the eleventh block of a name on getLastIndex finds no free number.
AtMostTen(items) ==
    \A j \in DOMAIN items : items[j].do = "block" => Total(items, items[j].name) <= 10

\* A second read may find what the first did not, so values that are read by
\* block are literals or defaults.
PlainBlocks(items) ==
    \A j \in DOMAIN items :
        items[j].do = "block" /\ items[j].name \in {"Listener", "Operator"} =>
            \A i \in DOMAIN items[j].sets : Plain(items[j].sets[i][2])

-----------------------------------------------------------------------------
(* Properties *)

\* After a start or a REHASH the configuration holds what the files say and
\* nothing else, each block of a sequence under its own number: Map::add
\* keeps the first, getLastIndex finds the free number, conditions skip
\* whole blocks, and included files come last (UnrealConfig::read).
EntriesAsWritten ==
    server = "up" /\ Readable(given) /\ "config" \notin doubled =>
        config.entries = Meaning(Whole(given))

\* The listeners are those of the files the server was started with, in
\* order, whatever REHASH has read since.  After a RESTART, which sets each up
\* twice, there is still one listener, not two, at an endpoint.  None is at
\* one the files do not name, or the system refused, and no two overlap; and
\* one the files name is listened at, unless it was refused or overlaps one of
\* a block before (setupListener, sequenceCount, UnrealListener::run).
ListenersAsWritten ==
    server = "up" =>
        LET items   == Whole(booted)
            m       == Meaning(items)
            count   == Total(items, "Listener")
            written == FoldLeft(LAMBDA w, i : IF Complete(Listener(m, i))
                                              THEN Append(w, Listener(m, i)) ELSE w,
                                <<>>, [i \in 1..count |-> i])
            bound   == Bound(listeners)
            At(i)   == Endpoint[AddressOf(Listener(m, i))]
        IN  /\ "listeners" \notin doubled =>
                  [i \in DOMAIN listeners |-> listeners[i].block] = written
            /\ Cardinality({i \in DOMAIN listeners : listeners[i].at # Anywhere})
                  = Cardinality(bound)
            /\ bound \subseteq {At(i) : i \in Named(m, count)} \ refused
            /\ \A a, b \in bound : <<a, b>> \notin Clashes
            /\ \A i \in Named(m, count) :
                  \/ At(i) \in bound \cup refused \cup {Anywhere}
                  \/ \E j \in Named(m, count) :
                        j < i /\ At(j) \in bound /\ <<At(j), At(i)>> \in Clashes

\* OPER looks at the first usable block of a name, also behind unusable ones
\* and after a RESTART that numbered every block twice, and at no other: who
\* has its password and its mask becomes an operator, and nobody else
\* (OperatorType::find and checkPassword).
OperatorsAsWritten ==
    server = "up" /\ Readable(given) =>
        LET items == Whole(given)
            m     == Meaning(items)
            ops   == [i \in 1..Total(items, "Operator") |-> Operator(m, i)]
        IN  \A n \in 1..9 :
                LET usable == {i \in DOMAIN ops : ops[i].name = Lit(n) /\ Usable(ops[i])}
                    first  == ops[Min(usable)]
                IN  \A pw \in Passwords, M \in {{AnyMask}, {AnyMask, Lit(5)}} :
                        Opers(config.entries, Lit(n), pw, M) <=>
                            /\ usable # {}
                            /\ first.mask \in M
                            /\ \/ first.pass = pw /\ pw \notin Hashes
                               \/ <<pw, first.pass>> \in Digests

\* A running server has the name and the numeric its files gave it when it
\* started, and the numeric is one other servers accept, whatever REHASH has
\* read since and RESTART has read twice (setupServer, rehash).
IdentityAsWritten ==
    server = "up" =>
        /\ me.name # Empty /\ me.numeric \in Numerics
        /\ me = ServerEntry(Meaning(Whole(booted)))

\* The modules a start loads are those the files name, in the order they are
\* read, included files last and none of an earlier file; a RESTART names
\* each of them twice (rehash, which clears modules_, startRead).
ModulesAsWritten ==
    server = "up" /\ Readable(given) =>
        LET once == Loads(Whole(given))
        IN  config.modules = IF "config" \in doubled THEN once \o once ELSE once
=============================================================================
