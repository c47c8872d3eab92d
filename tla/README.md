# u4-ircd in TLA+

A verification development for the IRC server in this repository: TLA+ modules
translated from its C++ sources, TLC configurations that check them on small
instances, and proofs that TLAPS checks for instances of every size.

## 1. The system

The server is one process with one thread. `UnrealBase::run` hands control to a
boost::asio reactor; everything else is a completion handler that runs to its
end before the next one starts. So a command handler, a timer handler or an
error report is atomic, and all concurrency is in the ORDER of handlers: of
several clients, and of the several operations one client has pending at once.

| component | source | state | operations | hard behaviour |
|---|---|---|---|---|
| channel membership | `channel.cpp`, `user.cpp` (`joinChannel`, `leaveChannel`, `exit`), `cmd/join`, `part`, `kick`, `quit`, `kill` | `unreal->channels`, `UnrealChannel::members`, `UnrealUser::channels` | JOIN, JOIN 0, PART, KICK, QUIT, KILL, connection end | the relation is stored twice, five leave paths delete emptied channels, queued commands run after a close |
| invites | `cmd/invite.cpp`, `user.cpp:742-824` | `UnrealChannel::invites` (bare pointers) | INVITE, use, `-i` | entries outlive users; addresses are used again |
| channel modes | `channel.cpp:465-859`, `mode.hpp`, `cmd/mode.cpp` | mode bits, key, limit, bans, member flags | MODE, its broadcast | privileges change while a line is parsed; two cursors over one line |
| messages, topic, queries | `cmd/privmsg`, `notice`, `topic`, `who`, `whois`, `names`, `list` | topic | PRIVMSG, NOTICE, TOPIC, queries | order of the `canSend` checks; who may see what |
| session, registration | `user.cpp`, `listener.cpp`, `cmd/nick`, `user`, `pong` | auth flags, nick map, `user_destructs`, resolver and ident queries | accept, NICK, USER, PONG, resolver and ident callbacks, error reports | callbacks race the end of the connection; deletion is deferred |
| timers | `user.cpp:151-203`, `timer.cpp` | one timer per user, last PONG | authorization and ping timeout | an expired handler and the PONG that cancels it; two unrelated periods |
| receive queue, flood control | `recvq.cpp`, `listener.cpp:180-309`, `base.cpp:523-559` | queue, score | line arrives, tick | 8-bit score, limits between ticks, queue of a closed user |
| text | `string.hpp`, `string.cpp`, `listener.cpp:428-462` | none | split, join, match, quotes | loops over characters |
| command table, modules | `command.cpp`, `module.cpp`, `cmd/insmod`, `cmd/rmmod` | command map, module list, hooks | load, reload, unload | two names of one library, failed loads, references to unmapped code |
| whowas | `cmd/whowas.cpp` | history per nick | user gone, WHOWAS | trimming at the limit, reload |
| configuration | `config.cpp`, `cmd/rehash` | key map, sequences | read, REHASH | numbering of blocks, conditions, what an old file leaves behind |
| start, restart, identity | `base.cpp`, `cmd/restart`, `cmd/oper`, `hash.cpp` | listeners, `me` | init, finish, RESTART, passwords | everything is read and set up twice |
| statistics | `stats.hpp`, `user.cpp`, `listener.cpp`, `cmd/lusers` | counters | every accept, registration, mode and end | counted by other paths than uncounted |
| away, ISON, USERHOST, MOTD, ... | `cmd/*` | one away text per user | replies | none |
| log, time, containers, links | `log`, `time`, `list.hpp`, `map.hpp`, `server` | none | helpers | none |

Components meet in five places. (1) `removeConnection` calls `exit` (leaves the
channels) and `destroy` (deletes or defers). (2) Command handlers run from the
receive queue for any user in `local_users` and test `isIntroduced`, which
reads the auth flags that resolver and ident callbacks write. (3) `Member`
entries, invite lists, `user_destructs` and every callback hold bare pointers
to users. (4) `joinChannel` calls NAMES and TOPIC through the command table,
which modules fill. (5) Every command asks the configuration at its run, so
REHASH changes some things at once and others never.

What makes each component correct: the two directions of the membership agree
and a channel exists exactly while somebody is in it; only the privileged
change a channel; what a client is told is what happened; no nickname, dead
connection or deferred deletion is forgotten; a client is throttled and its
lines run in order; no table refers to code that is gone; the configuration is
what the files say; counters count. `PROJECT.json` lists the hazards with the
lines where they bite.

## 2. Modules

| module | models | role |
|---|---|---|
| `Membership` | what channels promise | abstract specification |
| `Channels` | membership, invites, modes, operator status, the end of a user | one action per command or handler; implements `Membership` |
| `Session` | accept to deletion, NICK, USER, PONG, DNS, ident, timers | one action per handler |
| `Flood` | score, receive queue by number of lines, the one-second loop | with a clock |
| `RecvQueue` | the queue's string, the read of a line, `split`, `join`, `splitLine` | the text side of `Flood` |
| `Wildcard` | `String::match` | one round of its loop per step |
| `Quotes` | the value of an entry in its quotes (`getQuotedContent`) | one character per step; the text side of `Config` |
| `ModeTable` | mode letters and their bits | used by `Talk` |
| `Talk` | mode lines, broadcasts, replies | server and what a client believes |
| `Stats` | counters, user modes and their echo | |
| `Modules` | modules, command table, hook, WHOWAS | |
| `Config` | configuration, listeners, identity, operators, REHASH, RESTART | one read per step |
| `PingTimer` | the timer of a connection | with a clock |
| `MC...` | | constants and symmetry for TLC |
| `ChannelsProofs`, `SessionProofs`, `StatsProofs`, `TalkProofs`, `ConfigProofs` | | proofs about the module of that name |
| `ClockProofs` | | proofs about `Flood` and `PingTimer` |
| `InputProofs` | | proofs about `Wildcard`, `RecvQueue`, `Quotes` and `Modules` |
| `FoldProofs` | | what `FoldLeft` computes, for any sequence |

### Channels and Membership

A user is named by the ADDRESS of its `UnrealUser`, because Member entries and
invite lists store that address; a deleted user's address may be given to a
later one. `joined[u][c]` counts the entries for `c` in the list
`UnrealUser::channels`, `members[c]` is the key set of `UnrealChannel::members`,
`flags` the Member flags, `channels` the names in `unreal->channels`.

A close is not the end. `exit(message)` only closes the socket (`closed`); the
report comes later as `CloseReported`, and in between the queued commands of
the user still run (`Commands` does not look at `closed`). At the report the
user leaves its channels and is deleted or, while a lookup is pending, put in
`doomed`; `DestroyDoomed` deletes it later, leaving nothing. With `IdentCheck`
a doomed user can still become introduced.

Command lists (`JOIN #a,#b`, `MODE +ik key`) are one action per item: each item
reads what the last one wrote and no other handler runs in between, so every
property is checked on more states than the code has between handlers. A
refused command changes nothing and is no step.

`Membership` knows none of this: a relation of users and names, where somebody
alone is operator and who goes is out of everything. `ImplementsMembership`
substitutes the introduced users, the member tables and the operator flags; a
step of `Channels` that touches several tables is one abstract step.

### Session and PingTimer

One record per address holds the auth flags, the state of the client socket,
the outstanding DNS query, the ident socket, the timer, the queued error
reports and the number of copies in `user_destructs`. `ReverseAnswer`,
`ReverseError`, `ForwardAnswer` are `handleResolveResponse` split by what was
outstanding. When the code calls the throwing `remote_endpoint()` on a dead
socket, `fate` becomes `crashed`; when a callback runs for a deleted object,
`undefined`; nothing is modelled after either. The constant `Mishaps` says what
the environment does: a failing reverse query, a resolver slower than the
client (`slow_dns`), a client gone at accept, a write that fails besides the
read, a timer queued beside a report. `Session` has no clock: a timer may fire
whenever it is set. `PingTimer` has one, for one connection, since connections
do not share a timer.

`NoNick` stands for the empty nickname, which a user has at first and which
`NICK :` sets: the nick map then gets an entry that nothing removes
(`NicksWithout`), not even the deletion of its user, and a command that looks
the empty name up later follows a dead pointer (`StaleLookup`). `NickMapExact`
is about all other entries, and that no nickname has two.

### Flood, RecvQueue, Wildcard and Quotes

Every line has `LineLen` bytes in `Flood`: only their number matters to the
score and, times the length, to the limits. `ahead` is a history variable:
lines run minus seconds. The penalty limit is read through `toUInt8`, which
extracts a character, so a configured 5 means 53; the model does as the code.

`RecvQueue` is the queue with its text: `typed` is what the socket has read of a
line that is not complete, `queue` is the string `UnrealRecvQueue` keeps, with a
separator between two lines, and `lines` is a history of the lines that were
given to it. `GetLine` cuts the string and joins the rest as the code does;
`SplitLine` cuts a line into a command and its arguments, and keeps an empty
word between two blanks. `processRecvQueue` then asks for the first character of
the first word. A line that begins with a blank, or that is nothing but a return,
has none: the exception leaves the reactor (`Throws`), `thrown` is set and
nothing happens after it.

`Wildcard` goes over a mask and a text with the places `m` and `n`, and keeps in
`ma` and `na` the one place of each to go back to, behind the last star. A round
of the loop that meets a star is two steps, the star's and that of what stands
behind it. When the mask has ended before the text, the code goes back and
compares at once, without looking whether a text is left; `ReadsInside` is that
there is always one.

`Quotes` reads a value character by character: `siter` is the place, `val` the
value so far, `has_quote` whether a quote is open. `behind` is what the line
holds behind the name of the entry, `Passed` what of it the scan is given:
`line.mid(fi + 1, sc)`, as many characters as stand in front of the first
semicolon of the whole line, so a name's length more than up to that semicolon.
Behind that semicolon (`EntryEnd`) the line is read on, whether it stood in
quotes or not. The three modules share nothing, so a behaviour of `MCText` has
one of them at work.

### Talk, ModeTable and Stats

`Talk` has the server's channel state and, in `view`, what a client believes
that starts from the replies to its JOIN and then reads broadcasts by the
announced CHANMODES and PREFIX. `ParseLine` is `parseModeChange` with its cursor
`par`, `Write` and `Pieces` are `modebufSend`, `Read` is the client (external).
A `+v` or `-v` beyond the last word throws through the reactor and ends the
server, so `Mode` is not enabled for such a line. Words go out as they are
stored, and `OnWire` says what a client reads of each: nothing of an empty one,
two of one with a blank. A user that is sent such a word, or a change of the key
that is written without one before other changes (`Garbled`), or a ban list with
such a mask, is `misread` from then on: what its client believes of modes, bans
and operators is no longer compared, but its members and topic still are. Modes
are bits that `ModeTable` assigns as `registerMode` does: every flag comes from
the table and is a power of two, so a bit is named by its exponent and a mask is
the set of the bits that are 1. `Stats` moves each counter where the code does;
`told` is what the echo of user modes says. A user's modes are the letters of
its mask there.

### Modules

A module is found by file name, its static state belongs to the library the
loader maps, and two names may reach one library (`aliased`). Boot, INSMOD,
RMMOD, a reload and RESTART are steps; `fault` records the first undefined one
(a handler deleted twice, a command whose code is unmapped while it runs, the
erasing of `end()`).

### Config

A key is its text split at `::`, each part with its number; a document is a
sequence of directives; reading is an operator on the members of `UnrealConfig`.
`Meaning` says what a document means without reading it: it is a sequence of
assignments, in the order of the document and of the files it includes, a block
has the number its place among the blocks of its name gives it, and the first
assignment to a key counts. The properties compare the two. `doubled` marks what
RESTART has read twice. `Endpoint` says which address texts resolve, and where
to, so that two texts may be one endpoint and port 0 none; `Clashes` says which
endpoints cannot be bound side by side, as every interface and one of them, and
`Refusals` which the system may refuse because other processes have them or a
port it chose earlier is one of them. `Run` binds as the code does: a failed
bind is ignored and `listen` gets a port the system chooses (`Anywhere`). An
address that does not resolve is dereferenced before its error is looked at
(`listener.cpp:347`), and the server is `undefined`. `MaxIncludes` bounds the
files one read may include; files that include each other pass every bound, and
end the process in the model as a full stack does in the code.

## 3. Runs

| run | instance | shows |
|---|---|---|
| `membership` | 3 addresses, 2 channels, +o, symmetry | both directions agree, member entries and invites are sound, the abstract relation is implemented |
| `modes` | 2 addresses, 1 channel, all letters, creation for operators only, fairness | only the privileged change a channel; a closed user is out of every channel in the end |
| `session` | 2 addresses, a nickname and the empty one, ident lookups, failing reverse queries, clients gone at accept, timers beside reports, handlers of one user at a time, symmetry | nick map, reports of dead connections, only ended connections are destroyed |
| `session_lookup` | 1 address, slow resolver, timers beside reports, up to 3 reports of one connection, fairness | awaited answers are outstanding, deferred deletions end, nobody lingers |
| `flood` | 2 clients, limits and penalty of the source, checks on and off, fairness | throttling, the bound of the queue, held lines run |
| `talk` | 2 users, 1 channel, 11 mode lines, an empty word and one with a blank | clients know members and topic, and till they are misled operators, modes, bans, whether they are heard and who sees them |
| `modules` | 5 names of 4 libraries, 2 nicknames, a history of 3 | tables and hooks exact, WHOWAS complete |
| `stats` | 2 sockets, 2 slots, 3 accepts, 4 mode lines | counters agree, own modes are known |
| `config` | 387 documents, those that include a file with and without it, 8 edits; endpoints that overlap, are refused, do not resolve or are written twice | entries, operators, modules, identity are what the files say, listeners what files and system leave |
| `ping` | ticks of ten seconds, frequencies below, at and above two minutes | who answers stays, who is silent goes |
| `text` | masks up to 5 characters of 4 on texts up to 4; lines of together up to 6 characters of 4; values up to 3 in texts up to 7, behind names of 1 and 3 | a mask matches what it means, the loop reads inside both texts and ends; lines come out in order and are cut into their words or throw; values without semicolons are read as written |
| `ghost_member` | ident lookups | VIOLATED: a Member entry outlives its user |

Why the bounds are enough. Two members exercise "not the last one" and "the last
one"; a third address lets one leave while one acts on another. Two channels
exercise lists longer than one. One limit, one key and the masks "one user" and
"everybody" tell all outcomes of the join gates apart. Sessions of different
addresses meet only in the nick map, so two addresses with a nickname and the
empty one show renames, collisions, address reuse and the entry that stays, and
one address all that concerns one session and the next at the same address. For
the same reason `OneBusy` bounds `session` to states in which the handlers of
one user at most are outstanding or queued: the other has its nickname, or takes
one. `MaxReports` bounds the reports of one session that wait to be handled or
were deferred: a failed write adds none beyond it. Three let a deletion be
deferred three times. Lines of 100 bytes reach the soft limit of 512 and the
hard one of 1024 in a few steps, `MaxLate` is what a socket may deliver after
its close, and score and penalty keep the numbers of the source. The mode lines
of `talk` cross a piece of six changes, change sign, repeat a change, run out of
words, read beyond the last one, and give or take the privilege of their own
sender, and leave their readers a word too many or too few. `Bounds` allows one
IRC operator and one invisible user at a time, and neither, nor other bans or a
topic, beside an odd word: who is misread is compared in names and topic only.
The third accept of `stats` finds both slots taken. `HistoryLimit` 3 is reached
by two nicknames. The documents of `config` are all pairs of 15 blocks and an
include, all triples of the 5 that numbering depends on, and those with a
required include, a declared sequence, an unclosed block, a missing quote or a
throw; ten listeners show the order of keys as texts. Two addresses, one of
which is every interface, two texts of one port, port 0, an address that does
not resolve and one endpoint the system may refuse tell the outcomes of `run`
apart. `MaxQuiet` is beyond every timeout; `Lag` and `Late` leave room on both
sides of the two minutes. A mask of five characters holds two stars with
something before, between or behind them, six characters are up to three lines
with words, a long last word and a return, and a value of three holds a quote, a
semicolon and a backslash; behind a name of one or three characters the scan
gets less or more of what follows. The ASSUME of `MCConfig` is that its files
satisfy what the theorems of 4 assume.

Fairness. The reactor dispatches every handler that is ready, so the report of
a close, a queued error, a resolver answer (the resolver has its own timeout)
and an expired timer are weakly fair, and so is the one-second tick, which sets
its own timer again. Nothing is assumed of clients and ident servers. No run
assumes more.

Deadlock is not checked in `modules`, `stats`, `ping` and `text`: after an
undefined step, an exception, the last accept, the end of the connection or the
end of a loop over characters nothing is left to do.

## 4. Proofs

`ChannelsProofs` proves, for any users, channels and parameters, that `IInv` is
inductive: `ChanInv` (types, `NoEmptyChannel`, `InvitesOutside`, and that status
needs membership) and, if ident lookups are off, `NoGhost` (both directions
agree, members are introduced, no deferred user is introduced). `NoGhost` is
needed because the end of a user removes it only from the channels of its own
list; `NoEmptyChannel` because `leaveChannel` finds channels by name. From it
follow `TypeCorrect`, `NoEmpty`, `NothingStale`, `Privileged` with and without
ident lookups, and `Symmetric`, `NoDanglingMember` without; the run
`ghost_member` shows they do not hold with. The assumption used is `ParamsOK`.

It also proves `Refines`: without ident lookups every behaviour of
`Channels` is one of `Membership`. The same `IInv` does the work: that a user's
list and the member tables agree makes "leave every channel in the list" the
abstract step that leaves all, and that nobody outside has a status makes
entering the abstract step.

`SessionProofs` proves `TypeOK`, `NickMapExact` and `DeadIsReported` of
`Session` for any number of addresses and nicknames, the empty one among them,
with any mishaps, ident lookups or not. The strengthening the nick map needs is
that an address without a user keeps no nickname (`FreeIsNameless`), or
accepting a connection at a used address would bring one back. For
`DeadIsReported` the handlers are taken apart into what they do to one record: a
write and a revoked flag only ever add reports, a close adds one, and `destroy`
trades one for an entry in `user_destructs` or deletes the user. The assumption
used is `SessionParams`.

The three properties of `Session` about lookups hold only while some mishap
stays away, and each theorem names the mishaps it cannot bear (5 says what
happens with them). `Kept` says of one record, each clause under its own
condition, that a flag waits for something that was asked (`Answers`), that a
fast resolver has answered when a connection ends (`Patient`), that the end of a
connection is ahead once (`EndsOnce`) and that a deferred deletion has a
callback (`ComesBack`). `AwaitedOutstanding` needs reverse queries that do not
fail. `DeferredMet` needs them too and no ident lookups, and either `OneEnd` or
clients that are not gone at accept. `OnlyEndedGone` needs `OneEnd`: one report
a connection, and a resolver that is fast or the only one waited for.

`ClockProofs` proves the types of `Flood`, `Throttled` and `QueueBounded` for
any number of clients. The invariant says of an open connection that its lines
are paid for or held (`Paid`): what ran ahead of the clock is the score minus
what is held. That is true only while the 8-bit score cannot wrap, so
`AlwaysThrottled` assumes `NoWrap`: a client whose score is about to pass 255
holds enough to be closed already. With the limits of the source every line
length from six bytes on satisfies it. `AlwaysBounded` needs no such assumption:
whatever the score, a line is added only after the length was compared, and a
socket that is closed delivers no more than it had read.

`ClockProofs` also proves `AnsweringStays` and `SilentGoes` for any frequencies,
delays and timeouts; the first says of every handler, the ping check and the
authorization timeout a PONG overtook, that it does not close. Everything is
measured against `Elapsed`, the time since the last check: the timer is set or
its handler queued, never both and never neither, and a client that answers was
heard since that check or still owes the PING that went out with it. The
assumption used is `TimerParams`.

`InputProofs` proves the properties and the types of `Modules` for any files,
libraries and history limit. INSMOD, RMMOD, reloads and RESTART are compositions
of three operators on one record, so the invariant is stated of that record and
there is one lemma for each operator. `NoStaleCode` holds up to the first
undefined step, `CommandsExact` and `RecordedOnce` while no library was loaded
under two names, which is when each handler belongs to one name. `DeletedOnce`
adds that without two names no handler is deleted twice.

`FoldProofs` and `StatsProofs` go by induction over a line. The library's
induction theorems cannot be used, but induction over a SET can: a set of
numbers with zero and all successors is `Nat` (`SetInduction`, from the
well-foundedness of `<`). So FoldLeft, which is a recursive function on sets of
positions, has a solution (`FoldExists`), what it preserves it preserves
throughout (`PositionInduction`), and one element more is applied to the rest
(`FoldMore`). `StatsProofs` uses this twice, for the line a user sends and for
the echo it reads: `Partial` says that what the echo says so far is what the
line did so far and that the counters moved along, and no letter leads out of it
(`LetterKeeps`). The invariant `IInv` then says what each counter counts. It
needs that who is gone has no modes, since a socket comes back as another user,
and that a doomed user has no slot, since its second report would free one
again. `UsersKnowTheirModes` is thus for lines of every length. User modes are
letters here; that the letters of a table have bits of their own is proved in
`TalkProofs`.

`TalkProofs` proves the four properties of `Talk` for any users, channels, masks
and mode lines. Its invariant says of every member of every channel that what
its client believes is what the server has (`Believed`). Every step but one
sends a line that tells its change directly. A mode line passes through four
folds, each treated as in `StatsProofs`: a letter that changes the channel
appends its change to the list and nothing else does (`LetterListed`), so who
applies the list to what it knew knows the channel (`ParseKnows`); `Write` makes
a piece of up to six changes, the letters of the piece read with its words are
those changes in order (`PieceReads`), and the pieces together hold the whole
list (`LinesRead`). For members and topic that is all (`AlwaysMembersKnown`).
For operators, modes and bans it needs that the words are read as they are
written. `Legible` says this of a list of changes, it is what `Garbled` denies,
and `Believed` asks the rest only of who is not `misread`; so `AlwaysEchoExact`
needs no assumption about the lines clients send. Two things mislead a client.
The code stores a word of a mode line whatever it is, and its echo drops it if
it is empty and becomes two words if it holds a blank. And `-k` is echoed
without the word that CHANMODES announces for it, so a client takes that of the
next letter; what `+k` set earlier in the line is echoed with the key as it is
at the end. `NotGarbled` and `LinesRead` show that nothing else goes wrong.
`AlwaysKnowsWhetherHeard` and `AlwaysKnowsWhoSees` follow: what a client knows
decides what `canSend`, WHO, WHOIS and LIST decide. Of the table they need that
letters do not share a bit, for any width (`TableType`), and that +m, +p and +s
have one, for which twelve bits suffice (`TableComplete`; the source has a
`uint32_t`), so they assume `Width >= 12`. The assumptions used are `TalkParams`
and `WidthOK`.

`InputProofs` proves the properties of the three algorithms on texts, for texts
of any length.

* `Wildcard`: a cut says at which place of the text each character of the mask
  begins. `MatchInv` says that what was read since the last star fits the text
  there, behind some cut of what precedes it (`Reached`), and that no cut of the
  whole text has that stretch begin earlier (`Possible`). So going back to the
  LAST star only is enough: what an earlier star could take more, the last one
  can take instead. From it follow that the answer is the meaning of
  the mask (`AlwaysWildcard`) and that the code compares inside both texts after
  going back (`AlwaysInside`); `AlwaysAdvances` gives the measure that grows in
  every step, so the loop without a condition ends. `MatchParams` says that masks
  and texts are sequences of characters.
* `RecvQueue`: cutting and joining undo each other (`JoinPieces`, `PiecesJoin`,
  `JoinNested`, by induction over the text), so the string is always its lines
  with separators between them (`QueueInv`), and the words of a line with a long
  last one are the line again; the first is empty only if the line begins
  with a blank or is trimmed to nothing (`TrimmedThrows`), and only such lines end
  the server (`AlwaysWords`). `QueueParams` says that no line
  holds the separator; the stream read up to it.
* `Quotes`: of every value the text may begin with, what was read is a part, and
  the rest of the text begins with the rest of the value, written down
  (`QuoteInv`). That the scan is given all of a value without a semicolon is
  `WrittenPassed`: the first semicolon is then the one behind its closing quote.
  Values with a semicolon, and those that end in a backslash, are left out of
  the property (5). `QuoteParams` says that letters are none of the special
  characters.

`ConfigProofs` proves four of the five properties of `Config`. `ConfigInv` says
which disk the configuration is a reading of and whether it was read once or
twice, and the same of the listeners and the name of the server, since REHASH
changes one and not the other. The properties are about what one reading of a
disk makes of it. Reading is a fold over directives, over the assignments of a
block and over the files included; each fold is taken as a run, the sequence of
the states it passes through (`EachRuns`). What the reader holds before the j-th
directive is `Good`: its entries are what the assignments so far mean, its
sequences are those declared so far, and the numbers used for a name are 1 up to
the number of its blocks so far, which is why `getLastIndex` finds the next one.
A block keeps `Good` because the first assignment counts both in the map and in
the meaning. A read that goes on is thus the meaning of the documents in their
order (`ReadOnce`), and a second read is the meaning of the documents twice
(`ReadTwice`), whose blocks are those of the first, numbered on. The readers
follow. What `SetupListener` opens is, for any list of blocks, `Granted`: no
endpoint twice, none refused, no two that overlap, and each of a block unless it
was refused, or overlaps one of a block before; a second listener of an endpoint
finds it taken, so the list may as well be read twice. The first usable operator
block of a name is one of the first half.

Each theorem names what it needs of the files, and no more; where the code does
otherwise, 5 says so.

* `WellGiven` (all four): conditions compare literals and built-in values,
  included files include none, they are at most `MaxIncludes`, and a name has at
  most ten blocks. From the eleventh on `getLastIndex` finds no free number.
* `FewGiven` (all but `AlwaysEntries`): ten blocks also when the files are read
  twice, because RESTART goes on numbering.
* `PlainGiven` (operators and listeners): values in these blocks are literals or
  built-in values. A second read may resolve a reference that the first left.

`AlwaysEntries` says nothing of what was read twice, so it does not need the
second. The run `config` checks the properties also for ten listeners that are
read twice, which `FewGiven` excludes. The assumptions on constants are
`FilesOK`, the shape of files and digests, and `EndpointsOK`, that overlapping
is mutual and nothing overlaps itself. `ModulesAsWritten` is model-checked only.
Proving changed one definition: `Line` was a CASE whose first guard overlapped
the others, and a CASE promises no order.

Only model-checked is liveness (`ClosedUsersVanish`, `NoLingering`,
`DeadIsDeleted`, `HeldLinesRun`), which the prover cannot treat under fairness.
Every other property of the passing runs but `ModulesAsWritten` is a theorem, each
under the assumptions named above.

## 5. Where code and documents disagree

`ghost_member` is a run. These others were met while modelling, and each limits
a property or a configuration above.

Session and channels:

* invites are bare pointers that no deletion cleans up: a later user at the
  address enters +i uninvited (`user.cpp:743`, `channel.cpp:284`);
* the ident error handler (`user.cpp:481`) does not look for deferred
  deletions, so the user stays for ever, though `user.cpp:307` says every
  callback has to;
* a client that leaves between the two DNS queries is deleted with the forward
  query's callback bound to it (`user.cpp:645` reads AFDNS, not AFRDNS);
* a resolver answer for a closed socket throws out of the reactor
  (`user.cpp:562`); a failing reverse query leaves AFDNS set (`user.cpp:564`);
* the first PONG registers, with or without NICK and USER (`pong.cpp:76`);
* `NICK :` is accepted (`nick.cpp:69-86` counts words only) and announces an
  empty name; its entry in the nick map stays when the user renames
  (`user.cpp:1516`) or is deleted (`user.cpp:294`), since both skip an empty
  nickname, and the next command that names nobody (`PRIVMSG : text`) finds the
  deleted user (`user.cpp:428`);
* a deferred user whose socket reports twice is put into `user_destructs` twice
  (`user.cpp:311`), and the copy that is left destroys the next user at the
  address when one of its callbacks returns (`OnlyEndedDestroyed` is therefore
  checked with one report a connection), or, if that one is gone at accept,
  waits for a callback that never comes; with ident lookups
  the branch at `user.cpp:166` leaves no timer.

Commands:

* `+m` hides `+n`: outsiders may send to a moderated channel
  (`channel.cpp:177`); `-k` demands a word, takes none and is echoed without
  one; `+k` and `+l` on a set letter change the value without an echo; CHANMODES
  lacks `t`; `+v` or `-v` without a word throws (declared without a parameter);
* words of a mode line may be empty or hold blanks (`MODE #c +b :* x`): the server
  stores them (`channel.cpp:681-694`), the broadcast drops the empty one and sends
  the other as two (`channel.cpp:485-491`), and the ban list shifts its columns;
  a ban that begins with a colon takes the rest of a reply with it;
* `WHO #c` names a channel with +s to everybody (`who.cpp:101-130` has no
  `isSecret`), with each member that is not invisible;
* a line that begins with a blank, or of a lone return, throws at
  `listener.cpp:268` and ends the server, whoever sends it; the prefix
  of a line is looked past for the command but stays among its words;
* lines of one to five bytes let the 8-bit penalty score wrap before the hard
  limit of the queue is reached, and a client then runs ahead of the clock
  (`listener.cpp:223`);
* NICK is announced with the new nick as its prefix (`nick.cpp:126-146`);
  NAMES and TOPIC answer outsiders even for secret channels; `NAMES #a,#b`
  looks the whole text up; PRIVMSG from a deaf sender skips later targets;
* AWAY with an empty message says it is set; ISON without a nick sends an error
  and a reply; WHOWAS without one goes on to `at(1)`;
* `connections_unk` is decremented by up to three handlers for one user,
  `users_local_cur` for users it never counted.

Configuration and start:

* an assignment with a missing closing quote is read for ever
  (`config.cpp:599`); a value is cut at its first semicolon, quoted and escaped
  or not (`config.cpp:571`), and the line is read on behind it
  (`config.cpp:616`), so that a closing quote left there is one that opens and
  the loop never ends; blanks at the ends of a quoted value are trimmed
  (`config.cpp:613`); a value that ends in a backslash escapes its quote; the
  column of an open comment is kept for the next line (`config.cpp:256`); text
  before a comment closed on its line is dropped; a line beyond the limit ends
  the file silently (`config.cpp:248`); a nested block that is not a sequence
  forgets the outer one; an `If` inside a false `If` re-enables lines; from
  eleven blocks on `getLastIndex` finds no free number; include cycles recurse
  for ever;
* REHASH with an unreadable file leaves an empty configuration; RESTART reads
  every file twice, so listeners and modules double; RESTART without a configured password
  accepts an empty word; a changed `EnableHalfOp` gives stored mode bits other
  letters;
* `run` dereferences what `resolve` returned before it looks at the error
  (`listener.cpp:347`): an address that does not resolve is undefined; it
  ignores the error of `bind` (`listener.cpp:364`), so the second listener of an
  endpoint, one that overlaps another (`0.0.0.0` and an address), and one
  another process has, listen at a port the system chooses, and nobody is told;
* `docs/configuration.txt:83` says 0 channels stand for no limit, the code then
  refuses every JOIN; lines 74-76 recommend a ping frequency up to 180 s, beyond
  the fixed two minutes; the shipped default is exactly two minutes.

## 6. Not modelled

* Deaf users and renames in `Talk` (renames are in `Session`), AWAY, and the
  queries that only format a reply: no other state depends on them.
* The system's choice of a port for a listener is only known to be none of the
  files' (`Anywhere`) or, where it is one, is among the endpoints refused; what is
  refused does not change while the listeners of one start are set up. A listener
  whose address did not resolve, and all that follows it, is left out.
* What RESTART does to users whose listener it deletes: the next use of the
  pointer is undefined. `Config` and `Modules` follow the rest.
* In `Config`, directives inside a block other than assignments, and the layout
  of lines but for the quotes. Conditions on values read earlier and includes
  below the first level are read as the code does; the properties are not about
  them.
* Formatting of replies and numerics, case conversion, dates, the log, the
  hash digests, containers: data or wrappers of the standard library.
* `unreal.cpp` and `m_null.cpp` only call what the others define; of server
  links the source has only the object that holds the server's own data.

Left to prove: that `Quotes` and `Config` fit together, that is, that a document
written line by line in quotes is the sequence of directives `Config` reads,
`ModulesAsWritten`, and the properties of `Config` for files that include each
other or have more than ten blocks of a name, which would have to say what the
code makes of them.
