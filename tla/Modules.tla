------------------------------ MODULE Modules ------------------------------
(***************************************************************************)
(* Loadable modules: unreal->modules, the command table, the hook on the   *)
(* end of users, and the commands that change them while the server runs   *)
(* (module.cpp, command.cpp, INSMOD, RMMOD, RESTART), with the WHOWAS      *)
(* history, a module that has more state than its command.                 *)
(*                                                                         *)
(* A module is found by its FILE NAME, the state of its code (the static   *)
(* handler, the history) belongs to the LIBRARY the dynamic loader maps,   *)
(* and the same library may be reached by two names.                       *)
(*                                                                         *)
(* fault is set when the program does something undefined; what happens    *)
(* after that is not modelled.                                             *)
(***************************************************************************)
EXTENDS Naturals, Sequences, Functions

CONSTANTS
    Files,          \* names an IRC operator may give
    Library,        \* Library[f]: the library the loader finds; it has one
                    \* command, named like it
    Boot,           \* the LoadModule lines of the configuration
    Nicks,          \* nicknames, lower-cased
    HistoryLimit    \* Limits::WhowasHistory

Libraries == {Library[f] : f \in Files}

ASSUME ModuleParams ==
    /\ Library \in [Files -> STRING]
    /\ Boot \in Seq(Files)
    /\ HistoryLimit \in Nat

VARIABLES
    todo,       \* what is left of Boot
    modules,    \* names in unreal->modules
    handler,    \* handler[l]: the static pointer of a library's code
    commands,   \* commands in unreal->user_commands
    hooks,      \* connections of handleLeavingUser to onDestroy
    history,    \* history[n]: WHOWAS entries of n
    fault,      \* what undefined thing has happened
    aliased,    \* history: a library was loaded under two names at once
    left        \* history: left[n], ends of n since whowas was mapped

vars == <<todo, modules, handler, commands, hooks, history, fault, aliased, left>>

Faults == {"none", "deleted twice", "code unmapped", "erased end"}

NoHistory == [n \in Nicks |-> 0]

Init ==
    /\ todo = Boot
    /\ modules = {}
    /\ handler = [l \in Libraries |-> "null"]
    /\ commands = {}
    /\ hooks = 0
    /\ history = NoHistory
    /\ fault = "none"
    /\ aliased = FALSE
    /\ left = NoHistory

-----------------------------------------------------------------------------
(* What the handlers are made of: operators on the part of the state that  *)
(* loading changes.                                                        *)

State == [modules |-> modules, handler |-> handler, commands |-> commands,
          hooks |-> hooks, history |-> history, left |-> left, fault |-> fault]

Mapped(S, l) == \E f \in S : Library[f] = l

\* UnrealModule::load and unrInit: a handler, which adds its command unless
\* one of that name is there, and the hook.
Loaded(st, f) ==
    LET l == Library[f]
    IN  [modules  |-> st.modules \cup {f},
         handler  |-> [st.handler EXCEPT ![l] = "live"],
         commands |-> st.commands \cup {l},
         hooks    |-> IF l = "whowas" THEN st.hooks + 1 ELSE st.hooks,
         history  |-> st.history,
         left     |-> st.left,
         fault    |-> st.fault]

\* Mutants: the command stays in the table; the hook stays connected.
UnregisteredNever(st, l) == st.commands
DisconnectedNever(st, l) == st.hooks

\* ~UnrealUserCommand takes the NAME out of the table; the destructor of the
\* whowas handler disconnects every connection of the function.
Unregistered(st, l) == st.commands \ {l}
Disconnected(st, l) == IF l = "whowas" THEN 0 ELSE st.hooks

\* ~UnrealModule, unload, unrClose: delete handler, whichever it is by now.
\* The last name closes the library, its statics go.
Unloaded(st, f) ==
    LET l == Library[f]
        rest == st.modules \ {f}
        gone == ~Mapped(rest, l)
    IN  [modules  |-> rest,
         handler  |-> [st.handler EXCEPT ![l] = IF gone THEN "null" ELSE "deleted"],
         commands |-> Unregistered(st, l),
         hooks    |-> Disconnected(st, l),
         history  |-> IF gone /\ l = "whowas" THEN NoHistory ELSE st.history,
         left     |-> IF gone /\ l = "whowas" THEN NoHistory ELSE st.left,
         fault    |-> IF st.handler[l] # "live" THEN "deleted twice" ELSE st.fault]

\* The handler of command l returns: its code must still be there.
Returned(st, l) ==
    IF st.fault = "none" /\ ~Mapped(st.modules, l)
    THEN [st EXCEPT !.fault = "code unmapped"] ELSE st

Becomes(st) ==
    /\ modules' = st.modules
    /\ handler' = st.handler
    /\ commands' = st.commands
    /\ hooks' = st.hooks
    /\ history' = st.history
    /\ left' = st.left
    /\ fault' = st.fault
    /\ aliased' = (aliased \/ \E f, g \in st.modules :
                                 f # g /\ Library[f] = Library[g])

-----------------------------------------------------------------------------
\* One round of initModules.  A name that is there or cannot be opened is
\* skipped with a warning.
BootNext ==
    /\ fault = "none"
    /\ todo # <<>>
    /\ todo' = Tail(todo)
    /\ \/ Head(todo) \notin modules /\ Becomes(Loaded(State, Head(todo)))
       \/ Becomes(State)

Running == fault = "none" /\ todo = <<>> /\ UNCHANGED todo

\* INSMOD <file>, of a file that is not in the list.
Insmod(f) ==
    /\ Running
    /\ "insmod" \in commands
    /\ f \notin modules
    /\ Becomes(Loaded(State, f))

\* INSMOD <file> reload: delete it and load it again.  The file may have
\* become unloadable.  insmod may reload itself: the code that is running is
\* closed before it is opened again.
Reload(f) ==
    /\ Running
    /\ "insmod" \in commands
    /\ f \in modules
    /\ LET st == Returned(Unloaded(State, f), "insmod")
       IN  \/ Becomes(st)
           \/ st.fault = "none" /\ Becomes(Loaded(st, f))

\* RMMOD <file>
Rmmod(f) ==
    /\ Running
    /\ "rmmod" \in commands
    /\ f \in modules
    /\ Becomes(Returned(Unloaded(State, f), "rmmod"))

HistorySize == FoldFunction(+, 0, history)

\* ~UnrealUser of a user with nick n: each connection of the hook inserts an
\* entry.  At the limit it first erases end(), which is not an entry.
Leave(n) ==
    /\ Running
    /\ left' = [left EXCEPT ![n] = IF Mapped(modules, "whowas") /\ ~aliased
                                        THEN @ + 1 ELSE @]
    /\ history' = [history EXCEPT ![n] = @ + hooks]
    /\ fault' = IF hooks > 0 /\ HistorySize + hooks > HistoryLimit /\ HistorySize + hooks > 1
                  THEN "erased end" ELSE fault
    /\ UNCHANGED <<modules, handler, commands, hooks, aliased>>

\* RESTART: finish() deletes every module, the one of RESTART included,
\* before its handler returns.
Restart ==
    /\ Running
    /\ "restart" \in commands
    /\ fault' = "code unmapped"
    /\ UNCHANGED <<modules, handler, commands, hooks, history, aliased, left>>

\* WHOWAS n count: how many entries it names; LSMOD: the modules it names.
Whowas(n, count) == IF count < history[n] THEN count ELSE history[n]
Lsmod == modules

Next ==
    \/ BootNext
    \/ \E f \in Files : Insmod(f) \/ Reload(f) \/ Rmmod(f)
    \/ \E n \in Nicks : Leave(n)
    \/ Restart

Spec == Init /\ [][Next]_vars
-----------------------------------------------------------------------------
(* Properties.  They are about the program before anything undefined. *)

TypeOK ==
    /\ todo \in Seq(Files)
    /\ modules \subseteq Files
    /\ handler \in [Libraries -> {"null", "live", "deleted"}]
    /\ commands \subseteq Libraries
    /\ hooks \in Nat
    /\ history \in [Nicks -> Nat]
    /\ fault \in Faults
    /\ aliased \in BOOLEAN
    /\ left \in [Nicks -> Nat]

\* Neither the command table nor the hook list ever refers to code that is
\* not mapped, whatever names a library is loaded and removed by.
NoStaleCode ==
    fault = "none" =>
        /\ \A l \in commands : Mapped(modules, l)
        /\ hooks > 0 => Mapped(modules, "whowas")

\* As long as no library is loaded under two names, the command table is that
\* of the modules LSMOD lists, and every reload, failed reload and removal leaves
\* exactly one handler per module.
CommandsExact ==
    fault = "none" /\ ~aliased =>
        /\ commands = {Library[f] : f \in Lsmod}
        /\ \A l \in Libraries : handler[l] = IF l \in commands THEN "live" ELSE "null"

\* Under the same condition WHOWAS names each end of a user once, up to the
\* count it was asked for, however often the module was loaded again before.
RecordedOnce ==
    fault = "none" /\ ~aliased =>
        \A n \in Nicks, count \in 0..HistoryLimit :
            Whowas(n, count) = IF left[n] < count THEN left[n] ELSE count
=============================================================================
