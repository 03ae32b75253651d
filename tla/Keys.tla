-------------------------------- MODULE Keys --------------------------------
(***************************************************************************)
(* The keys inkline binds, from Lisp and by its layout (lisp/keys.rs,      *)
(* lisp/layout.rs), and the readline functions Lisp commands get           *)
(* (lisp/commands.rs).  The user's own `bind` comes between any two of     *)
(* inkline's operations.                                                   *)
(*                                                                         *)
(* A binding is Unbound, or the name of what runs: a readline or inkline   *)
(* command, macro text, a slot's function (its number) or "shared".        *)
(***************************************************************************)
EXTENDS Keymap, FiniteSets

CONSTANTS
    Named, Lambdas,   \* Lisp commands
    Readline,         \* readline and inkline commands Lisp binds
    Users,            \* what the user binds besides: commands, macro text
    SlotFunctions,    \* the readline function of each slot: SLOTS
    Descs,            \* key descriptions Lisp binds, as sequences of sequences
    Layout,           \* LAYOUT: group, seqs, command, defaults
    Defaults,         \* what the keymap holds before inkline loads
    TtyKeys,          \* TTY_KEYS, with what readline binds them to
    MenuFallback,     \* menu_key_fallback of menu-next and menu-previous
    MaxSteps

ASSUME KeysAssumption ==
    /\ SlotFunctions \in Seq(Range(SlotFunctions)) /\ IsInjective(SlotFunctions)
    /\ MaxSteps \in Nat /\ Named \cap Lambdas = {}
    /\ Descs \subseteq Seq(Sequence) /\ DOMAIN TtyKeys \subseteq Sequence
    /\ Layout \in Seq(Range(Layout)) /\ \A e \in Range(Layout) : e.seqs \in Seq(Sequence)

\* Only a keymap that a key leads to holds bindings.
ASSUME DefaultsAssumption ==
    /\ Defaults = [prefixes |-> Defaults.prefixes, bound |-> [seq \in Sequence |-> Defaults.bound[seq]]]
    /\ Defaults.prefixes \subseteq Sequence
    /\ \A seq \in Sequence : ~Reached(Defaults, seq) => Defaults.bound[seq] = Unbound

VARIABLES
    map,      \* the emacs keymap
    tty,      \* bind-tty-special-chars is on
    table,    \* TABLE
    slots,    \* SLOT_USE: none or one Lisp command each
    left,     \* LEFT_ALONE
    without,  \* the keymap as it would be without inkline
    steps

keysVars == <<map, tty, table, slots, left, without, steps>>

LispCommands == Named \cup Lambdas
Groups == {Layout[i].group : i \in DOMAIN Layout}
Shared == "shared"
NoGroup == "none"
SlotCount == Len(SlotFunctions)
IsLispFunction(f) == f \in Range(SlotFunctions) \cup {Shared}   \* is_lisp_key_function

\* What else a key may run: none of it is one of Lisp's functions.
OtherCommands ==
    Readline \cup Users \cup {Unbound} \cup {e.command : e \in Range(Layout)}
    \cup Range(Defaults.bound) \cup Range(TtyKeys)
    \cup UNION {Range(MenuFallback[command]) : command \in DOMAIN MenuFallback}
ASSUME NamesAssumption ==
    Shared \notin Range(SlotFunctions) /\ \A name \in OtherCommands : ~IsLispFunction(name)

ElementsOf(list) == {list[i] : i \in DOMAIN list}

\* Vec::retain: the elements of a list that are in a set, in their order.
Only(list, set) ==
    FoldLeft(LAMBDA kept, e : IF e \in set THEN Append(kept, e) ELSE kept, <<>>, list)

\* still_ours
Ours(m, b) == Reached(m, b.seq) /\ m.bound[b.seq] = b.function

----------------------------------------------------------------------------
(* Slots. *)

\* assign_slot: the slot it has, or the first free one, or a new one.
SlotsOf(uses, command) == {n \in DOMAIN uses : uses[n] = <<command>>}
FreeSlots(uses) == {n \in DOMAIN uses : uses[n] = <<>>}
Least(set) == CHOOSE n \in set : \A m \in set : n <= m
Assigned(uses, command) ==
    IF SlotsOf(uses, command) # {}
    THEN [slots |-> uses, slot |-> <<Least(SlotsOf(uses, command))>>]
    ELSE IF FreeSlots(uses) # {}
    THEN [slots |-> [uses EXCEPT ![Least(FreeSlots(uses))] = <<command>>],
          slot |-> <<Least(FreeSlots(uses))>>]
    ELSE IF Len(uses) < SlotCount
    THEN [slots |-> Append(uses, <<command>>), slot |-> <<Len(uses) + 1>>]
    ELSE [slots |-> uses, slot |-> <<>>]

\* free_lambda_slots: those of lambdas no key of the table runs.
InUse(bounds) == {b.function : b \in ElementsOf(bounds)}
Freed(uses, bounds) ==
    [n \in DOMAIN uses |->
        IF uses[n] # <<>> /\ uses[n][1] \in Lambdas /\ SlotFunctions[n] \notin InUse(bounds)
        THEN <<>> ELSE uses[n]]
----------------------------------------------------------------------------
(* bind_seq and its inverses, on a keymap and a table. *)

\* What a sequence had before inkline first bound it.
SavedNow(at, seq) == LET found == Lookup(at.map, seq)
                     IN IF found = <<>> THEN [prefix |-> FALSE, binding |-> Unbound]
                                        ELSE found[1]
Saved(at, seq) ==
    LET own == {b \in ElementsOf(at.table) : b.seq = seq /\ Ours(at.map, b)}
    IN IF own # {} THEN (CHOOSE b \in own : TRUE).saved ELSE SavedNow(at, seq)

TtyAfter(at, seq) == at.tty /\ seq \notin DOMAIN TtyKeys

BindSeq(at, seq, desc, command, function, group) ==
    [at EXCEPT
        !.map = Bind(at.map, seq, function),
        !.tty = TtyAfter(at, seq),
        !.table = Append(Only(at.table, {b \in ElementsOf(at.table) : b.seq # seq}),
                         [seq |-> seq, key |-> desc, command |-> command,
                          function |-> function, group |-> group,
                          saved |-> Saved(at, seq)])]

\* unset_where
UnsetWhere(at, picked) ==
    [at EXCEPT
        !.map = FoldLeft(LAMBDA m, b : IF b \in picked /\ Ours(m, b)
                                       THEN Restore(m, b.seq, b.saved) ELSE m,
                         at.map, at.table),
        !.table = Only(at.table, ElementsOf(at.table) \ picked)]

\* sequences: readline would turn a key that runs a command into a prefix.
Refused(desc) ==
    \E i \in DOMAIN desc : \E start \in Before(desc[i]) :
        RunsCommand(map, start) /\ start \notin map.prefixes

Now == [map |-> map, tty |-> tty, table |-> table]
Becomes(at) == map' = at.map /\ tty' = at.tty /\ table' = at.table
----------------------------------------------------------------------------
(* Operations. *)

Step == steps < MaxSteps /\ steps' = steps + 1

BoundAll(at, desc, command, function) ==
    FoldLeft(LAMBDA acc, seq : BindSeq(acc, seq, desc, command, function, NoGroup),
             at, desc)

\* keymap-global-set: to a readline or inkline command, or to a Lisp command
\* through its slot, or past the slots, the function they share.
GlobalSet(desc, command) ==
    /\ Step /\ ~Refused(desc)
    /\ \E given \in {IF command \in LispCommands THEN Assigned(slots, command)
                     ELSE [slots |-> slots, slot |-> <<>>]} :
       \E function \in {IF command \notin LispCommands THEN command
                        ELSE IF given.slot = <<>> THEN Shared
                        ELSE SlotFunctions[given.slot[1]]} :
       \E at \in {BoundAll(Now, desc, command, function)} :
         /\ Becomes(at)
         /\ slots' = Freed(given.slots, at.table)
    /\ UNCHANGED <<left, without>>

\* keymap-global-unset
GlobalUnset(desc) ==
    /\ Step
    /\ \E at \in {UnsetWhere(Now, {b \in ElementsOf(table) : b.seq \in ElementsOf(desc)})} :
         Becomes(at) /\ slots' = Freed(slots, at.table)
    /\ UNCHANGED <<left, without>>

GroupBound(group) == \E b \in ElementsOf(table) : b.group = group /\ Ours(map, b)

\* The menu's Up and Down keys that move between lines from now on.
MenuKeysKept(groups) ==
    IF "menu" \in groups /\ "multi-line" \notin groups /\ GroupBound("multi-line")
    THEN Only(table, {b \in ElementsOf(table) :
             /\ b.group = "menu" /\ Ours(map, b)
             /\ b.command \in DOMAIN MenuFallback
             /\ b.saved.binding \in DOMAIN MenuFallback[b.command]})
    ELSE <<>>

\* Each moves as it did in readline's own keymap.
Moves(b) == MenuFallback[b.command][b.saved.binding]
MenuKeysBound(at, kept) ==
    FoldLeft(LAMBDA acc, b : BindSeq(acc, b.seq, b.key, Moves(b), Moves(b), "multi-line"),
             at, kept)

\* inkline-unbind-defaults
UnbindDefaults(groups) ==
    /\ Step
    /\ \E at \in {MenuKeysBound(UnsetWhere(Now, {b \in ElementsOf(table) : b.group \in groups}),
                                MenuKeysKept(groups))} :
         /\ map' = at.map /\ table' = at.table
         /\ tty' = (at.tty \/ \A b \in ElementsOf(at.table) : b.seq \notin DOMAIN TtyKeys)
    /\ UNCHANGED <<slots, left, without>>

\* bind_defaults: each key of the layout that still has a default.
HasDefault(m, seq, defaults) ==
    /\ Reached(m, seq) /\ seq \notin m.prefixes
    /\ m.bound[seq] \in defaults

LayoutSeqs == FoldLeft(LAMBDA acc, e :
                  acc \o [i \in DOMAIN e.seqs |-> [entry |-> e, seq |-> e.seqs[i]]],
              <<>>, Layout)
DefaultsBound(at) ==
    FoldLeft(LAMBDA acc, one :
        IF HasDefault(acc.map, one.seq, one.entry.defaults)
        THEN BindSeq(acc, one.seq, one.entry.seqs, one.entry.command,
                     one.entry.command, one.entry.group)
        ELSE [acc EXCEPT !.left = Append(@, one.seq)],
    [map |-> at.map, tty |-> at.tty, table |-> at.table, left |-> <<>>], LayoutSeqs)

\* restore_all, then a fresh interpreter, prepare_readline and bind_defaults.
Reload ==
    /\ Step
    /\ \E restored \in {UnsetWhere(Now, ElementsOf(table))} :
       \E at \in {DefaultsBound([restored EXCEPT !.tty = FALSE])} :
         /\ map' = at.map /\ tty' = at.tty /\ table' = at.table /\ left' = at.left
         /\ slots' = Freed(slots, restored.table)
    /\ UNCHANGED without

\* The user's `bind`, which also knows named Lisp commands; a key that the user
\* binds to what inkline has it bound to would count as inkline's.
UserBinds(seq, binding) ==
    /\ Step
    /\ \A b \in ElementsOf(table) : b.seq = seq => b.function # binding
    /\ map' = Bind(map, seq, binding)
    /\ without' = Bind(without, seq, binding)
    /\ UNCHANGED <<tty, table, slots, left>>

NamedFunctions == {SlotFunctions[n] : n \in {m \in DOMAIN slots :
                       slots[m] # <<>> /\ slots[m][1] \in Named}}

\* At a new line readline binds the terminal's special characters, while the
\* variable is on.
TtyBound(m) ==
    [prefixes |-> m.prefixes \cup UNION {Before(seq) : seq \in DOMAIN TtyKeys},
     bound |-> [seq \in Sequence |-> IF seq \in DOMAIN TtyKeys THEN TtyKeys[seq] ELSE m.bound[seq]]]
NewLine ==
    /\ Step /\ tty
    /\ map' = TtyBound(map) /\ without' = TtyBound(without)
    /\ UNCHANGED <<tty, table, slots, left>>
----------------------------------------------------------------------------
\* inkline loads: prepare_readline and bind_defaults.
KeysInit ==
    /\ without = Defaults /\ steps = 0 /\ slots = <<>>
    /\ \E at \in {DefaultsBound([map |-> Defaults, tty |-> FALSE, table |-> <<>>])} :
         map = at.map /\ tty = at.tty /\ table = at.table /\ left = at.left

KeysNext ==
    \/ \E desc \in Descs, command \in LispCommands \cup Readline : GlobalSet(desc, command)
    \/ \E desc \in Descs : GlobalUnset(desc)
    \/ \E groups \in SUBSET Groups \ {{}} : UnbindDefaults(groups)
    \/ Reload
    \/ \E seq \in Sequence, binding \in Users \cup {Unbound} \cup NamedFunctions :
         UserBinds(seq, binding)
    \/ NewLine

KeysSpec == KeysInit /\ [][KeysNext]_keysVars
----------------------------------------------------------------------------
(* What a key runs. *)

\* shared_command: the Lisp command of the key readline runs.
RunsAt(b, running) == Reached(map, b.seq) /\ RunningKey(map, b.seq) = running
SharedCommand(running) ==
    LET found == {i \in DOMAIN table : table[i].function = Shared /\ RunsAt(table[i], running)}
    IN IF found = {} THEN Unbound ELSE table[Least(found)].command

CommandOf(b) ==
    IF b.function = Shared THEN SharedCommand(RunningKey(map, b.seq))
    ELSE LET n == CHOOSE i \in 1 .. SlotCount : SlotFunctions[i] = b.function
         IN IF n \notin DOMAIN slots \/ slots[n] = <<>> THEN Unbound ELSE slots[n][1]

\* saved_binding: what such a key runs when Lisp cannot.
Fallback(function, running) ==
    LET found == {i \in DOMAIN table : table[i].function = function /\ RunsAt(table[i], running)}
        saved == table[Least(found)].saved.binding
    IN IF found = {} \/ IsLispFunction(saved) THEN Unbound ELSE saved
----------------------------------------------------------------------------
EntryOf(seq) == {b \in ElementsOf(table) : b.seq = seq}

\* Under what inkline bound lies what the user would have without it: a sequence
\* still inkline's keeps that as its saved binding, and any other runs it.  So
\* an unset, inkline-unbind-defaults and a reload give back the user's keys,
\* whatever was bound over, under or after them.
UsersKeysKept ==
    \A seq \in Sequence :
        IF \E b \in EntryOf(seq) : Ours(map, b)
        THEN \A b \in EntryOf(seq) : b.saved.binding = without.bound[seq]
        ELSE map.bound[seq] = without.bound[seq]

\* A key of a Lisp command runs that command: its slot was not freed and given
\* to another while a key still runs it, and the function shared past the slots
\* finds it, also for a key that starts longer ones.
RunsItsCommand ==
    \A seq \in Sequence :
        Reached(map, seq) /\ IsLispFunction(map.bound[seq]) =>
            \/ \E b \in EntryOf(seq) : Ours(map, b) /\ CommandOf(b) = b.command
            \/ map.bound[seq] = without.bound[seq] /\ map.bound[seq] \in NamedFunctions
=============================================================================
