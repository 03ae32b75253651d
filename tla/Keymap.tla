------------------------------- MODULE Keymap -------------------------------
(***************************************************************************)
(* readline's emacs keymap as inkline reads and writes it (ffi.rs): which  *)
(* sequences of keys start longer ones, and what each runs.  The binding   *)
(* of a sequence that starts longer ones is its prefix keymap's "any other *)
(* key".                                                                   *)
(***************************************************************************)
EXTENDS Naturals, Sequences, SequencesExt

CONSTANTS Bytes,      \* what the terminal sends
          MaxLength,  \* the longest sequence bound
          Unbound     \* Binding::Unbound

ASSUME KeymapAssumption == MaxLength \in Nat \ {0}

Sequence == UNION {[1 .. n -> Bytes] : n \in 1 .. MaxLength}
Before(seq) == {SubSeq(seq, 1, n) : n \in 1 .. Len(seq) - 1}

\* A keymap: the prefixes, and the binding of every sequence.
Keymaps(bindings) == [prefixes : SUBSET Sequence, bound : [Sequence -> bindings]]

\* keymap_of: every key before the last is a prefix.
Reached(map, seq) == Before(seq) \subseteq map.prefixes

\* lookup: none or one of Found.
Lookup(map, seq) ==
    IF Reached(map, seq)
    THEN <<[prefix |-> seq \in map.prefixes, binding |-> map.bound[seq]]>>
    ELSE <<>>
RunsCommand(map, seq) == Reached(map, seq) /\ map.bound[seq] # Unbound

\* rl_generic_bind: a sequence cut short becomes a prefix, and what it ran
\* its "any other key".
Bind(map, seq, binding) ==
    [prefixes |-> map.prefixes \cup Before(seq),
     bound |-> [map.bound EXCEPT ![seq] = binding]]

\* Writes the entry directly, wherever the sequence can still be reached.
Restore(map, seq, saved) ==
    IF Reached(map, seq) THEN [map EXCEPT !.bound[seq] = saved.binding] ELSE map

\* entry_position, with whether it is a prefix: the keymap the key is in, here
\* the sequence that leads to it, and the key.
RunningKeyAlone(map, seq) ==
    [keymap |-> IF seq \in map.prefixes THEN seq ELSE Front(seq),
     key |-> Last(seq), prefix |-> FALSE]
RunningKey(map, seq) ==
    [keymap |-> IF seq \in map.prefixes THEN seq ELSE Front(seq),
     key |-> Last(seq), prefix |-> seq \in map.prefixes]
=============================================================================
