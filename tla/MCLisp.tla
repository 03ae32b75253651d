------------------------------- MODULE MCLisp -------------------------------
(***************************************************************************)
(* A small instance of what Lisp does to the keys, the line and its        *)
(* suggestions, and of what switching inkline on and off does under it:    *)
(* one part per behaviour, the others idle.                                *)
(***************************************************************************)
EXTENDS Keys, LispSteps, LispHooks, Switching

CONSTANTS x, y

VARIABLE part

lispVars == <<part, keysVars, stepsVars, hooksVars, switchVars>>

KeyDescs == {<<<<x>>>>, <<<<x, x>>>>, <<<<y>>>>}
KeyLayout == <<[group |-> "multi-line", seqs |-> <<<<x>>>>, command |-> "numeric-argument",
                defaults |-> {"unix-line-discard"}],
               [group |-> "menu", seqs |-> <<<<y>>>>, command |-> "menu-next",
                defaults |-> {"next-history", Unbound}]>>
KeyDefaults == [prefixes |-> {}, bound |-> [seq \in Sequence |->
    IF seq = <<x>> THEN "unix-line-discard" ELSE IF seq = <<y>> THEN "next-history" ELSE Unbound]]
KeyTty == [seq \in {<<x>>} |-> "unix-line-discard"]
KeyFallback == [command \in {"menu-next"} |->
                   [had \in {"next-history", Unbound} |-> "next-line-or-substring-search"]]
OneSlot == <<"slot1">>

LispInit ==
    /\ part \in {"keys", "steps", "hooks", "switching"}
    /\ KeysInit /\ StepsInit /\ HooksInit /\ SwitchingInit
    /\ part # "hooks" => suggesters = <<>> /\ completers = <<>>

LispNext ==
    \/ part = "keys" /\ KeysNext /\ UNCHANGED <<part, stepsVars, hooksVars, switchVars>>
    \/ part = "steps" /\ StepsNext /\ UNCHANGED <<part, keysVars, hooksVars, switchVars>>
    \/ part = "hooks" /\ HooksNext /\ UNCHANGED <<part, keysVars, stepsVars, switchVars>>
    \/ part = "switching" /\ SwitchingNext /\ UNCHANGED <<part, keysVars, stepsVars, hooksVars>>
=============================================================================
