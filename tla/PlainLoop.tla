----------------------------- MODULE PlainLoop -----------------------------
(***************************************************************************)
(* What generate() promises: the ids of a plain greedy loop, one forward   *)
(* per id.  The model's own continuation of a prompt is a sequence: greedy *)
(* decoding has one path.                                                  *)
(***************************************************************************)
EXTENDS Integers, Sequences

CONSTANTS
    Stops,     \* ids that end the generation
    NTokens    \* n_tokens: ids wanted

VARIABLES
    path,   \* the ids greedy decoding gives, first_tok the first
    out     \* the ids generated

vars == <<path, out>>

Ended == out[Len(out)] \in Stops \/ Len(out) >= NTokens

Generate == /\ ~Ended
            /\ out' = Append(out, path[Len(out) + 1])
            /\ UNCHANGED path

Init == out = <<path[1]>>

Spec == Init /\ [][Generate]_vars /\ WF_vars(Generate)
=============================================================================
