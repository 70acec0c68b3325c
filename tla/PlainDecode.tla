---------------------------- MODULE PlainDecode ----------------------------
(***************************************************************************)
(* What the lookahead decoder promises its host: one token per call, each  *)
(* answered by the logits of that token's forward on the host's sequence.  *)
(* A forward is a function of the tokens before and including its own, so  *)
(* its logits are named by that sequence.                                  *)
(***************************************************************************)
EXTENDS Integers, Sequences

CONSTANT Tokens

VARIABLES seq,     \* the tokens the host's cache stands for
          answer   \* the sequence whose logits the last call returned

vars == <<seq, answer>>

Init == seq = <<>> /\ answer = <<>>

\* One decode call.
Decode == /\ \E tok \in Tokens : seq' = Append(seq, tok)
          /\ answer' = seq'

\* The host extends the sequence by a forward of its own.
Prefill == /\ Len(seq') > Len(seq)
           /\ SubSeq(seq', 1, Len(seq)) = seq
           /\ answer' = <<>>

\* The host goes back in the sequence, or starts another.
Rewind == /\ \E n \in 0 .. Len(seq) : seq' = SubSeq(seq, 1, n)
          /\ answer' = <<>>

Next == Decode \/ Prefill \/ Rewind

Spec == Init /\ [][Next]_vars
=============================================================================
