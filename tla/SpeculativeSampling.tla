------------------------- MODULE SpeculativeSampling -------------------------
(***************************************************************************)
(* One position of a sampled pipelined step (streamlx/pipeline.py,         *)
(* _draft_for and _accept_stochastic): the head draws an id from its       *)
(* distribution q, the confidence gate keeps or drops it, the model's      *)
(* distribution p judges it, and the host emits the draft, a draw from the *)
(* residual, or, where no draft was launched, its own draw.                *)
(*                                                                         *)
(* The chances are computed, not drawn: a distribution gives every id a    *)
(* whole number of the Whole, and each step says where the chances of the  *)
(* step before go.  `scale` is what emitted chances are counted in.        *)
(***************************************************************************)
EXTENDS Integers, FiniteSets, Folds, Functions

CONSTANTS
    Tokens,  \* ids: the part of the vocabulary that matters
    Whole    \* chances come in parts of it

\* Assumed of the constants.
SamplingAssumption == IsFiniteSet(Tokens) /\ Whole \in Nat \ {0}

Sum(f) == FoldFunction(+, 0, f)
Distributions == {f \in [Tokens -> 0 .. Whole] : Sum(f) = Whole}
Nothing == [t \in Tokens |-> 0]
Smaller(a, b) == IF a < b THEN a ELSE b
Positive(a) == IF a > 0 THEN a ELSE 0

VARIABLES
    p,         \* the host's distribution, its filters and temperature applied
    q,         \* the head's, likewise
    tau,       \* the confidence under which a draft is not launched
    adaptive,  \* whether, at tau 0, the controller chooses how many are
    floored,   \* whether the fewest streams (k_min; for the controller at
               \* least 2) cover this depth: launched whatever
    drawn,     \* chance of each draft being launched
    unused,    \* chance that none is
    accepted,  \* of each being accepted
    rejected,  \* of one being launched and refused
    emitted,   \* of each id being emitted
    scale,
    pc         \* "draft", "judge", "emit" or "done"

given == <<p, q, tau, adaptive, floored>>
vars == <<given, drawn, unused, accepted, rejected, emitted, scale, pc>>

-----------------------------------------------------------------------------
\* Whether the drafts launched at this depth may be exactly those whose
\* confidence is in high.  The controller (_choose_k) weighs the drawn
\* confidence against step times, and explores: any confidence may be high.
Launched(high) ==
    \/ floored /\ high = 0 .. Whole
    \/ ~floored /\ tau > 0 /\ high = tau .. Whole
    \/ ~floored /\ tau = 0 /\ adaptive /\ high \subseteq 0 .. Whole
    \/ ~floored /\ tau = 0 /\ ~adaptive /\ high = 0 .. Whole

\* draft() draws from q, each id with its own chance as its confidence; the
\* drafts from the first that is not launched on are dropped.
Draft ==
    /\ pc = "draft"
    /\ \E high \in SUBSET (0 .. Whole) :
        /\ Launched(high)
        /\ drawn' = [t \in Tokens |-> IF q[t] \in high THEN q[t] ELSE 0]
    /\ unused' = Whole - Sum(drawn')
    /\ pc' = "judge"
    /\ UNCHANGED <<given, accepted, rejected, emitted, scale>>

\* q(d) min(1, p(d) / q(d)).
AcceptShare(t) == Smaller(q[t], p[t])

\* The draft is accepted with chance min(1, p(d) / q(d)).
Judge ==
    /\ pc = "judge"
    /\ accepted' = [t \in Tokens |-> IF drawn[t] > 0 THEN AcceptShare(t) ELSE 0]
    /\ rejected' = Sum(drawn) - Sum(accepted')
    /\ pc' = "emit"
    /\ UNCHANGED <<given, drawn, unused, emitted, scale>>

\* Mutant: a refused draft is replaced by a draw from p itself.
ReplacementPlain == p

\* max(0, p - q), or p where that is nothing.
Replacement ==
    LET resid == [t \in Tokens |-> Positive(p[t] - q[t])]
    IN  IF Sum(resid) = 0 THEN p ELSE resid

\* Accepted: the draft.  Refused: a draw from the residual.  Not launched: the
\* host's draw from the logits it is given.
Emit ==
    /\ pc = "emit"
    /\ LET z == Sum(Replacement)
       IN  /\ scale' = Whole * z
           /\ emitted' = [t \in Tokens |->
                Whole * z * accepted[t] + Whole * rejected * Replacement[t] + z * unused * p[t]]
    /\ pc' = "done"
    /\ UNCHANGED <<given, drawn, unused, accepted, rejected>>

Init ==
    /\ p \in Distributions /\ q \in Distributions
    /\ tau \in 0 .. Whole /\ adaptive \in BOOLEAN /\ floored \in BOOLEAN
    /\ drawn = Nothing /\ unused = 0 /\ accepted = Nothing /\ rejected = 0
    /\ emitted = Nothing /\ scale = 0 /\ pc = "draft"

Next == Draft \/ Judge \/ Emit
Spec == Init /\ [][Next]_vars

-----------------------------------------------------------------------------
(* Properties.                                                             *)

\* Where every draft drawn is launched, the ids emitted have exactly the
\* chances of the host's own sampling, whatever the head's distribution: what
\* acceptance takes from an id the residual gives to the others.
LosslessLaunched ==
    pc = "done" /\ unused = 0 => \A t \in Tokens : emitted[t] = scale * p[t]

\* "Lossless: the emitted sequence is distributed exactly as the host's own
\* sampling" (_accept_stochastic): under any gate
\* (README: the gates that look at the drawn id break it).
Lossless == pc = "done" => \A t \in Tokens : emitted[t] = scale * p[t]

=============================================================================
