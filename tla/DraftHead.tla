------------------------------ MODULE DraftHead ------------------------------
(***************************************************************************)
(* The two drafters behind the adapter's drafting calls                    *)
(* (streamlx/pipeline_adapters.py): _MtpDrafter, whose head is chained on  *)
(* its own ids over a cache the chain's entries are then taken out of, and *)
(* VlmDrafter, whose cache holds committed context only, which waits until *)
(* a block is drafted.                                                     *)
(*                                                                         *)
(* The committed pairs of a sequence are numbered from 1; a cache is the   *)
(* sequence of the pairs its entries stand for, 0 where a drafted id does. *)
(***************************************************************************)
EXTENDS Integers, Sequences

CONSTANTS
    Keeps,    \* _keep: the widest window, 0 for None (a layer sees everything)
    Depth,    \* ids asked for at most
    MaxPairs  \* bound on the pairs of a sequence

\* Assumed of the constants.
DraftHeadAssumption == Keeps \subseteq Nat /\ Depth \in Nat /\ MaxPairs \in Nat

VARIABLES
    kind,     \* the adapter's drafter: "mtp" or "vlm"
    keep,     \* VlmDrafter._keep
    cache,    \* the head's cache
    waiting,  \* VlmDrafter.pending
    snap,     \* the cache a chain is undone to
    left,     \* ids the chain has yet to give
    n         \* history: pairs committed in the sequence

vars == <<kind, keep, cache, waiting, snap, left, n>>

New(k) == [i \in 1 .. k |-> n + i]
LastOf(t, k) == IF Len(t) <= k THEN t ELSE SubSeq(t, Len(t) - k + 1, Len(t))

-----------------------------------------------------------------------------
\* reset_drafter, at the start of a sequence.
Reset ==
    /\ left = 0
    /\ cache' = <<>> /\ waiting' = <<>> /\ n' = 0
    /\ UNCHANGED <<kind, keep, snap, left>>

\* Mutant: only the newest context is kept.
WindowOfNew(old, new) == IF keep = 0 THEN old \o new ELSE LastOf(new, keep)

\* What waits; when every layer is windowed, the last window of it.
Window(old, new) == IF keep = 0 THEN old \o new ELSE LastOf(old \o new, keep)

\* prime_pairs (the prompt's), feed_pairs (committed while drafting is off).
Prime(k) ==
    /\ left = 0 /\ n + k <= MaxPairs /\ n' = n + k
    /\ \/ kind = "mtp" /\ cache' = cache \o New(k) /\ UNCHANGED waiting
       \/ kind = "vlm" /\ waiting' = Window(waiting, New(k)) /\ UNCHANGED cache
    /\ UNCHANGED <<kind, keep, snap, left>>

\* snapshot_cache, the committed pairs being in.
Snapshot(k) == cache \o New(k)

\* _MtpDrafter.draft: the committed pairs go in and give the first id.
DraftChain(k, depth) ==
    /\ kind = "mtp" /\ left = 0 /\ n + k <= MaxPairs /\ n' = n + k
    /\ cache' = cache \o New(k) /\ snap' = Snapshot(k)
    /\ left' = depth
    /\ UNCHANGED <<kind, keep, waiting>>

\* The head reads its own id for the next.
ChainOn ==
    /\ left > 1 /\ left' = left - 1
    /\ cache' = Append(cache, 0)
    /\ UNCHANGED <<kind, keep, waiting, snap, n>>

\* The last id is there: the chain's entries are taken out.
ChainEnd ==
    /\ left = 1 /\ left' = 0
    /\ cache' = snap /\ snap' = <<>>
    /\ UNCHANGED <<kind, keep, waiting, n>>

\* VlmDrafter.draft: what waited goes in with the pairs.
DraftBlock(k) ==
    /\ kind = "vlm" /\ n + k <= MaxPairs /\ n' = n + k
    /\ cache' = cache \o waiting \o New(k) /\ waiting' = <<>>
    /\ UNCHANGED <<kind, keep, snap, left>>

\* A sequence begins with a reset.
Init ==
    /\ kind \in {"mtp", "vlm"} /\ keep \in Keeps
    /\ cache = <<>> /\ waiting = <<>> /\ snap = <<>> /\ left = 0 /\ n = 0

Next ==
    \/ Reset
    \/ \E k \in 1 .. MaxPairs :
        \/ Prime(k)
        \/ \E depth \in 1 .. Depth : DraftChain(k, depth)
        \/ DraftBlock(k)
    \/ ChainOn
    \/ ChainEnd

Spec == Init /\ [][Next]_vars

-----------------------------------------------------------------------------
(* Properties.                                                             *)

\* Between drafts the head's context, with what waits to go in, ends with the
\* sequence's committed pairs in order, as far back as a layer sees: nothing
\* drafted is left in it, nothing committed while drafting was off is missing,
\* and what a window cut from the waiting context no layer would have seen.
ContextExact ==
    left = 0 =>
        LET context == cache \o waiting
            seen == IF kind = "vlm" /\ keep # 0 /\ keep < n THEN keep ELSE n
        IN  /\ LastOf(context, seen) = [i \in 1 .. seen |-> n - seen + i]
            /\ \A i \in DOMAIN context : context[i] # 0

\* A windowed head never holds more than a window of hidden states waiting,
\* however long the prompt ("only the last window of it is kept").
WaitingBounded == keep # 0 => Len(waiting) <= keep

\* Both: the head's context is what its sequence committed, and is not kept
\* beyond what a layer sees (pipeline_adapters.py, _MtpDrafter and VlmDrafter).
HeadContext == ContextExact /\ WaitingBounded

=============================================================================
