------------------------------ MODULE Generate ------------------------------
(***************************************************************************)
(* The greedy decode loop over pipelined steps (streamlx/pipeline.py,      *)
(* generate): drafts from the head, a step of all streams at once, the     *)
(* accepted prefix of it kept and the rest undone, ids handed out one by   *)
(* one until a stop id or the number wanted.                               *)
(*                                                                         *)
(* The cache is the sequence of ids whose forwards it has seen since the   *)
(* prompt.  A forward on a cache that follows the greedy path answers with *)
(* the path's next id, on any other cache with some id.  A pair            *)
(* <<p, id>> stands for the hidden state at position p and the id that     *)
(* follows it.                                                             *)
(***************************************************************************)
EXTENDS Integers, Sequences, SequencesExt

CONSTANTS
    Tokens,     \* the vocabulary
    Stops,      \* stop ids
    NTokens,    \* n_tokens
    KMax        \* k_max

\* Assumed of the constants.
ASSUME GenerateAssumption ==
    /\ Stops \subseteq Tokens /\ NTokens \in Nat \ {0} /\ KMax \in Nat \ {0}

VARIABLES
    path,     \* the greedy continuation
    hasPlain, \* whether the decoder has a plain_fn
    out,      \* ids generated
    cache,    \* ids the cache has seen
    cur,      \* the committed id whose forward has not run
    offset,   \* positions the loop counts in the cache
    pairs,    \* pairs the head has not been fed
    fed,      \* pairs it has been fed
    drafts,   \* of the step in progress
    outs,     \* the streams' ids
    snaps,    \* the cache before each stream
    kept,     \* streams of the step handed out so far
    pc        \* "draft", "step", "commit" or "done"

given == <<path, hasPlain>>
step == <<drafts, outs, snaps>>
vars == <<given, out, cache, cur, offset, pairs, fed, step, kept, pc>>

OnPath(c) == c = SubSeq(path, 1, Len(c))
Answers(c) == IF OnPath(c) THEN {path[Len(c) + 1]} ELSE Tokens

-----------------------------------------------------------------------------
\* The head is fed the pairs and proposes ids, or none.
Draft ==
    /\ pc = "draft" /\ Len(out) < NTokens
    /\ drafts' \in UNION {[1 .. n -> Tokens] : n \in 0 .. IF pairs = <<>> THEN 0 ELSE KMax - 1}
    /\ fed' = IF KMax > 1 THEN fed \o pairs ELSE fed
    /\ pairs' = <<>>
    /\ pc' = "step"
    /\ UNCHANGED <<given, out, cache, cur, offset, outs, snaps, kept>>

\* No draft to launch: the host's own one-token forward.
PlainStep ==
    /\ pc = "step" /\ drafts = <<>> /\ hasPlain
    /\ cache' = Append(cache, cur)
    /\ \E nxt \in Answers(cache') :
          /\ pairs' = <<<<Len(cache), nxt>>>>
          /\ out' = Append(out, nxt)
          /\ \/ nxt \in Stops /\ pc' = "done" /\ UNCHANGED <<cur, offset>>
             \/ /\ nxt \notin Stops /\ pc' = "draft"
                /\ cur' = nxt /\ offset' = offset + 1
    /\ UNCHANGED <<given, fed, step, kept>>

\* Mutant: a draft is compared with the id its own stream gave.
AcceptedShifted(ds, os) ==
    LET right(a) == \A i \in 1 .. a - 1 : ds[i] = os[i + 1]
    IN  CHOOSE a \in 1 .. Len(ds) + 1 :
            right(a) /\ \A b \in a + 1 .. Len(ds) + 1 : ~right(b)

\* Streams 1 .. a are valid: each draft is the id the stream before it gave.
Accepted(ds, os) ==
    LET right(a) == \A i \in 1 .. a - 1 : ds[i] = os[i]
    IN  CHOOSE a \in 1 .. Len(ds) + 1 :
            right(a) /\ \A b \in a + 1 .. Len(ds) + 1 : ~right(b)

\* rollback(): the cache as it was before stream a + 1.
Rollback(before, after, a) == IF a < Len(before) THEN before[a + 1] ELSE after

\* A pipelined step of cur and its drafts; what was not accepted is undone.
Step ==
    /\ pc = "step" /\ (drafts # <<>> \/ ~hasPlain)
    /\ LET toks == <<cur>> \o drafts
           K == Len(toks)
           after(i) == cache \o SubSeq(toks, 1, i)
       IN  /\ outs' \in {os \in [1 .. K -> Tokens] : \A i \in 1 .. K : os[i] \in Answers(after(i))}
           /\ snaps' = [i \in 1 .. K |-> after(i - 1)]
           /\ cache' = Rollback(snaps', after(K), Accepted(drafts, outs'))
    /\ kept' = 0 /\ pc' = "commit"
    /\ UNCHANGED <<given, out, cur, offset, pairs, fed, drafts>>

\* Mutant: the stop id's own forward is left in the cache.
CommitOneKeeps ==
    LET i == kept + 1
    IN  /\ pc = "commit" /\ kept < Accepted(drafts, outs) /\ Len(out) < NTokens
        /\ pairs' = Append(pairs, <<Len(snaps[i]), outs[i]>>)
        /\ out' = Append(out, outs[i]) /\ kept' = i
        /\ pc' = IF outs[i] \in Stops THEN "done" ELSE "commit"
        /\ UNCHANGED <<given, cache, cur, offset, fed, step>>

\* An accepted id is handed out; the cache is cut before a stop id.
CommitOne ==
    LET i == kept + 1
    IN  /\ pc = "commit" /\ kept < Accepted(drafts, outs) /\ Len(out) < NTokens
        /\ pairs' = Append(pairs, <<Len(snaps[i]), outs[i]>>)
        /\ out' = Append(out, outs[i]) /\ kept' = i
        /\ \/ /\ outs[i] \in Stops /\ pc' = "done"
              /\ cache' = Rollback(snaps, cache, i)
           \/ outs[i] \notin Stops /\ UNCHANGED <<pc, cache>>
        /\ UNCHANGED <<given, cur, offset, fed, step>>

\* The step went past the number wanted.
Overshot ==
    /\ pc = "commit" /\ kept < Accepted(drafts, outs) /\ Len(out) >= NTokens
    /\ pc' = "done"
    /\ UNCHANGED <<given, out, cache, cur, offset, pairs, fed, step, kept>>

\* Mutant: the pairs of the last step are dropped.
CommittedDropsPairs ==
    /\ pc = "commit" /\ kept = Accepted(drafts, outs)
    /\ offset' = offset + kept /\ cur' = outs[kept]
    /\ pairs' = IF Len(pairs) > 1 THEN Tail(pairs) ELSE pairs
    /\ pc' = "draft"
    /\ UNCHANGED <<given, out, cache, fed, step, kept>>

Committed ==
    /\ pc = "commit" /\ kept = Accepted(drafts, outs)
    /\ offset' = offset + kept /\ cur' = outs[kept]
    /\ pairs' = IF KMax = 1 THEN <<>> ELSE pairs
    /\ pc' = "draft"
    /\ UNCHANGED <<given, out, cache, fed, step, kept>>

\* The prompt's last position gave first_tok; nothing more is run when that
\* is a stop id.
Init ==
    /\ path \in [1 .. NTokens + KMax -> Tokens] /\ hasPlain \in BOOLEAN
    /\ out = <<path[1]>> /\ cur = path[1]
    /\ cache = <<>> /\ offset = 0
    /\ pairs = <<<<-1, path[1]>>>> /\ fed = <<>>
    /\ drafts = <<>> /\ outs = <<>> /\ snaps = <<>> /\ kept = 0
    /\ pc = IF path[1] \in Stops THEN "done" ELSE "draft"

Next == Draft \/ PlainStep \/ Step \/ CommitOne \/ Overshot \/ Committed

\* generate() runs until it returns.
Spec == Init /\ [][Next]_vars /\ WF_vars(Next)

-----------------------------------------------------------------------------
(* Properties.                                                             *)
Plain == INSTANCE PlainLoop

\* The ids handed out, one by one, are those of a plain greedy loop, and all
\* of them, whatever is drafted ("exactly like a plain greedy loop, ending
\* early after the first committed id in `stop`").
ImplementsPlainLoop == Plain!Spec

\* Between steps the cache has seen exactly the ids generated but the last,
\* where the loop believes its end is: the next step's positions are right.
CacheInPlace ==
    pc \in {"draft", "step"} =>
        cache = Front(out) /\ offset = Len(cache) /\ cur = Last(out)

\* At a stop id the cache ends before it ("the cache ends before the stop
\* id"); at the number wanted it may have seen more of the path, never
\* another id.
CacheEnds ==
    pc = "done" =>
        /\ Last(out) \in Stops => cache = Front(out)
        /\ IsPrefix(Front(out), cache) /\ OnPath(cache)

CacheFollows == CacheInPlace /\ CacheEnds

\* The head gets every committed pair once, in order, each hidden with the id
\* that followed it (draft(): "accepted pairs since the previous call,
\* oldest first").
FedInOrder ==
    KMax > 1 => \A i \in 1 .. Len(fed) + Len(pairs) :
        (fed \o pairs)[i] = <<i - 2, path[i]>>
=============================================================================
