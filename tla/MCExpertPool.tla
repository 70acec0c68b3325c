---------------------------- MODULE MCExpertPool ----------------------------
(***************************************************************************)
(* Instances of ExpertPool for TLC, and the check that S3EvictMain is what *)
(* the loop of _s3_evict_main computes.                                    *)
(***************************************************************************)
EXTENDS ExpertPool

\* The loop, one head at a time.
RECURSIVE EvictLoop(_)
EvictLoop(main) ==
    LET head == Head(main)
    IN  IF head.v > 0
        THEN EvictLoop(Append(Tail(main), [head EXCEPT !.v = @ - 1]))
        ELSE [victim |-> head.k, rest |-> Tail(main)]

\* Every main queue of up to four experts (frequencies are capped at 3).
Mains == UNION {{[i \in 1 .. n |-> [k |-> i, v |-> f[i]]] : f \in [1 .. n -> 0 .. 3]} : n \in 1 .. 4}

ASSUME EvictMainIsTheLoop == \A main \in Mains : S3EvictMain(main) = EvictLoop(main)
=============================================================================
