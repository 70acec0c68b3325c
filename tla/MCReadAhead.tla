----------------------------- MODULE MCReadAhead -----------------------------
(***************************************************************************)
(* Two hosts of ReadAhead for TLC: one that only sweeps, whose reads may   *)
(* raise, after which it starts over (the constants of the configuration), *)
(* and one that also decodes, with predictions, whose reads succeed.       *)
(***************************************************************************)
EXTENDS ReadAhead

VARIABLE decodes

Decoding == INSTANCE ReadAhead WITH
    Decodes <- TRUE, MaxPrefetch <- 1, MaxRaises <- 0

HostsInit == Init /\ decodes \in BOOLEAN

HostsNext ==
    \/ ~decodes /\ Next /\ UNCHANGED decodes
    \/ decodes /\ Decoding!Next /\ UNCHANGED decodes

\* As ReadAhead's fairness: the threads read, a host that has called waits.
Answered == IF decodes THEN Decoding!Proceed ELSE Proceed
HostsSpec ==
    /\ HostsInit /\ [][HostsNext]_<<vars, decodes>>
    /\ WF_<<vars, decodes>>(Answered /\ UNCHANGED decodes)
    /\ \A x \in Executors : WF_vars(Start(x)) /\ WF_vars(Finish(x))
=============================================================================
