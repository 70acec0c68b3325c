---------------------------- MODULE MCPromptCache ----------------------------
(***************************************************************************)
(* PagedPromptCache for TLC on two servers: one whose I/O fails and whose  *)
(* sequences may be longer than the byte cap (the constants of the         *)
(* configuration), and a calm one, whose reads, writes and saves succeed   *)
(* and where every sequence fits the cap.  Either may crash.               *)
(***************************************************************************)
EXTENDS PagedPromptCache

VARIABLE calm

\* The segments whose temporary files are left behind: that of one token, the
\* shortest and so the one most often written again.
OneSegment == {<<CHOOSE t \in Tokens : TRUE>>}

Calm == INSTANCE PagedPromptCache WITH
    MaxBytes <- 3, PendingCap <- 2, Sliced <- FALSE, Faults <- FALSE, MaxDisk <- 3

ServersInit == Init /\ calm \in BOOLEAN

ServersNext ==
    \/ ~calm /\ Next /\ UNCHANGED calm
    \/ calm /\ Calm!Next /\ UNCHANGED calm

\* As PagedPromptCache's fairness: the writer takes what is queued, a server
\* thread that was notified goes on.
ServerGoesOn == IF calm THEN Calm!Server ELSE Server
WriterGoesOn == IF calm THEN Calm!Writer ELSE Writer
ServersSpec ==
    /\ ServersInit /\ [][ServersNext]_<<vars, calm>>
    /\ WF_<<vars, calm>>(ServerGoesOn /\ UNCHANGED calm)
    /\ WF_<<vars, calm>>(WriterGoesOn /\ UNCHANGED calm)

-----------------------------------------------------------------------------
\* While I/O succeeds and every sequence fits the cap, no stored chain ever
\* loses its prefix, across crashes and evictions (kvcache.py, _evict:
\* "leaves only").
CalmChainsWhole == calm => ChainsWhole

\* Stored bytes grow only up to max_bytes (_evict), whichever it is; a restart
\* may find more on disk.
BytesGrowthBounded ==
    [][dir => index'.bytes <= Max({index.bytes, IF calm THEN 3 ELSE MaxBytes})]_<<vars, calm>>
=============================================================================
