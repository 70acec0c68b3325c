----------------------------- MODULE ExpertPool -----------------------------
(***************************************************************************)
(* One layer's pool of expert slots (streamlx/pool.py, StreamingSwitchMLP) *)
(* and the calls StreamingSwitchGLU makes on it (streamlx/integrate.py):   *)
(* a decode or prefill call that fits the pool, and the adoption pass of a *)
(* prefill sweep.                                                          *)
(*                                                                         *)
(* The rows of a slot are abstracted to the expert they belong to.  One    *)
(* host thread runs a call; each loop iteration of the code is one step,   *)
(* so that a read that raises leaves exactly the state the code leaves.    *)
(* The loops take an id of `todo` in any order: the order in which the     *)
(* router lists a call's experts is an input, and it is the only thing the *)
(* order of the code's lists depends on (the sweep's is ascending).        *)
(***************************************************************************)
EXTENDS Integers, Sequences, FiniteSets, FiniteSetsExt, SequencesExt, OrderedDict

CONSTANTS
    Experts,    \* the layer's expert ids
    NSlots,     \* physical slots, at most one per expert
    Policy,     \* STREAMLX_EVICT: "lru" or "s3fifo"
    TopM,       \* STREAMLX_PF_TOPM: predictions read per prefetch
    ReadsFail   \* whether a batch read may raise (short read, I/O error)

ASSUME ExpertsAssumption == Experts \subseteq Nat /\ IsFiniteSet(Experts)
ASSUME NSlotsAssumption == NSlots \in 1 .. Cardinality(Experts)
ASSUME PolicyAssumption == Policy \in {"lru", "s3fifo"}
ASSUME TopMAssumption == TopM \in Nat
ASSUME ReadsFailAssumption == ReadsFail \in BOOLEAN

Slots == 0 .. NSlots - 1
SENTINEL == -1    \* slot_table's entry of an expert that is not resident
Zeros == -1       \* rows of a slot never written
None == -1        \* _s3_insert's "no victim"

NSmall == Max({1, NSlots \div 10})
NMain == Max({1, NSlots - NSmall})

VARIABLES
    id2slot,     \* OrderedDict expert -> slot, least recently used first
    slot_table,  \* expert -> slot or SENTINEL: the vectorised copy of id2slot
    free,        \* stack of unused slots
    rows,        \* slot -> expert whose rows it holds: the pool's slabs
    queues,      \* s3fifo's q_small, q_main (expert -> freq), q_ghost
    pf,          \* experts of the prefetch in flight
    pc,          \* where the host thread is
    todo,        \* ids the current loop has not reached
    missing,     \* ids the running ensure() bound and has yet to read
    routed,      \* experts of the running call (of a sweep: the warm ones)
    out          \* expert -> rows its output was computed from

poolVars == <<id2slot, slot_table, free, queues>>
callVars == <<pc, todo, missing, routed, out>>
vars == <<id2slot, slot_table, free, rows, queues, pf, pc, todo, missing, routed, out>>

Resident == Keys(id2slot)
Rest == {"idle", "raised"}
InCall == pc \in {"absorb", "touch", "bind", "fetch"}

-----------------------------------------------------------------------------
(* s3fifo's queues.                                                        *)

\* A hit bumps the expert's frequency, capped at 3, in the queue it is in.
S3Hit(q, e) ==
    IF e \in Keys(q.small)
    THEN [q EXCEPT !.small = Put(q.small, e, Min({3, Get(q.small, e) + 1}))]
    ELSE [q EXCEPT !.main = Put(q.main, e, Min({3, Get(q.main, e) + 1}))]

\* Main's eviction loop in closed form: heads with a positive frequency lose
\* one and go to the back until a zero surfaces, which is the first entry of
\* least frequency; it is popped after `low` rounds and part of another.
S3EvictMain(main) ==
    LET low == Min({main[i].v : i \in DOMAIN main})
        at == Min({i \in DOMAIN main : main[i].v = low})
        aged(i, by) == [k |-> main[i].k, v |-> main[i].v - by]
    IN  [victim |-> main[at].k,
         rest |-> [i \in 1 .. Len(main) - at |-> aged(at + i, low)]
                  \o [i \in 1 .. at - 1 |-> aged(i, low + 1)]]

\* Main with room for one more entry.
S3MainRoom(main) ==
    IF Len(main) >= NMain THEN S3EvictMain(main)
    ELSE [victim |-> None, rest |-> main]

\* Mutant: an expert that returns from the ghost queue is left in it.
S3InsertKeepsGhost(q, e) ==
    LET room == S3MainRoom(q.main)
        head == Head(q.small)
        ghost == IF Len(q.ghost) >= NMain THEN Tail(q.ghost) ELSE q.ghost
    IN  IF e \in Keys(q.ghost)
        THEN [victim |-> room.victim, q |-> [q EXCEPT !.main = Put(room.rest, e, 0)]]
        ELSE IF Len(q.small) < NSmall
        THEN [victim |-> None, q |-> [q EXCEPT !.small = Put(q.small, e, 0)]]
        ELSE IF head.v > 0
        THEN [victim |-> room.victim,
              q |-> [q EXCEPT !.small = Put(Tail(q.small), e, 0),
                              !.main = Put(room.rest, head.k, 0)]]
        ELSE [victim |-> head.k,
              q |-> [q EXCEPT !.small = Put(Tail(q.small), e, 0),
                              !.ghost = Put(ghost, head.k, TRUE)]]

\* Register e; the result names the queues and the expert that loses its slot.
S3Insert(q, e) ==
    LET room == S3MainRoom(q.main)
        head == Head(q.small)
        ghost == IF Len(q.ghost) >= NMain THEN Tail(q.ghost) ELSE q.ghost
    IN  IF e \in Keys(q.ghost)
        THEN [victim |-> room.victim,
              q |-> [q EXCEPT !.ghost = Without(q.ghost, e), !.main = Put(room.rest, e, 0)]]
        ELSE IF Len(q.small) < NSmall
        THEN [victim |-> None, q |-> [q EXCEPT !.small = Put(q.small, e, 0)]]
        ELSE IF head.v > 0
        THEN [victim |-> room.victim,
              q |-> [q EXCEPT !.small = Put(Tail(q.small), e, 0),
                              !.main = Put(room.rest, head.k, 0)]]
        ELSE [victim |-> head.k,
              q |-> [q EXCEPT !.small = Put(Tail(q.small), e, 0),
                              !.ghost = Put(ghost, head.k, TRUE)]]

-----------------------------------------------------------------------------
(* The pool's own operations.                                              *)

\* Mutant: a hit does not refresh the expert (FIFO instead of LRU).
PolicyHitFifo(e) ==
    \/ Policy = "lru" /\ UNCHANGED poolVars
    \/ Policy = "s3fifo" /\ queues' = S3Hit(queues, e) /\ UNCHANGED <<id2slot, slot_table, free>>

PolicyHit(e) ==
    \/ /\ Policy = "lru"
       /\ id2slot' = MoveToEnd(id2slot, e)
       /\ UNCHANGED <<slot_table, free, queues>>
    \/ /\ Policy = "s3fifo"
       /\ queues' = S3Hit(queues, e)
       /\ UNCHANGED <<id2slot, slot_table, free>>

\* Bind e to the top of the free stack.
BindFree(e) ==
    /\ free # <<>>
    /\ id2slot' = Append(id2slot, [k |-> e, v |-> Last(free)])
    /\ slot_table' = [slot_table EXCEPT ![e] = Last(free)]
    /\ free' = Front(free)

\* Mutant: the lookup table keeps the victim's slot.
BindOverKeepsVictim(victim, e) ==
    /\ victim \in Resident
    /\ LET slot == Get(id2slot, victim)
       IN  /\ id2slot' = Append(Without(id2slot, victim), [k |-> e, v |-> slot])
           /\ slot_table' = [slot_table EXCEPT ![e] = slot]
    /\ UNCHANGED free

\* Bind e to the slot of a resident victim.
BindOver(victim, e) ==
    /\ victim \in Resident
    /\ LET slot == Get(id2slot, victim)
       IN  /\ id2slot' = Append(Without(id2slot, victim), [k |-> e, v |-> slot])
           /\ slot_table' = [slot_table EXCEPT ![victim] = SENTINEL, ![e] = slot]
    /\ UNCHANGED free

TakeSlotFor(e) ==
    \/ /\ Policy = "lru"
       /\ \/ BindFree(e)
          \/ free = <<>> /\ BindOver(Head(id2slot).k, e)
       /\ UNCHANGED queues
    \/ /\ Policy = "s3fifo"
       /\ LET ins == S3Insert(queues, e)
          IN  /\ queues' = ins.q
              /\ \/ ins.victim = None /\ BindFree(e)
                 \/ ins.victim # None /\ BindOver(ins.victim, e)

\* s3fifo names no victim and no slot is free (IndexError), or its victim
\* holds no slot (KeyError): the queues have moved, the slot maps have not.
TakeSlotRaises(e) ==
    /\ Policy = "s3fifo"
    /\ LET ins == S3Insert(queues, e)
       IN  /\ queues' = ins.q
           /\ \/ ins.victim = None /\ free = <<>>
              \/ ins.victim # None /\ ins.victim \notin Resident
    /\ UNCHANGED <<id2slot, slot_table, free>>

\* Mutant: the rows of an expert already resident are taken to be there, and
\* it is not refreshed.
AdoptNoRefresh(e) ==
    \/ e \in Resident /\ UNCHANGED <<poolVars, rows>>
    \/ e \notin Resident /\ TakeSlotFor(e) /\ rows' = [rows EXCEPT ![Get(id2slot', e)] = e]

\* adopt(): rows already read are placed without I/O.
Adopt(e) ==
    /\ \/ e \in Resident /\ PolicyHit(e)
       \/ e \notin Resident /\ TakeSlotFor(e)
    /\ rows' = [rows EXCEPT ![Get(id2slot', e)] = e]

Raises ==
    /\ pc' = "raised"
    /\ todo' = {} /\ missing' = <<>> /\ routed' = {}
    /\ out' = IF InCall THEN <<>> ELSE out

-----------------------------------------------------------------------------
(* prefetch_start(): the previous layer's call predicted this layer's      *)
(* routing; the TopM most confident predictions that are not resident are  *)
(* read in the background.  A prediction never consumed is dropped.        *)
PrefetchStart ==
    /\ pc \in Rest
    /\ \E top \in SUBSET Experts :
          /\ top # {} /\ Cardinality(top) <= TopM
          /\ pf' = top \ Resident
    /\ UNCHANGED <<poolVars, rows, callVars>>

\* The start of a call whose experts fit the pool.
Fits(ids) == ids # {} /\ Cardinality(ids) <= NSlots

Begin(ids, where, work) ==
    /\ pc \in Rest
    /\ pc' = where /\ todo' = work
    /\ routed' = ids /\ missing' = <<>>

\* A decode call first absorbs the prefetch: the predicted experts it routed
\* are adopted, unless their read raised, which falls back to reading them.
CallDecode ==
    /\ \E ids \in SUBSET Experts, readOk \in BOOLEAN :
          /\ Fits(ids)
          /\ Begin(ids, "absorb", IF readOk THEN (pf \cap ids) \ Resident ELSE {})
    /\ pf' = {} /\ out' = <<>>
    /\ UNCHANGED <<poolVars, rows>>

AbsorbStep ==
    /\ pc = "absorb"
    /\ \E e \in todo :
          \/ /\ Adopt(e)
             /\ todo' = todo \ {e}
             /\ UNCHANGED <<pf, pc, missing, routed, out>>
          \/ /\ e \notin Resident /\ TakeSlotRaises(e)
             /\ Raises
             /\ UNCHANGED <<rows, pf>>

\* With hits and misses the hits go first (_overlapped); else one ensure().
AbsorbDone ==
    /\ pc = "absorb" /\ todo = {}
    /\ IF routed \cap Resident # {} /\ routed \ Resident # {}
       THEN pc' = "touch" /\ todo' = routed \cap Resident
       ELSE pc' = "bind" /\ todo' = routed
    /\ UNCHANGED <<poolVars, rows, pf, missing, routed, out>>

TouchStep ==
    /\ pc = "touch"
    /\ \E e \in todo : PolicyHit(e) /\ todo' = todo \ {e}
    /\ UNCHANGED <<rows, pf, pc, missing, routed, out>>

\* The hits' half is dispatched; the misses' ensure() follows.
DispatchHits ==
    /\ pc = "touch" /\ todo = {}
    /\ out' = [e \in routed \cap Resident |-> rows[Get(id2slot, e)]]
    /\ pc' = "bind" /\ todo' = routed \ Resident
    /\ UNCHANGED <<poolVars, rows, pf, missing, routed>>

\* A call of several tokens (a prompt chunk, one slice of the token-slicing
\* prefill, or preload_popular's) goes straight to ensure().
CallPrefill ==
    /\ \E ids \in SUBSET Experts : Fits(ids) /\ Begin(ids, "bind", ids)
    /\ out' = <<>>
    /\ UNCHANGED <<poolVars, rows, pf>>

\* ensure(): every id is touched or bound before anything is read.
BindStep ==
    /\ pc = "bind"
    /\ \E e \in todo :
          \/ /\ e \in Resident /\ PolicyHit(e)
             /\ todo' = todo \ {e}
             /\ UNCHANGED <<pc, missing, routed, out>>
          \/ /\ e \notin Resident /\ TakeSlotFor(e)
             /\ todo' = todo \ {e} /\ missing' = Append(missing, e)
             /\ UNCHANGED <<pc, routed, out>>
          \/ /\ e \notin Resident /\ TakeSlotRaises(e)
             /\ Raises
    /\ UNCHANGED <<rows, pf>>

BindDone ==
    /\ pc = "bind" /\ todo = {}
    /\ pc' = "fetch"
    /\ UNCHANGED <<poolVars, rows, pf, todo, missing, routed, out>>

\* The rows after ensure() wrote the batch read for `ids`.
Written(ids) ==
    [s \in Slots |-> IF \E e \in ids : e \in Resident /\ Get(id2slot, e) = s
                     THEN CHOOSE e \in ids : e \in Resident /\ Get(id2slot, e) = s
                     ELSE rows[s]]

\* Mutant: the lookup is multiplied before the batch is in the slots.
FetchTooEarly ==
    /\ pc = "fetch"
    /\ routed \ DOMAIN out \subseteq Resident /\ Range(missing) \subseteq Resident
    /\ rows' = Written(Range(missing))
    /\ out' = [e \in routed |-> IF e \in DOMAIN out THEN out[e] ELSE rows[Get(id2slot, e)]]
    /\ pc' = "idle" /\ missing' = <<>>
    /\ UNCHANGED <<poolVars, pf, todo, routed>>

\* The batch arrived: its rows go into the slots, and the experts not yet
\* computed are looked up and multiplied.
Fetch ==
    /\ pc = "fetch"
    /\ routed \ DOMAIN out \subseteq Resident /\ Range(missing) \subseteq Resident
    /\ rows' = Written(Range(missing))
    /\ out' = [e \in routed |-> IF e \in DOMAIN out THEN out[e] ELSE rows'[Get(id2slot, e)]]
    /\ pc' = "idle" /\ missing' = <<>>
    /\ UNCHANGED <<poolVars, pf, todo, routed>>

\* An expert of this very call lost its slot: a KeyError at the first one
\* bound, or _remap's "unmapped expert after ensure" once all is written.
FetchUnmapped ==
    /\ pc = "fetch"
    /\ ~(routed \ DOMAIN out \subseteq Resident /\ Range(missing) \subseteq Resident)
    /\ rows' = Written({missing[i] : i \in
                    {i \in DOMAIN missing : \A j \in 1 .. i : missing[j] \in Resident}})
    /\ Raises
    /\ UNCHANGED <<poolVars, pf>>

\* The batch read raised: the slots stay bound, nothing was written.
FetchRaises ==
    /\ ReadsFail
    /\ pc = "fetch" /\ missing # <<>>
    /\ Raises
    /\ UNCHANGED <<poolVars, rows, pf>>

-----------------------------------------------------------------------------
(* _expert_sweep()'s effect on the pool: a call that routes more experts   *)
(* than fit streams them through throwaway buffers and adopts the NSlots   *)
(* most routed ones as they pass, in id order; a retouch then orders them  *)
(* by count.                                                               *)
SweepStart ==
    /\ NSlots < Cardinality(Experts)
    /\ \E warm \in SUBSET Experts :
          Cardinality(warm) = NSlots /\ Begin(warm, "sweep", warm)
    /\ UNCHANGED <<poolVars, rows, pf, out>>

SweepAdopt ==
    /\ pc = "sweep"
    /\ \E e \in todo :
          /\ \A f \in todo : e <= f
          /\ \/ /\ Adopt(e)
                /\ todo' = todo \ {e}
                /\ UNCHANGED <<pc, missing, routed, out>>
             \/ /\ e \notin Resident /\ TakeSlotRaises(e)
                /\ Raises
                /\ UNCHANGED rows
    /\ UNCHANGED pf

\* The next batch's read raised between two adoptions.
SweepRaises ==
    /\ ReadsFail
    /\ pc = "sweep" /\ todo # {}
    /\ Raises
    /\ UNCHANGED <<poolVars, rows, pf>>

SweepRetouch ==
    /\ pc = "sweep" /\ todo = {}
    /\ pc' = "retouch" /\ todo' = routed \cap Resident
    /\ UNCHANGED <<poolVars, rows, pf, missing, routed, out>>

RetouchStep ==
    /\ pc = "retouch"
    /\ \E e \in todo : id2slot' = MoveToEnd(id2slot, e) /\ todo' = todo \ {e}
    /\ UNCHANGED <<slot_table, free, rows, queues, pf, pc, missing, routed, out>>

SweepDone ==
    /\ pc = "retouch" /\ todo = {}
    /\ pc' = "idle"
    /\ UNCHANGED <<poolVars, rows, pf, todo, missing, routed, out>>

-----------------------------------------------------------------------------
Init ==
    /\ id2slot = <<>>
    /\ slot_table = [e \in Experts |-> SENTINEL]
    /\ free = [i \in 1 .. NSlots |-> i - 1]
    /\ rows = [s \in Slots |-> Zeros]
    /\ queues = [small |-> <<>>, main |-> <<>>, ghost |-> <<>>]
    /\ pf = {}
    /\ pc = "idle" /\ todo = {} /\ missing = <<>> /\ routed = {} /\ out = <<>>

\* What the host thread does within a call.
Step ==
    \/ AbsorbStep \/ AbsorbDone \/ TouchStep \/ DispatchHits
    \/ BindStep \/ BindDone \/ Fetch \/ FetchUnmapped \/ FetchRaises
    \/ SweepAdopt \/ SweepRaises \/ SweepRetouch \/ RetouchStep \/ SweepDone

Next == PrefetchStart \/ CallDecode \/ CallPrefill \/ SweepStart \/ Step

Spec == Init /\ [][Next]_vars

-----------------------------------------------------------------------------
(* Properties.                                                             *)

TypeOK ==
    /\ id2slot \in OrderedDicts(Experts, Slots)
    /\ slot_table \in [Experts -> Slots \cup {SENTINEL}]
    /\ free \in Seq(Slots)
    /\ rows \in [Slots -> Experts \cup {Zeros}]
    /\ pf \subseteq Experts /\ todo \subseteq routed /\ routed \subseteq Experts
    /\ missing \in Seq(Experts)
    /\ pc \in Rest \cup {"absorb", "touch", "bind", "fetch", "sweep", "retouch"}

\* The three books on slots agree at every step, exceptions included: the
\* dict and the lookup table name the same slot for the same experts, and
\* every slot is either free, once, or held by exactly one expert.
SlotMap ==
    /\ \A e \in Experts \ Resident : slot_table[e] = SENTINEL
    /\ \A i \in DOMAIN id2slot : slot_table[id2slot[i].k] = id2slot[i].v
    /\ \A i, j \in DOMAIN id2slot : id2slot[i].v = id2slot[j].v => i = j
    /\ \A i, j \in DOMAIN free : free[i] = free[j] => i = j
    /\ \A s \in Slots : (s \in Range(free)) <=> ~\E i \in DOMAIN id2slot : id2slot[i].v = s

\* The experts of the running call (of a sweep: the warm ones) that its loops
\* have passed.
Processed ==
    CASE pc = "touch" -> (routed \cap Resident) \ todo
      [] pc \in {"bind", "fetch", "sweep"} -> routed \ todo
      [] pc = "retouch" -> routed
      [] OTHER -> {}

\* A call never evicts an expert it has already touched or bound: the slots
\* the GPU is reading for the hits, and those the batch read will fill, stay
\* (the comment of touch(), and what makes _remap total); nor does a sweep
\* evict one it has already adopted.
NoSelfEviction == Processed \subseteq Resident

\* s3fifo: the queues keep to their capacities, and a resident expert is always
\* in one of the two queues that can evict it (else its slot is lost for good).
QueuesTrackSlots ==
    /\ Len(queues.small) <= NSmall /\ Len(queues.main) <= NMain
    /\ Len(queues.ghost) <= NMain
    /\ Resident \subseteq Keys(queues.small) \cup Keys(queues.main)
    /\ NSlots >= 2 => Keys(queues.small) \cup Keys(queues.main) \subseteq Resident
    /\ Keys(queues.ghost) \cap Resident = {}

\* Calls that raise between two assignments included: every variable keeps its
\* type; the dict, the lookup table and the free stack agree; no resident
\* expert is lost to the queues, which keep to their capacities and, with two
\* slots, name no expert without one (ensure, _s3_insert, _s3_evict_small and
\* _s3_evict_main).
S3BooksAgree == TypeOK /\ SlotMap /\ QueuesTrackSlots

\* Every answer was computed from each expert's own rows.
OutputExact == pc = "idle" => \A e \in DOMAIN out : out[e] = e

\* A call whose experts fit the pool never raises by itself.
NeverRaises == pc # "raised"

\* After a sweep's adoptions the pool holds exactly the experts it set out
\* to leave warm, each with its rows, though adopting one evicts another.
SweepWarms ==
    pc = "retouch" => Resident = routed /\ \A e \in routed : rows[Get(id2slot, e)] = e

\* The pool seen as the layer the host calls: the experts of the call in
\* progress, and the answer between calls.
Stock == INSTANCE StockSwitch WITH
    Routable <- {ids \in SUBSET Experts : Fits(ids)},
    MayRaise <- ReadsFail,
    asked <- IF InCall THEN routed ELSE {},
    answer <- IF InCall THEN <<>> ELSE out

\* Each call is answered as the stock layer would answer it; it raises only
\* where a read may.
ImplementsStock == Stock!Spec

=============================================================================
