---------------------------- MODULE StockSwitch ----------------------------
(***************************************************************************)
(* What a streamed MoE layer promises its host: it answers like the stock  *)
(* SwitchGLU, which holds every expert.  A call routes a set of experts;   *)
(* the answer gives, for each of them, the expert whose rows were          *)
(* multiplied (an identity: its own).  Slots, eviction, prefetch and the   *)
(* order of reads are invisible.                                           *)
(***************************************************************************)
CONSTANTS Routable,  \* the sets of experts one call may route, none empty
          MayRaise   \* whether a call may end in an exception

VARIABLES asked,     \* experts of the call in progress, {} between calls
          answer     \* expert -> rows used, <<>> when there is no answer

vars == <<asked, answer>>

Init == asked = {} /\ answer = <<>>

Ask == /\ asked = {}
       /\ asked' \in Routable
       /\ answer' = <<>>

Answer == /\ asked # {}
          /\ asked' = {}
          /\ answer' = [e \in asked |-> e]

Raise == /\ MayRaise
         /\ asked # {}
         /\ asked' = {}
         /\ answer' = <<>>

Next == Ask \/ Answer \/ Raise

Spec == Init /\ [][Next]_vars
=============================================================================
