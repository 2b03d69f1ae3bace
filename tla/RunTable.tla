------------------------------ MODULE RunTable ------------------------------
(***************************************************************************)
(* What start_run() promises, however many calls race, fail or are killed  *)
(* (docs/pi-integration.md, "Lifecycle and safety semantics": a key "maps  *)
(* to exactly one run", and resources are "declared atomically"): the runs *)
(* that were started, and those of them that hold their resources.  A run  *)
(* gets all it claims in one step, or is not started; it gives all of it   *)
(* back in one step, once; and a key that has started a run is used up.    *)
(* The code keeps one reservation: a run that is over before the call that *)
(* started it has come back may be forgotten, and its key used again.      *)
(***************************************************************************)
CONSTANTS Run, KeyOf, Claims

VARIABLES
    started,   \* the runs whose controller was started, and whose key is used up
    holding,   \* the runs that hold their resources
    overtaken  \* the runs that were over before the call that started them was

runTable == <<started, holding, overtaken>>

TableInit == started = {} /\ holding = {} /\ overtaken = {}

Disjoint(a, b) == Claims[a] \intersect Claims[b] = {}

(* A run that claims nothing holds nothing. *)
StartUp(s) ==
    /\ \A other \in started : KeyOf[other] # KeyOf[s]
    /\ \A other \in holding : Disjoint(other, s)
    /\ started' = started \union {s}
    /\ holding' = IF Claims[s] = {} THEN holding ELSE holding \union {s}
    /\ UNCHANGED overtaken

LetGo(s) ==
    /\ s \in holding /\ holding' = holding \ {s}
    /\ UNCHANGED <<started, overtaken>>

(* The run is over, and has perhaps let go, while its call is under way. *)
Overtake(s) ==
    /\ s \in started \ overtaken /\ overtaken' = overtaken \union {s}
    /\ holding' \in {holding, holding \ {s}}
    /\ UNCHANGED started

Forget(s) ==
    /\ s \in started \intersect overtaken /\ started' = started \ {s}
    /\ UNCHANGED <<holding, overtaken>>

TableNext == \E s \in Run : StartUp(s) \/ LetGo(s) \/ Overtake(s) \/ Forget(s)

TableSpec == TableInit /\ [][TableNext]_runTable
=============================================================================
