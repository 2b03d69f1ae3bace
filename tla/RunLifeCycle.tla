---------------------------- MODULE RunLifeCycle ----------------------------
(***************************************************************************)
(* What a managed run promises to whoever starts, watches and stops it     *)
(* (docs/pi-integration.md, "Lifecycle and safety semantics"), whoever     *)
(* writes its journal and whichever process dies: it starts, may be asked  *)
(* to stop, and is finished once.  How it finished and that its inputs     *)
(* were released is never taken back.  A worker that has gone can only     *)
(* have failed, and the release it did not record is up to an operator,    *)
(* after the run is finished.  The resource claim leaves the run on a      *)
(* recorded release and on nothing else.  A run that claims nothing counts  *)
(* as released from the start.                                             *)
(***************************************************************************)
VARIABLES
    status,     \* of the run
    released,   \* its release is recorded
    claim,      \* "held", "free", "other" run's, or "none" to have
    live        \* its worker is there

lifecycle == <<status, released, claim, live>>

Finished == {"succeeded", "failed", "cancelled", "expired"}

LifeCycleInit ==
    /\ status = "starting" /\ live = TRUE
    /\ claim \in {"held", "none"} /\ released = (claim = "none")

(* Whoever records an event may give the claim back with it. *)
GiveBack == released' /\ claim = "held" /\ claim' = "free"
KeepOrGiveBack == UNCHANGED claim \/ GiveBack

(* The worker goes with its last event, or after it. *)
StayOrGo == live' => live

Begin ==
    /\ live /\ status = "starting" /\ status' = "running"
    /\ UNCHANGED <<released, claim, live>>

AskedToStop ==
    /\ live /\ status = "running" /\ status' = "stopping"
    /\ UNCHANGED <<released, claim, live>>

Release ==
    /\ ~released /\ released' = TRUE
    /\ live \/ status \in Finished
    /\ KeepOrGiveBack
    /\ UNCHANGED <<status, live>>

Finish ==
    /\ status \in {"starting", "running", "stopping"}
    /\ status' \in IF live /\ status # "starting" THEN Finished ELSE {"failed"}
    /\ KeepOrGiveBack /\ StayOrGo
    /\ UNCHANGED released

ReturnClaim == GiveBack /\ StayOrGo /\ UNCHANGED <<status, released>>

(* Another run takes the resource. *)
TakenOver ==
    /\ released /\ claim \in {"held", "free"} /\ claim' = "other"
    /\ UNCHANGED <<status, released, live>>

Vanish == live /\ ~live' /\ UNCHANGED <<status, released, claim>>

LifeCycleNext ==
    \/ Begin \/ AskedToStop \/ Release \/ Finish
    \/ ReturnClaim \/ TakenOver \/ Vanish

LifeCycleSpec == LifeCycleInit /\ [][LifeCycleNext]_lifecycle
=============================================================================
