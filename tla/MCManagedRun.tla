--------------------------- MODULE MCManagedRun ---------------------------
(***************************************************************************)
(* Small instances of ManagedRun for TLC: one run, its worker, and clients *)
(* that inspect it at the same time.                                       *)
(***************************************************************************)
EXTENDS ManagedRun, TLC

CONSTANTS i1, i2

OneInspector == {i1}
TwoInspectors == {i1, i2}

(* Inspectors are interchangeable. *)
InspectorSymmetry == Permutations(TwoInspectors)
===========================================================================
