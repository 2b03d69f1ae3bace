------------------------------ MODULE MCLoop ------------------------------
(***************************************************************************)
(* Small instances of Loop for TLC.                                        *)
(***************************************************************************)
EXTENDS Loop, TLC

CONSTANTS r1, r2, k1, k2, t1

MCRev == {r1, r2}
MCKey == {k1, k2}
AllControls == Control
CheapControls == {"refresh", "request_finish"}
AlwaysOffered == {{k1}}
WriteOrAll == {{k1}, MCKey}
(* The locals of step() mean nothing between steps. *)
BetweenSteps ==
    IF pc \in {"idle", "raised"} THEN <<>> ELSE <<frame, candVars>>
Settled ==
    <<world, pc, taskVars, runVars, step, obsVars, guardVars, opVars, checkVars, visits, BetweenSteps>>
RevisionsAlike == Permutations(MCRev)
=============================================================================
