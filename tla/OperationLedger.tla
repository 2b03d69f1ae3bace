-------------------------- MODULE OperationLedger --------------------------
(***************************************************************************)
(* What the kernel promises about the operations it sends into the world,  *)
(* whatever the policy, the environment and the verifier do (docs/         *)
(* design.md, invariants I3 and I4 and the receipt table): an operation is *)
(* issued on an observation at most once, never while the outcome of       *)
(* another is unknown, and never after the run has ended; an operation     *)
(* whose outcome is unknown stays open until it is settled.                *)
(***************************************************************************)
EXTENDS Naturals

CONSTANTS Rev, Key

VARIABLES
    issued,   \* how often a key was executed on a revision
    open,     \* the operations whose outcome is not known
    closed    \* the run has ended

ledger == <<issued, open, closed>>

LedgerInit ==
    /\ issued = [rk \in Rev \X Key |-> 0]
    /\ open = {}
    /\ closed = FALSE

(* The outcome is known at once, or the operation is left open. *)
Issue(rk) ==
    /\ ~closed /\ open = {} /\ issued[rk] = 0
    /\ issued' = [issued EXCEPT ![rk] = 1]
    /\ open' \in {{}, {rk}}
    /\ UNCHANGED closed

Settle ==
    /\ ~closed
    /\ open # {} /\ open' = {}
    /\ UNCHANGED <<issued, closed>>

Close ==
    /\ ~closed
    /\ closed' = TRUE
    /\ UNCHANGED <<issued, open>>

LedgerNext ==
    \/ \E rk \in Rev \X Key : Issue(rk)
    \/ Settle
    \/ Close

LedgerSpec == LedgerInit /\ [][LedgerNext]_ledger
=============================================================================
