---------------------------- MODULE LoopProofs ----------------------------
(***************************************************************************)
(* Proofs about the kernel, for any revisions, keys, limits, policy,       *)
(* environment and host.                                                   *)
(***************************************************************************)
EXTENDS Loop, TLAPS

(* The initial states satisfy the invariant. *)
LEMMA InitKernelInv == Init => KernelInv
<1> SUFFICES ASSUME Init PROVE KernelInv
    OBVIOUS
<1>1. TypeOK
    BY DEF Init, TypeOK, Frame, Status, Terminal, Stage, Receipt, Verdict
<1> QED
    BY <1>1 DEF Init, KernelInv, StagesOfARunningRun, NothingUnresolvedPastResolve,
       FreshObservation, FrameOfThisObservation, OneUnresolved, CallsAreAttempts,
       UnresolvedAreAttempts, NewBeforeExecution, AttemptAfterExecution,
       ExecutedOncePerObservation, ExclusionsAreEarned, SuccessIsVerified,
       Deciding, Observing

(* Every step of the kernel, of the host and of the world keeps the invariant. *)
LEMMA NextKernelInv == KernelInv /\ [Next]_vars => KernelInv'
<1> SUFFICES ASSUME KernelInv, [Next]_vars PROVE KernelInv'
    OBVIOUS
<1> USE DEF KernelInv, TypeOK, StagesOfARunningRun, NothingUnresolvedPastResolve,
       FreshObservation, FrameOfThisObservation, OneUnresolved, CallsAreAttempts,
       UnresolvedAreAttempts, NewBeforeExecution, AttemptAfterExecution,
       ExecutedOncePerObservation, ExclusionsAreEarned, SuccessIsVerified,
       Deciding, Observing, Status, Terminal, Stage,
       taskVars, obsVars, guardVars, opVars, checkVars, frameVars, candVars, runVars,
       Return, Finish, Suspend, Proceed, Continue
<1>1. CASE BeginStep
    BY <1>1 DEF BeginStep
<1>2. CASE ResolveOperations
    BY <1>2 DEF ResolveOperations, Operation
<1>3. CASE Observe
  <2>1. CASE Observed(world) /\ Proceed("offer")
    <3>1. /\ pc = "observe" /\ pc' = "offer"
          /\ status' = status /\ step' = step + 1
          /\ obs' = world /\ unresolved = {}
          /\ UNCHANGED <<world, taskVars, escalations, opVars, checkVars, frameVars, candVars>>
          BY <1>3, <2>1 DEF Observe, Observed
    <3>2. dead' \in SUBSET Key /\ ExclusionsAreEarned'
          BY <2>1, <3>1 DEF Observed
    <3>3. stale' \in BOOLEAN /\ ~stale'
          BY <2>1 DEF Observed
    <3> QED BY <3>1, <3>2, <3>3
  <2>2. CASE ObservationFailed /\ Suspend("awaiting_evidence")
        BY <1>3, <2>2 DEF Observe, ObservationFailed
  <2> QED BY <1>3, <2>1, <2>2 DEF Observe
<1>4. CASE BuildFrame
  <2>1. CASE FrameOverBudget
        BY <1>4, <2>1 DEF BuildFrame, FrameOverBudget
  <2>2. ASSUME NEW candidates \in Offers, FrameBuilt(FrameOf(candidates))
        PROVE  KernelInv'
    <3>1. FrameOf(candidates) \in Frame /\ FrameOf(candidates).rev = obs
          BY KeyAssumption, <1>4 DEF FrameOf, Frame, Offered, BuildFrame
    <3> QED BY <1>4, <2>2, <3>1 DEF BuildFrame, FrameBuilt
  <2> QED BY <1>4, <2>1, <2>2 DEF BuildFrame
<1>5. CASE PolicyFails \/ DecisionRejected \/ CandidateRejected
    BY <1>5 DEF PolicyFails, DecisionRejected, CandidateRejected
<1>6. CASE ChooseControl
    BY <1>6 DEF ChooseControl
<1>7. CASE ChooseCandidate
    BY <1>7 DEF ChooseCandidate
<1>8. CASE RepeatBlocked
    BY <1>8 DEF RepeatBlocked, Refused, GuardFailure
<1>9. CASE RecordIntent
    BY <1>9 DEF RecordIntent, Refused
<1>10. CASE Execute
    BY <1>10 DEF Execute, NeedsPostObservation, Receipt, Operation
<1>11. CASE PostObservation
  <2>1. CASE stale' = FALSE
    <3>1. stale' \in BOOLEAN /\ ~stale'
          BY <2>1
    <3>2. /\ obs' = world /\ UNCHANGED <<world, taskVars, step, opVars, checkVars, frameVars, candVars>>
          /\ pc = "post_observe" /\ pc' = "idle" /\ status' # "succeeded"
          /\ status' \in Status /\ escalations' \in Nat
          BY <1>11, <2>1 DEF PostObservation, GuardFailure
    <3>3. dead' \in SUBSET Key /\ ExclusionsAreEarned'
          BY <1>11, <2>1 DEF PostObservation, NoProgress
    <3> QED BY <3>1, <3>2, <3>3
  <2>2. CASE stale' = TRUE
        BY <1>11, <2>2 DEF PostObservation, NoProgress, GuardFailure
  <2> QED BY <1>11, <2>1, <2>2 DEF PostObservation
<1>12. CASE Verify
  <2>1. CASE verdict' = "satisfied"
        BY <1>12, <2>1, RevAssumption DEF Verify, Verdict
  <2>2. CASE verdict' = "unknown"
        BY <1>12, <2>2 DEF Verify, Verdict
  <2>3. CASE verdict' = "unsatisfied"
        BY <1>12, <2>3 DEF Verify, Verdict
  <2> QED BY <1>12, <2>1, <2>2, <2>3 DEF Verify, Verdict
<1>13. CASE Raise
    BY <1>13 DEF Raise, MayRaise
<1>14. CASE Resume
    BY <1>14 DEF Resume, HostMayCall
<1>15. CASE Cancel
    BY <1>15 DEF Cancel, HostMayCall
<1>16. CASE WorldMoves
    BY <1>16 DEF WorldMoves
<1>17. CASE UNCHANGED vars
    BY <1>17 DEF vars
<1> QED
    BY <1>1, <1>2, <1>3, <1>4, <1>5, <1>6, <1>7, <1>8, <1>9, <1>10, <1>11, <1>12,
       <1>13, <1>14, <1>15, <1>16, <1>17 DEF Next, KernelStep, Host
-----------------------------------------------------------------------------
(* The inductive invariant holds in every behaviour of the kernel. *)
THEOREM KernelInvariant == Spec => []KernelInv
<1>1. Init => KernelInv
    BY InitKernelInv
<1>2. KernelInv /\ [Next]_vars => KernelInv'
    BY NextKernelInv
<1> QED
    BY <1>1, <1>2, PTL DEF Spec

(* Every variable of the kernel keeps its type. *)
THEOREM TypeCorrectness == Spec => []TypeOK
<1>1. KernelInv => TypeOK
    BY DEF KernelInv
<1> QED
    BY <1>1, KernelInvariant, PTL

(* execute() is called at most once for an action on an observation, however *)
(* often the world returns to it and whatever its receipt was.              *)
THEOREM AtMostOneExecution == Spec => []ExecutedOncePerObservation
<1>1. KernelInv => ExecutedOncePerObservation
    BY DEF KernelInv
<1> QED
    BY <1>1, KernelInvariant, PTL

(* An excluded action was attempted on the observation it is excluded on. *)
THEOREM ExclusionScope == Spec => []ExclusionsAreEarned
<1>1. KernelInv => ExclusionsAreEarned
    BY DEF KernelInv
<1> QED
    BY <1>1, KernelInvariant, PTL

(* The run succeeds only on a satisfied verdict, a fresh observation and no *)
(* operation of unknown outcome.                                            *)
THEOREM VerifiedSuccess == Spec => []SuccessIsVerified
<1>1. KernelInv => SuccessIsVerified
    BY DEF KernelInv
<1> QED
    BY <1>1, KernelInvariant, PTL
-----------------------------------------------------------------------------
(* The ledger's view of an operation set. *)
OpenOperations == {<<obs, op.key>> : op \in unresolved}
Closed == status \in Terminal

(* A step that neither executes, nor settles, nor ends the run, is invisible *)
(* to the ledger.                                                           *)
LEMMA InvisibleStep ==
    ASSUME calls' = calls, OpenOperations' = OpenOperations, Closed' = Closed
    PROVE  [Ledger!LedgerNext]_(Ledger!ledger)
  BY DEF Ledger!ledger, OpenOperations, Closed

(* Ending the run leaves the operations alone. *)
LEMMA ClosingStep ==
    ASSUME ~Closed, Closed', calls' = calls, OpenOperations' = OpenOperations
    PROVE  [Ledger!LedgerNext]_(Ledger!ledger)
  BY DEF Ledger!LedgerNext, Ledger!Close, OpenOperations, Closed

(* With the operations untouched, a step that starts in a running run is a  *)
(* stutter of the ledger or closes it.                                      *)
LEMMA OperationsUntouched ==
    ASSUME status \in Status, status' \in Status, Closed => Closed',
           UNCHANGED opVars, unresolved = {} \/ obs' = obs
    PROVE  [Ledger!LedgerNext]_(Ledger!ledger)
<1>1. calls' = calls /\ OpenOperations' = OpenOperations
    BY DEF opVars, OpenOperations
<1>2. Closed \in BOOLEAN /\ Closed' \in BOOLEAN
    BY DEF Closed
<1> QED
    BY <1>1, <1>2, InvisibleStep, ClosingStep

(* The kernel implements the operation ledger. *)
THEOREM KernelKeepsTheLedger == Spec => LedgerSpec
<1> USE DEF Terminal, Status
<1>1. Init => Ledger!LedgerInit
    BY DEF Init, Ledger!LedgerInit
<1>2. KernelInv /\ KernelInv' /\ [Next]_vars => [Ledger!LedgerNext]_(Ledger!ledger)
  <2> SUFFICES ASSUME KernelInv, KernelInv', [Next]_vars
               PROVE  [Ledger!LedgerNext]_(Ledger!ledger)
      OBVIOUS
  <2>1. status \in Status /\ status' \in Status
      BY DEF KernelInv, TypeOK
  <2>2. CASE ResolveOperations
    <3>1. PICK settled \in SUBSET unresolved : unresolved' = unresolved \ settled
          BY <2>2 DEF ResolveOperations
    <3>2. ~Closed /\ ~Closed' /\ obs' = obs /\ calls' = calls
          BY <2>2 DEF ResolveOperations, Closed, KernelInv, StagesOfARunningRun, Stage,
             Suspend, Finish, Proceed, Return, runVars, obsVars
    <3>3. unresolved' = unresolved \/ (unresolved # {} /\ unresolved' = {})
          BY <3>1 DEF KernelInv, OneUnresolved
    <3>4. Closed' = Closed
          BY <3>2 DEF Closed
    <3>5. CASE unresolved' = unresolved
          BY <3>2, <3>4, <3>5, InvisibleStep DEF OpenOperations
    <3>6. CASE unresolved # {} /\ unresolved' = {}
      <4>1. OpenOperations # {} /\ OpenOperations' = {}
            BY <3>6 DEF OpenOperations
      <4>2. Ledger!Settle
            BY <3>2, <3>4, <4>1 DEF Ledger!Settle, OpenOperations, Closed
      <4> QED BY <4>2 DEF Ledger!LedgerNext
    <3> QED BY <3>3, <3>5, <3>6
  <2>3. CASE Execute
    <3>1. /\ ~Closed /\ ~Closed' /\ obs' = obs /\ unresolved = {}
          /\ <<obs, cand>> \in Rev \X Key
          BY <2>3 DEF Execute, NeedsPostObservation, Closed, KernelInv, TypeOK,
             StagesOfARunningRun, NothingUnresolvedPastResolve, FreshObservation,
             Observing, Deciding, Stage, Continue, Proceed, Return, runVars, obsVars
    <3>2. PICK rk \in Rev \X Key : rk = <<obs, cand>>
          BY <3>1
    <3>3. calls[rk] = 0
          BY <2>3, <3>2 DEF Execute, KernelInv, TypeOK, CallsAreAttempts, NewBeforeExecution
    <3>4. calls' = [calls EXCEPT ![rk] = 1]
          BY <2>3, <3>2, <3>3 DEF Execute, KernelInv, TypeOK
    <3>5. unresolved' = {} \/ unresolved' = {[key |-> cand, step |-> step]}
          BY <2>3, <3>1 DEF Execute
    <3>6. OpenOperations = {} /\ OpenOperations' \in {{}, {rk}}
          BY <3>1, <3>2, <3>5 DEF OpenOperations
    <3>7. Ledger!Issue(rk)
      <4>1. ~(status \in Terminal) /\ (status' \in Terminal) = (status \in Terminal)
            BY <3>1 DEF Closed
      <4>2. /\ {<<obs, op.key>> : op \in unresolved} = {}
            /\ {<<obs, op.key>> : op \in unresolved}' \in {{}, {rk}}
            BY <3>6 DEF OpenOperations
      <4> QED BY <3>3, <3>4, <4>1, <4>2 DEF Ledger!Issue
    <3> QED BY <3>7 DEF Ledger!LedgerNext
  <2>4. CASE Observe \/ PostObservation
    <3>1. UNCHANGED opVars /\ unresolved = {} /\ ~Closed
          BY <2>4 DEF Observe, PostObservation, KernelInv, NothingUnresolvedPastResolve,
             StagesOfARunningRun, Observing, Deciding, Stage, Closed
    <3> QED BY <2>1, <3>1, OperationsUntouched
  <2>5. CASE BeginStep \/ BuildFrame \/ PolicyFails \/ DecisionRejected \/ ChooseControl
             \/ ChooseCandidate \/ CandidateRejected \/ RepeatBlocked \/ RecordIntent
             \/ Verify \/ Raise \/ Resume \/ Cancel
    <3>1. UNCHANGED opVars /\ obs' = obs
          BY <2>5 DEF BeginStep, BuildFrame, PolicyFails, DecisionRejected, ChooseControl,
             ChooseCandidate, CandidateRejected, RepeatBlocked, RecordIntent, Verify,
             Raise, Resume, Cancel, obsVars
    <3>2. ~Closed
          BY <2>5 DEF BeginStep, BuildFrame, PolicyFails, DecisionRejected, ChooseControl,
             ChooseCandidate, CandidateRejected, RepeatBlocked, RecordIntent, Verify,
             Raise, MayRaise, Resume, Cancel, HostMayCall, KernelInv, StagesOfARunningRun, Stage, Closed
    <3> QED BY <2>1, <3>1, <3>2, OperationsUntouched
  <2>6. CASE WorldMoves \/ UNCHANGED vars
    <3>1. UNCHANGED opVars /\ obs' = obs /\ status' = status
          BY <2>6 DEF WorldMoves, vars, obsVars, runVars
    <3> QED BY <2>1, <3>1, OperationsUntouched DEF Closed
  <2> QED
      BY <2>2, <2>3, <2>4, <2>5, <2>6 DEF Next, KernelStep, Host
<1> QED
    BY <1>1, <1>2, KernelInvariant, PTL DEF Spec, LedgerSpec, Ledger!LedgerSpec
=============================================================================
