------------------------------- MODULE Loop -------------------------------
(***************************************************************************)
(* The loop kernel, src/src/jev_loop/core/: Loop.step() of loop.py with    *)
(* the reducer (reduce.py), the frame (frame.py) and the progress guards   *)
(* (guards.py) it calls.                                                   *)
(*                                                                         *)
(* step() is one thread, but it calls out to the environment, the policy   *)
(* and the verifier, and the world moves while it does.  So the step is    *)
(* cut at those calls: each action is the code from one outside call to    *)
(* the next, with everything it emits and reduces on the way, and pc names *)
(* the call that comes next.                                               *)
(*                                                                         *)
(* Data is kept only as far as control depends on it: an observation is    *)
(* its revision, a candidate its semantic key, the task an opaque text,    *)
(* and a frame IS the content its fingerprint hashes.                      *)
(***************************************************************************)
EXTENDS Naturals, FiniteSets

CONSTANTS
    Rev,                \* observation revisions the world can show
    Key,                \* semantic keys of the candidates
    Mutating,           \* the keys whose effect is not READ_ONLY
    Task,               \* task contents that reach the fingerprint
    Controls,           \* LoopConfig.controls
    MaxSteps,           \* LoopConfig.max_steps, 0 disables it
    MaxVerifications,   \* LoopConfig.max_verifications
    MaxFrameVisits,     \* LoopConfig.max_frame_visits
    MaxEscalations,     \* LoopConfig.max_guard_escalations
    MaxOptions,         \* LoopConfig.max_options
    PostObserve,        \* LoopConfig.post_observe
    HasVerifier,        \* whether the loop was given a verifier
    Offers,             \* the sets of keys environment.offer() may answer with
    MaxWakes,           \* bound: how often the host resumes the run
    NoRev               \* revision "unknown", before the first observation

ASSUME RevAssumption == NoRev \notin Rev
ASSUME KeyAssumption == Mutating \subseteq Key /\ Offers \subseteq SUBSET Key
ASSUME LimitAssumption ==
    /\ MaxSteps \in Nat /\ MaxVerifications \in Nat /\ MaxFrameVisits \in Nat
    /\ MaxEscalations \in Nat /\ MaxOptions \in Nat /\ MaxWakes \in Nat
    /\ PostObserve \in BOOLEAN /\ HasVerifier \in BOOLEAN

Terminal == {"succeeded", "failed", "cancelled"}
Status == Terminal \union {"running", "suspended"}
Control == {"refresh", "request_finish", "blocked", "wait"}
Receipt == {"completed", "rejected", "pending", "unknown"}
Unresolved == {"pending", "unknown"}
Verdict == {"satisfied", "unsatisfied", "unknown"}

ASSUME ControlAssumption == Controls \subseteq Control

(* What build_frame() hashes: two frames are the same frame when these agree. *)
Frame == [rev : Rev \union {NoRev}, task : Task, cands : SUBSET Key, dead : SUBSET Key]

Operation == [key : Key, step : Nat]

VARIABLES
    world,         \* the revision an observation would read now
    pc,            \* the outside call step() makes next; "idle" between steps
    wakes,         \* resumes so far, up to MaxWakes
    status, reason, step, task,
    obs, stale,    \* RuntimeState.observation (its revision), observation_stale
    unresolved,    \* RuntimeState.unresolved
    dead,          \* RuntimeState.dead_actions
    attempts,      \* <<revision, key>> of RuntimeState.attempts
    visits,        \* RuntimeState.frame_visits
    escalations,   \* RuntimeState.guard_escalations
    verified,      \* number of RuntimeState.verifications
    verdict,       \* verdict of the last one, "none" before it
    frame,         \* the frame of this step
    cand,          \* the key chosen from it
    receipt,       \* the receipt of its execution
    calls          \* history: execute() calls made per <<revision, key>>

taskVars == <<task, wakes>>
obsVars == <<obs, stale>>
guardVars == <<dead, escalations>>
opVars == <<unresolved, attempts, calls>>
checkVars == <<verified, verdict>>
frameVars == <<frame, visits>>
candVars == <<cand, receipt>>
runVars == <<status, reason>>
vars == <<world, pc, taskVars, runVars, step, obsVars, guardVars, opVars,
          checkVars, frameVars, candVars>>

Stage == {"idle", "raised", "resolve", "observe", "offer", "decide", "validate",
          "execute", "post_observe", "verify"}

(* A call that raises something step() does not catch: the exception leaves *)
(* step() with the state as the last event left it.                        *)
MayRaise == {"resolve", "observe", "offer", "validate", "post_observe"}
-----------------------------------------------------------------------------
Init ==
    /\ world \in Rev
    /\ pc = "idle" /\ wakes = 0
    /\ status = "running" /\ reason = "none" /\ step = 0
    /\ task \in Task
    /\ obs = NoRev /\ stale = FALSE
    /\ unresolved = {} /\ attempts = {} /\ calls = [rk \in Rev \X Key |-> 0]
    /\ dead = {} /\ escalations = 0
    /\ verified = 0 /\ verdict = "none"
    /\ visits = [f \in Frame |-> 0]
    /\ frame = [rev |-> NoRev, task |-> task, cands |-> {}, dead |-> {}]
    /\ cand \in Key /\ receipt = "none"

(* How a stage ends the step. *)
Return == pc' = "idle"
Finish(s, r) == Return /\ status' = s /\ reason' = r
Suspend(r) == Finish("suspended", r)
Proceed(stage) == pc' = stage /\ UNCHANGED runVars
Continue == Return /\ UNCHANGED runVars
-----------------------------------------------------------------------------
OverSteps == MaxSteps # 0 /\ step + 1 > MaxSteps

(* step(), entry: the step limit, the wall-clock budget, which may have run *)
(* out by now, and unresolved operations before anything else.             *)
BeginStep ==
    /\ pc = "idle" /\ status = "running"
    /\ \/ OverSteps /\ Finish("failed", "max_steps")
       \/ ~OverSteps /\ Finish("failed", "budget_exhausted")
       \/ ~OverSteps /\ Proceed(IF unresolved # {} THEN "resolve" ELSE "observe")
    /\ UNCHANGED <<world, taskVars, step, obsVars, guardVars, opVars, checkVars, frameVars, candVars>>

(* Mutants: step() goes on with operations still unresolved; or it returns  *)
(* without suspending, and the next step asks again.                       *)
MutantResolveGoesOn ==
    /\ pc = "resolve"
    /\ \E settled \in SUBSET unresolved :
         /\ unresolved' = unresolved \ settled
         /\ attempts' = attempts \union {<<obs, op.key>> : op \in settled}
         /\ Proceed("observe")
    /\ UNCHANGED <<world, taskVars, step, obsVars, guardVars, calls, checkVars, frameVars, candVars>>

MutantResolvePolls ==
    /\ pc = "resolve"
    /\ \E settled \in SUBSET unresolved :
         /\ unresolved' = unresolved \ settled
         /\ attempts' = attempts \union {<<obs, op.key>> : op \in settled}
         /\ IF unresolved' # {} THEN Continue ELSE Proceed("observe")
    /\ UNCHANGED <<world, taskVars, step, obsVars, guardVars, calls, checkVars, frameVars, candVars>>

(* environment.query() on every unresolved operation; those it answers are settled. *)
ResolveOperations ==
    /\ pc = "resolve"
    /\ \E settled \in SUBSET unresolved :
         /\ unresolved' = unresolved \ settled
         /\ attempts' = attempts \union {<<obs, op.key>> : op \in settled}
         /\ IF unresolved' # {} THEN Suspend("awaiting_result") ELSE Proceed("observe")
    /\ UNCHANGED <<world, taskVars, step, obsVars, guardVars, calls, checkVars, frameVars, candVars>>

(* Mutant: a new revision leaves the exclusions of the old one in place. *)
MutantObserved(rev) == obs' = rev /\ stale' = FALSE /\ UNCHANGED dead

(* The OBSERVED branch of the reducer. *)
Observed(rev) ==
    /\ obs' = rev /\ stale' = FALSE
    /\ dead' = IF rev = obs THEN dead ELSE {}

ObservationFailed == stale' = TRUE /\ UNCHANGED <<obs, dead>>

(* Mutant: the step goes on with the old observation when the read fails. *)
MutantObserve ==
    /\ pc = "observe"
    /\ step' = step + 1
    /\ Observed(world) \/ ObservationFailed
    /\ Proceed("offer")
    /\ UNCHANGED <<world, taskVars, escalations, opVars, checkVars, frameVars, candVars>>

Observe ==
    /\ pc = "observe"
    /\ step' = step + 1
    /\ \/ Observed(world) /\ Proceed("offer")
       \/ ObservationFailed /\ Suspend("awaiting_evidence")
    /\ UNCHANGED <<world, taskVars, escalations, opVars, checkVars, frameVars, candVars>>

(* build_frame(): an action already without effect here, or not yet settled, is not offered. *)
Offered(candidates) == (candidates \ {op.key : op \in unresolved}) \ dead

FrameOf(candidates) ==
    [rev |-> obs, task |-> task, cands |-> Offered(candidates), dead |-> dead]

(* FRAME_BUILT, and assess_frame() before a decision is paid for. *)
FrameBuilt(f) ==
    /\ frame' = f
    /\ visits' = [visits EXCEPT ![f] = @ + 1]
    /\ IF visits[f] + 1 >= MaxFrameVisits
       THEN escalations' = escalations + 1 /\ Suspend("awaiting_evidence")
       ELSE UNCHANGED escalations /\ Proceed("decide")

FrameOverBudget == Finish("failed", "budget_exhausted") /\ UNCHANGED <<frameVars, escalations>>

(* environment.offer() and build_frame(), which the option count or the    *)
(* size of the frame may stop.                                             *)
BuildFrame ==
    /\ pc = "offer"
    /\ \E candidates \in Offers :
         LET f == FrameOf(candidates) IN
         \/ FrameOverBudget
         \/ /\ Cardinality(f.cands) + Cardinality(Controls) <= MaxOptions
            /\ FrameBuilt(f)
    /\ UNCHANGED <<world, taskVars, step, obsVars, dead, opVars, checkVars, candVars>>
-----------------------------------------------------------------------------
(* policy.decide(): it may fail, or answer with anything at all. *)
PolicyFails ==
    /\ pc = "decide"
    /\ Finish("failed", "policy_error")
    /\ UNCHANGED <<world, taskVars, step, obsVars, guardVars, opVars, checkVars, frameVars, candVars>>

(* A decision for another frame, a malformed one, or a control that was not offered. *)
DecisionRejected ==
    /\ pc = "decide"
    /\ Continue
    /\ UNCHANGED <<world, taskVars, step, obsVars, guardVars, opVars, checkVars, frameVars, candVars>>

ChooseControl ==
    /\ pc = "decide"
    /\ \E control \in Controls :
         \/ control = "refresh" /\ Continue
         \/ control = "wait" /\ Suspend("awaiting_result")
         \/ control = "blocked" /\ Suspend("blocked")
         \/ control = "request_finish" /\ Proceed("verify")
    /\ UNCHANGED <<world, taskVars, step, obsVars, guardVars, opVars, checkVars, frameVars, candVars>>

(* A candidate id is looked up in the frame it was given with, nowhere else. *)
ChooseCandidate ==
    /\ pc = "decide"
    /\ \E key \in Key :
         /\ cand' = key
         /\ IF key \in frame.cands THEN Proceed("validate") ELSE Continue
    /\ UNCHANGED <<world, taskVars, step, obsVars, guardVars, opVars, checkVars, frameVars, receipt>>

(* _validate_candidate(): the runtime's own refusals, then those of the    *)
(* environment and of authorization, which may refuse anything.            *)
Refused == cand \in dead \/ cand \in {op.key : op \in unresolved} \/ stale

CandidateRejected ==
    /\ pc = "validate"
    /\ Continue
    /\ UNCHANGED <<world, taskVars, step, obsVars, guardVars, opVars, checkVars, frameVars, candVars>>

(* _guard_failure() *)
GuardFailure(r) ==
    IF escalations' >= MaxEscalations THEN Finish("failed", r) ELSE Continue

(* assess_attempts(): the same action was already attempted on this observation. *)
RepeatBlocked ==
    /\ pc = "validate"
    /\ ~Refused
    /\ <<frame.rev, cand>> \in attempts
    /\ dead' = dead \union {cand} /\ escalations' = escalations + 1
    /\ GuardFailure("cycle_detected")
    /\ UNCHANGED <<world, taskVars, step, obsVars, opVars, checkVars, frameVars, candVars>>

(* Mutant: the attempts of earlier steps are not consulted. *)
MutantRecordIntent ==
    /\ pc = "validate"
    /\ ~Refused
    /\ Proceed("execute")
    /\ UNCHANGED <<world, taskVars, step, obsVars, guardVars, opVars, checkVars, frameVars, candVars>>

(* EXECUTION_INTENT, recorded before the world is touched. *)
RecordIntent ==
    /\ pc = "validate"
    /\ ~Refused
    /\ <<frame.rev, cand>> \notin attempts
    /\ Proceed("execute")
    /\ UNCHANGED <<world, taskVars, step, obsVars, guardVars, opVars, checkVars, frameVars, candVars>>
-----------------------------------------------------------------------------
NeedsPostObservation == PostObserve /\ cand \in Mutating /\ unresolved' = {}

(* environment.execute() and its receipt.  An executor that raises has an  *)
(* unknown outcome; only a rejected operation is known to have done        *)
(* nothing.                                                                *)
Execute ==
    /\ pc = "execute"
    /\ \E r \in Receipt, after \in Rev :
         /\ after = world \/ (cand \in Mutating /\ r # "rejected")
         /\ world' = after
         /\ receipt' = r
         /\ calls' = [calls EXCEPT ![<<obs, cand>>] = @ + 1]
         /\ attempts' = attempts \union {<<obs, cand>>}
         /\ unresolved' = IF r \in Unresolved
                          THEN unresolved \union {[key |-> cand, step |-> step]} ELSE unresolved
         /\ IF NeedsPostObservation THEN Proceed("post_observe") ELSE Continue
    /\ UNCHANGED <<taskVars, step, obsVars, guardVars, checkVars, frameVars, cand>>

(* assess_effect(): a completed write whose observation is not seen to change. *)
NoProgress(changed) == receipt = "completed" /\ ~changed

(* The observation after a write; one that fails counts as no change. *)
PostObservation ==
    /\ pc = "post_observe"
    /\ \E readable \in BOOLEAN :
         LET changed == readable /\ world # obs
             kept == IF changed THEN {} ELSE dead
         IN
         /\ IF readable THEN obs' = world /\ stale' = FALSE ELSE stale' = TRUE /\ UNCHANGED obs
         /\ IF NoProgress(changed)
            THEN /\ dead' = kept \union {cand}
                 /\ escalations' = escalations + 1
                 /\ GuardFailure("no_progress")
            ELSE dead' = kept /\ UNCHANGED escalations /\ Continue
    /\ UNCHANGED <<world, taskVars, step, opVars, checkVars, frameVars, candVars>>

(* _verify(): only a satisfied verdict ends the run in success. *)
Verify ==
    /\ pc = "verify"
    /\ \E v \in Verdict :
         /\ v = "unknown" \/ HasVerifier
         /\ verdict' = v /\ verified' = verified + 1
         /\ CASE v = "satisfied" -> Finish("succeeded", "none")
              [] v = "unknown" -> Suspend("awaiting_evidence")
              [] OTHER -> IF verified' >= MaxVerifications
                          THEN Finish("failed", "verification_exhausted") ELSE Continue
    /\ UNCHANGED <<world, taskVars, step, obsVars, guardVars, opVars, frameVars, candVars>>

(* A call that raises something step() does not catch. *)
Raise ==
    /\ pc \in MayRaise
    /\ pc' = "raised"
    /\ UNCHANGED <<world, taskVars, runVars, step, obsVars, guardVars, opVars, checkVars, frameVars, candVars>>
-----------------------------------------------------------------------------
(* The host, between steps only: LoopController never calls in during one. *)
HostMayCall == pc \in {"idle", "raised"} /\ status \notin Terminal

(* resume(), with the task update it may carry.  A caller that enters run() *)
(* again after an exception left it does the same without a new task.      *)
Resume ==
    /\ HostMayCall /\ wakes < MaxWakes
    /\ wakes' = wakes + 1 /\ task' \in Task
    /\ Finish("running", "none")
    /\ UNCHANGED <<world, step, obsVars, guardVars, opVars, checkVars, frameVars, candVars>>

(* cancel() *)
Cancel ==
    /\ HostMayCall
    /\ Finish("cancelled", "cancelled")
    /\ UNCHANGED <<world, taskVars, step, obsVars, guardVars, opVars, checkVars, frameVars, candVars>>

(* The world moves by itself, whatever the kernel is doing. *)
WorldMoves ==
    /\ world' \in Rev
    /\ UNCHANGED <<pc, taskVars, runVars, step, obsVars, guardVars, opVars, checkVars, frameVars, candVars>>

KernelStep ==
    \/ BeginStep \/ ResolveOperations \/ Observe \/ BuildFrame
    \/ PolicyFails \/ DecisionRejected \/ ChooseControl \/ ChooseCandidate
    \/ CandidateRejected \/ RepeatBlocked \/ RecordIntent
    \/ Execute \/ PostObservation \/ Verify \/ Raise

Host == Resume \/ Cancel
Next == KernelStep \/ Host \/ WorldMoves

Spec == Init /\ [][Next]_vars

(* run() calls step() for as long as the status is running, and the outside *)
(* calls return: the kernel itself never waits.                             *)
FairSpec == Spec /\ WF_vars(KernelStep)
-----------------------------------------------------------------------------
TypeOK ==
    /\ world \in Rev
    /\ pc \in Stage /\ wakes \in Nat
    /\ status \in Status
    /\ step \in Nat /\ task \in Task
    /\ obs \in Rev \union {NoRev} /\ stale \in BOOLEAN
    /\ unresolved \in SUBSET Operation
    /\ dead \in SUBSET Key /\ attempts \in SUBSET ((Rev \union {NoRev}) \X Key)
    /\ calls \in [Rev \X Key -> Nat]
    /\ visits \in [Frame -> Nat] /\ escalations \in Nat
    /\ verified \in Nat /\ verdict \in Verdict \union {"none"}
    /\ frame \in Frame /\ cand \in Key /\ receipt \in Receipt \union {"none"}

(* One execution per action and observation, over the whole run: however    *)
(* often the world comes back to a revision, and whatever became of the     *)
(* first attempt, execute() is not called again for that key on it.         *)
ExecutedOncePerObservation == \A rk \in Rev \X Key : calls[rk] <= 1

(* An excluded action was tried on the observation it is excluded on:       *)
(* exclusions never outlive their observation, so a change of the world     *)
(* gives every action back (escape 1 of the guards).                        *)
ExclusionsAreEarned == \A key \in dead : <<obs, key>> \in attempts

(* Success is only ever claimed on a satisfied verdict, reached on a        *)
(* successful observation and with no operation of unknown outcome.         *)
SuccessIsVerified ==
    status = "succeeded" =>
        verdict = "satisfied" /\ unresolved = {} /\ ~stale /\ obs # NoRev

(* The inductive invariant: what each stage of step() may rely on.  From    *)
(* "observe" on no operation is unresolved; from "offer" on the observation *)
(* is fresh; from "decide" on the frame is of this observation; and every   *)
(* execution, settled or not, has left its attempt.                         *)
Deciding == {"decide", "validate", "execute", "post_observe", "verify"}
Observing == Deciding \union {"offer"}

StagesOfARunningRun == pc \in Stage \ {"idle", "raised"} => status = "running"
NothingUnresolvedPastResolve == pc \in Observing \union {"observe"} => unresolved = {}
FreshObservation == pc \in Observing => obs \in Rev /\ ~stale
FrameOfThisObservation == pc \in Deciding => frame.rev = obs
OneUnresolved == \A op1, op2 \in unresolved : op1 = op2
CallsAreAttempts == \A rk \in Rev \X Key : calls[rk] # 0 => rk \in attempts
UnresolvedAreAttempts == \A op \in unresolved : obs \in Rev /\ <<obs, op.key>> \in attempts
NewBeforeExecution == pc = "execute" => <<obs, cand>> \notin attempts
AttemptAfterExecution == pc = "post_observe" => <<obs, cand>> \in attempts

KernelInv ==
    /\ TypeOK
    /\ StagesOfARunningRun /\ NothingUnresolvedPastResolve /\ FreshObservation
    /\ FrameOfThisObservation /\ OneUnresolved /\ CallsAreAttempts
    /\ UnresolvedAreAttempts /\ NewBeforeExecution /\ AttemptAfterExecution
    /\ ExecutedOncePerObservation /\ ExclusionsAreEarned /\ SuccessIsVerified

(* What the operations of the run look like from outside: OperationLedger.  *)
Ledger == INSTANCE OperationLedger WITH
              issued <- calls,
              open <- {<<obs, op.key>> : op \in unresolved},
              closed <- status \in Terminal

(* The kernel keeps the operation ledger: no operation is issued while the  *)
(* outcome of another is unknown or after the run ended, none twice on one  *)
(* observation, and an unknown outcome is left only by settling it.         *)
LedgerSpec == Ledger!LedgerSpec

(* run() always comes back, without any step limit or clock: a decision is  *)
(* never repeated often enough to spin (docs/design.md: every step either   *)
(* changes the frame or stops).                                             *)
Returned == pc = "raised" \/ (pc = "idle" /\ status # "running")
EveryRunReturns == []<>Returned
=============================================================================
