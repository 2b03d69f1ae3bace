---------------------------- MODULE ManagedRun ----------------------------
(***************************************************************************)
(* The life of one managed run, from the moment its worker process exists: *)
(* run_worker() of src/src/jev_loop/host/service.py, with its coordinator  *)
(* on the main thread, the controller on the engine thread and signal      *)
(* handlers in between; the clients that stop the run or reconcile it when *)
(* its worker is gone (inspect_run); and the operator who clears its       *)
(* resource claims (confirm_resources_released).                           *)
(*                                                                         *)
(* They share the journal, whose reduced state is run, and status.json,    *)
(* which is what clients read: shown.  emit() is atomic here (module       *)
(* Journal opens it up); a recorder's own copy of the state is as old as   *)
(* its last emit.  The clocks are abstract: a lease, a grace period or the *)
(* maximum runtime has elapsed or not.                                     *)
(***************************************************************************)
CONSTANTS
    Inspector,       \* client calls that may reconcile the run, at once
    EngineReports,   \* the values of ControllerResult.resources_released
    MayKill,         \* whether the worker process may be killed between two steps
    MayKillEmit      \* ... or between an event's append and its projection

ASSUME FlagAssumption ==
    EngineReports \subseteq BOOLEAN /\ MayKill \in BOOLEAN /\ MayKillEmit \in BOOLEAN

Finished == {"succeeded", "failed", "cancelled", "expired"}
Active == {"starting", "running", "stopping"}
Status == Finished \union Active

VARIABLES
    run,         \* the journal, reduced: [status, released]
    shown,       \* status.json
    seen,        \* recorder.state of the worker
    worker,      \* the worker process: "alive" or "dead"
    pc,          \* where its main thread is
    engine,      \* the engine thread: "off", "running", "returned", or "denied",
                 \* returned with resources_released = False
    result,      \* result_queue: the status it holds, or "none"
    requested,   \* requested_result: its status, or "none"
    confirmed,   \* release_confirmed is set
    final,       \* the status the run is about to finish with
    stopSent,    \* a stop command is in the inbox
    overdue,     \* max_runtime_seconds have elapsed
    graceOver,   \* stop_grace_seconds have elapsed since the stop request
    late,        \* the startup grace of inspect_run() has elapsed
    slow,        \* history: ... before a living worker had recorded WORKER_STARTED
    holding,     \* what external input the controller holds: "nothing", an "input", or
                 \* a "stray", taken after request_stop() had released the others
    quiet,       \* controller.request_stop() has succeeded
    claim,       \* the resource claim: "held", "free", "other" run's, or "none" to have
    inspecting,  \* per inspector: where it is
    endedBy      \* history: who recorded RUN_FINISHED

journal == <<run, shown, endedBy>>
process == <<worker, pc>>
stopping == <<requested, confirmed>>
outcome == <<result, final>>
clocks == <<overdue, graceOver, late, slow>>
device == <<holding, quiet>>
clients == <<inspecting, stopSent>>
vars == <<journal, seen, process, engine, outcome, stopping, clocks, device, claim, clients>>

Stage == {"open", "boot", "load", "commands", "deadlines", "snapshot", "result",
          "grace", "release", "finish", "load_failed", "finally", "unclaim", "exited",
          "blocked"}

RunOver(state) == state.status \in Finished

(* One event: appended, reduced and projected.  The writer's copy follows. *)
Write(state) == run' = state /\ shown' = state
WorkerWrites(state) == Write(state) /\ seen' = state

Released(state) == [state EXCEPT !.released = TRUE]
Stopping(state) == IF RunOver(state) THEN state ELSE [state EXCEPT !.status = "stopping"]
FinishedAs(state, status) == [state EXCEPT !.status = status]

(* _release_resource_claims() leaves another run's claim alone. *)
Unclaim == claim' = IF claim = "held" THEN "free" ELSE claim
-----------------------------------------------------------------------------
(* start_run() has claimed the resources, written RUN_CREATED and spawned   *)
(* the worker.  A run that claims nothing counts as released from then on.  *)
Init ==
    /\ claim \in {"held", "none"}
    /\ run = [status |-> "starting", released |-> claim = "none"] /\ shown = run /\ seen = run
    /\ worker = "alive" /\ pc = "open"
    /\ engine = "off" /\ result = "none" /\ final = "none"
    /\ requested = "none" /\ confirmed = FALSE
    /\ overdue = FALSE /\ graceOver = FALSE /\ late = FALSE /\ slow = FALSE
    /\ holding = "nothing" /\ quiet = FALSE
    /\ endedBy = "nobody"
    /\ inspecting = [i \in Inspector |-> "idle"]
    /\ stopSent = FALSE

Exit == pc' = "exited" /\ worker' = "dead"
GoTo(stage) == pc' = stage /\ UNCHANGED worker

(* The main thread calls the controller itself, without a timeout: a call   *)
(* that never returns is its last step.                                     *)
Block == GoTo("blocked")

(* A run that is not starting is never replayed or reactivated. *)
OpenRun ==
    /\ pc = "open"
    /\ seen' = run
    /\ IF run.status = "starting" THEN GoTo("boot") ELSE Exit
    /\ UNCHANGED <<journal, engine, outcome, stopping, clocks, device, claim, clients>>

(* WORKER_STARTED, which the reducer takes only from "starting". *)
StartWorker ==
    /\ pc = "boot"
    /\ IF run.status = "starting"
       THEN WorkerWrites([run EXCEPT !.status = "running"]) /\ GoTo("load")
       ELSE UNCHANGED <<run, shown, seen>> /\ Exit
    /\ UNCHANGED <<endedBy, engine, outcome, stopping, clocks, device, claim, clients>>

(* load_controller(), then the engine thread. *)
LoadController ==
    /\ pc = "load"
    /\ \/ GoTo("commands") /\ engine' = "running" /\ UNCHANGED <<run, shown, seen>>
       \/ Block /\ UNCHANGED <<run, shown, seen, engine>>
       \/ GoTo("load_failed") /\ WorkerWrites(Released(run)) /\ UNCHANGED engine
    /\ UNCHANGED <<endedBy, outcome, stopping, clocks, device, claim, clients>>

LoadFailed ==
    /\ pc = "load_failed"
    /\ Exit
    /\ IF RunOver(run) THEN UNCHANGED <<journal, seen, claim>>
       ELSE WorkerWrites(FinishedAs(run, "failed")) /\ endedBy' = "worker" /\ Unclaim
    /\ UNCHANGED <<engine, outcome, stopping, clocks, device, clients>>
-----------------------------------------------------------------------------
Quietly == UNCHANGED <<run, shown, seen, stopping, device>>

(* An event that changes neither status nor release still brings the writer *)
(* up to date and replaces status.json.                                     *)
Refresh == WorkerWrites(run) /\ UNCHANGED <<stopping, device>>

(* request_stop() returns. *)
Hush == holding' = "nothing" /\ quiet' = TRUE

(* Mutant: the release counts as confirmed whether or not it raised. *)
MutantAskToStop(status, next) ==
    IF requested # "none" \/ RunOver(seen) THEN Quietly /\ GoTo(next)
    ELSE /\ WorkerWrites(Stopping(run))
         /\ requested' = status /\ confirmed' = (engine # "off") /\ GoTo(next)
         /\ Hush \/ UNCHANGED device

(* ask_to_stop(): the first request wins, and none is taken once the worker *)
(* knows the run is over.  request_stop() releases, raises or never returns.*)
AskToStop(status, next) ==
    IF requested # "none" \/ RunOver(seen)
    THEN Quietly /\ GoTo(next)
    ELSE /\ WorkerWrites(Stopping(run))
         /\ \/ /\ engine # "off"
               /\ requested' = status /\ confirmed' = TRUE /\ Hush
               /\ GoTo(next)
            \/ /\ engine # "off"
               /\ requested' = "failed" /\ UNCHANGED <<confirmed, device>>
               /\ GoTo(next)
            \/ /\ engine # "off"
               /\ requested' = status /\ UNCHANGED <<confirmed, device>>
               /\ Block
            \/ /\ engine = "off"
               /\ requested' = status /\ UNCHANGED <<confirmed, device>>
               /\ GoTo(next)

(* _process_commands(): a stop is the only command that touches the life    *)
(* cycle, the others at most emit, and may so tell the worker, before it    *)
(* reads the stop, that the run is over.  An exception it does not list,    *)
(* raised before or after the stop is read, ends the loop; an update that   *)
(* never returns blocks it.                                                 *)
ProcessCommands ==
    /\ pc = "commands"
    /\ \/ /\ \E next \in {"deadlines", "finally"} :
                IF stopSent
                THEN AskToStop("cancelled", next) \/ (RunOver(run) /\ Refresh /\ GoTo(next))
                ELSE (Quietly \/ Refresh) /\ GoTo(next)
          /\ stopSent' = FALSE
       \/ GoTo("finally") /\ Quietly /\ UNCHANGED stopSent
       \/ Block /\ (Quietly \/ Refresh) /\ UNCHANGED stopSent
    /\ UNCHANGED <<endedBy, engine, outcome, clocks, claim, inspecting>>

(* The lease, which may or may not have been renewed, and the maximum      *)
(* runtime.                                                                *)
CheckDeadlines ==
    /\ pc = "deadlines"
    /\ \/ AskToStop("expired", "snapshot")
       \/ overdue /\ AskToStop("failed", "snapshot")
       \/ ~overdue /\ Quietly /\ GoTo("snapshot")
    /\ UNCHANGED <<endedBy, engine, outcome, clocks, claim, clients>>

(* CONTROLLER_SNAPSHOT when it changed; one that fails is recorded as an    *)
(* ERROR, which tells the worker whether the run is over, and is a stop.    *)
TakeSnapshot ==
    /\ pc = "snapshot"
    /\ \/ (Quietly \/ Refresh) /\ GoTo("result")
       \/ ~RunOver(run) /\ AskToStop("failed", "result")
       \/ Quietly /\ Block
    /\ UNCHANGED <<endedBy, engine, outcome, clocks, claim, clients>>

(* The engine has answered: a stop request decides how the run ends; output *)
(* of the engine that is not JSON is a failure.                             *)
TakeResult ==
    /\ pc = "result"
    /\ IF result = "none" THEN GoTo("grace") /\ UNCHANGED final
       ELSE /\ GoTo("release")
            /\ final' \in IF requested # "none" THEN {requested} ELSE {result, "failed"}
    /\ UNCHANGED <<journal, seen, engine, result, stopping, clocks, device, claim, clients>>

(* Mutant: a stop waits for the engine. *)
MutantCheckGrace ==
    /\ pc = "grace"
    /\ GoTo("commands")
    /\ UNCHANGED <<journal, seen, engine, outcome, stopping, clocks, device, claim, clients>>

(* A stop request whose grace has elapsed does not wait for the engine. *)
CheckGrace ==
    /\ pc = "grace"
    /\ IF graceOver THEN GoTo("release") /\ final' = requested
       ELSE GoTo("commands") /\ UNCHANGED final
    /\ UNCHANGED <<journal, seen, engine, result, stopping, clocks, device, claim, clients>>

(* A confirmation, once it is there, is recorded once. *)
RecordConfirmed(known) ==
    IF known /\ ~seen.released THEN WorkerWrites(Released(run))
    ELSE UNCHANGED <<run, shown, seen>>

(* RESOURCES_RELEASED when a release was confirmed, and a last snapshot,    *)
(* which may block between the two.                                         *)
RecordRelease ==
    /\ pc = "release"
    /\ \/ /\ WorkerWrites(IF confirmed /\ ~seen.released THEN Released(run) ELSE run)
          /\ GoTo("finish")
       \/ RecordConfirmed(confirmed) /\ Block
    /\ UNCHANGED <<endedBy, engine, outcome, stopping, clocks, device, claim, clients>>

(* RUN_FINISHED, refused when the run is over. *)
FinishRun ==
    /\ pc = "finish"
    /\ IF RunOver(run) THEN seen' = run /\ UNCHANGED journal
       ELSE WorkerWrites(FinishedAs(run, final)) /\ endedBy' = "worker"
    /\ GoTo("finally")
    /\ UNCHANGED <<engine, outcome, stopping, clocks, device, claim, clients>>

(* finally: a loop that ended by an exception still asks the controller to  *)
(* release (an ERROR is recorded when it fails), and what was confirmed is  *)
(* recorded.                                                                *)
CleanUp ==
    /\ pc = "finally"
    /\ \/ RunOver(seen) /\ UNCHANGED <<confirmed, device>> /\ RecordConfirmed(confirmed) /\ GoTo("unclaim")
       \/ ~RunOver(seen) /\ confirmed' = TRUE /\ Hush /\ RecordConfirmed(TRUE) /\ GoTo("unclaim")
       \/ /\ ~RunOver(seen) /\ UNCHANGED <<confirmed, device>>
          /\ WorkerWrites(IF confirmed THEN Released(run) ELSE run)
          /\ GoTo("unclaim")
       \/ /\ ~RunOver(seen) /\ UNCHANGED <<run, shown, seen, confirmed, device>>
          /\ Block
    /\ UNCHANGED <<endedBy, engine, outcome, requested, clocks, claim, clients>>

(* Mutant: the claims end with the worker. *)
MutantReleaseClaims ==
    /\ pc = "unclaim"
    /\ Unclaim
    /\ Exit
    /\ UNCHANGED <<journal, seen, engine, outcome, stopping, clocks, device, clients>>

ReleaseClaims ==
    /\ pc = "unclaim"
    /\ IF seen.released THEN Unclaim ELSE UNCHANGED claim
    /\ Exit
    /\ UNCHANGED <<journal, seen, engine, outcome, stopping, clocks, device, clients>>
-----------------------------------------------------------------------------
(* A signal handler runs on the main thread once it is installed, also      *)
(* while that thread waits for the controller.                              *)
Signal ==
    /\ worker = "alive" /\ pc \notin {"open", "boot"}
    /\ requested = "none"
    /\ AskToStop("cancelled", pc)
    /\ UNCHANGED <<endedBy, engine, outcome, clocks, claim, clients>>

(* The engine takes an external input while it runs; a step that was under  *)
(* way when the stop was requested may still do so.                         *)
EngineActs ==
    /\ worker = "alive" /\ engine = "running" /\ holding = "nothing"
    /\ holding' = IF quiet THEN "stray" ELSE "input"
    /\ UNCHANGED <<journal, seen, process, engine, outcome, stopping, clocks, quiet, claim, clients>>

(* controller.run() returns.  A report that all is released is the truth    *)
(* (the contract of ControllerResult).                                      *)
EngineReturns ==
    /\ worker = "alive" /\ engine = "running"
    /\ result' \in Finished
    /\ \/ /\ TRUE \in EngineReports
          /\ engine' = "returned" /\ confirmed' = TRUE /\ holding' = "nothing"
       \/ /\ FALSE \in EngineReports
          /\ engine' = "denied" /\ UNCHANGED confirmed /\ holding' \in {holding, "nothing"}
    /\ UNCHANGED <<journal, seen, process, final, requested, clocks, quiet, claim, clients>>

(* controller.run() raises: the engine thread asks for a release, which may *)
(* raise as well, records the error and reports a failure.                  *)
EngineRaises ==
    /\ worker = "alive" /\ engine = "running"
    /\ engine' = "returned" /\ result' = "failed"
    /\ (confirmed' = TRUE /\ Hush) \/ UNCHANGED <<confirmed, device>>
    /\ WorkerWrites(run)
    /\ UNCHANGED <<endedBy, process, final, requested, clocks, claim, clients>>
-----------------------------------------------------------------------------
(* What clients do.  The worker's pid is in the status from WORKER_STARTED. *)
(* Mutant: a run that is stopping is not active. *)
MutantShownActive == shown.status \in {"starting", "running"}

ShownActive == shown.status \in Active
ShownAlive == shown.status # "starting" /\ worker = "alive"

(* send_command("stop") *)
SendStop ==
    /\ ShownActive /\ ShownAlive /\ ~stopSent
    /\ stopSent' = TRUE
    /\ UNCHANGED <<journal, seen, process, engine, outcome, stopping, clocks, device, claim,
                   inspecting>>

InspectorGoesTo(i, stage) == inspecting' = [inspecting EXCEPT ![i] = stage]
InspectorAlone == UNCHANGED <<seen, process, engine, outcome, stopping, clocks, device, stopSent>>

(* Mutant: a starting worker is given no grace. *)
MutantInspectorSuspects(i) ==
    /\ inspecting[i] = "idle"
    /\ ShownActive /\ ~ShownAlive
    /\ InspectorGoesTo(i, "open")
    /\ UNCHANGED <<journal, claim>> /\ InspectorAlone

(* inspect_run() finds an active run whose worker is not alive. *)
InspectorSuspects(i) ==
    /\ inspecting[i] = "idle"
    /\ ShownActive /\ ~ShownAlive
    /\ shown.status = "starting" => late
    /\ InspectorGoesTo(i, "open")
    /\ UNCHANGED <<journal, claim>> /\ InspectorAlone

InspectorOpens(i) ==
    /\ inspecting[i] = "open"
    /\ InspectorGoesTo(i, IF RunOver(run) THEN "reload" ELSE "error")
    /\ UNCHANGED <<journal, claim>> /\ InspectorAlone

(* ERROR, which brings its recorder up to date. *)
InspectorRecordsError(i) ==
    /\ inspecting[i] = "error"
    /\ Write(run)
    /\ InspectorGoesTo(i, IF RunOver(run) THEN "reload" ELSE "finish")
    /\ UNCHANGED <<endedBy, claim>> /\ InspectorAlone

(* Mutant: the reducer takes a second RUN_FINISHED. *)
MutantInspectorFinishesRun(i) ==
    /\ inspecting[i] = "finish"
    /\ Write(FinishedAs(run, "failed")) /\ endedBy' = "host"
    /\ InspectorGoesTo(i, "reload")
    /\ UNCHANGED claim /\ InspectorAlone

(* RUN_FINISHED; the reducer raises if the run is over by now. *)
InspectorFinishesRun(i) ==
    /\ inspecting[i] = "finish"
    /\ IF RunOver(run) THEN InspectorGoesTo(i, "idle") /\ UNCHANGED journal
       ELSE /\ Write(FinishedAs(run, "failed")) /\ endedBy' = "host"
            /\ InspectorGoesTo(i, "reload")
    /\ UNCHANGED claim /\ InspectorAlone

InspectorReloads(i) ==
    /\ inspecting[i] = "reload"
    /\ IF shown.released THEN Unclaim ELSE UNCHANGED claim
    /\ InspectorGoesTo(i, "idle")
    /\ UNCHANGED journal /\ InspectorAlone

(* confirm_resources_released(), by an operator who has seen that the       *)
(* worker is gone and that nothing is held.                                 *)
ConfirmReleased ==
    /\ worker = "dead" /\ holding = "nothing"
    /\ ~ShownActive
    /\ IF run.released THEN UNCHANGED <<run, shown>> ELSE Write(Released(run))
    /\ Unclaim
    /\ UNCHANGED <<endedBy, inspecting>> /\ InspectorAlone

(* _acquire_resource_claims() of another run: a claim whose run shows its   *)
(* resources released is taken over.                                        *)
OtherRunClaims ==
    /\ claim = "free" \/ (claim = "held" /\ shown.released)
    /\ claim' = "other"
    /\ UNCHANGED <<journal, inspecting>> /\ InspectorAlone
-----------------------------------------------------------------------------
RuntimeElapses ==
    /\ ~overdue /\ overdue' = TRUE
    /\ UNCHANGED <<journal, seen, process, engine, outcome, stopping, graceOver, late, slow,
                   device, claim, clients>>

GraceElapses ==
    /\ requested # "none" /\ ~graceOver /\ graceOver' = TRUE
    /\ UNCHANGED <<journal, seen, process, engine, outcome, stopping, overdue, late, slow,
                   device, claim, clients>>

(* Thirty seconds since RUN_CREATED: a worker that is still starting then   *)
(* is a slow one, unless it died.                                           *)
StartupGraceElapses ==
    /\ ~late /\ late' = TRUE
    /\ slow' = (worker = "alive" /\ pc \in {"open", "boot"})
    /\ UNCHANGED <<journal, seen, process, engine, outcome, stopping, overdue, graceOver, device, claim, clients>>

(* SIGKILL, or a crash: what the controller holds stays held. *)
Die ==
    /\ worker = "alive" /\ worker' = "dead"
    /\ UNCHANGED <<pc, seen, engine, outcome, stopping, clocks, device, claim, clients>>

Kill == MayKill /\ Die /\ UNCHANGED journal

(* RUN_FINISHED is in the journal and status.json has not been replaced. *)
KillFinishing ==
    /\ MayKillEmit /\ Die
    /\ pc = "finish" /\ ~RunOver(run)
    /\ run' = FinishedAs(run, final) /\ endedBy' = "worker"
    /\ UNCHANGED shown

Coordinate ==
    /\ worker = "alive"
    /\ \/ OpenRun \/ StartWorker \/ LoadController \/ LoadFailed
       \/ ProcessCommands \/ CheckDeadlines \/ TakeSnapshot \/ TakeResult \/ CheckGrace
       \/ RecordRelease \/ FinishRun \/ CleanUp \/ ReleaseClaims

Inspect(i) ==
    \/ InspectorSuspects(i) \/ InspectorOpens(i) \/ InspectorRecordsError(i)
    \/ InspectorFinishesRun(i) \/ InspectorReloads(i)

Elapse == RuntimeElapses \/ GraceElapses \/ StartupGraceElapses

Next ==
    \/ Coordinate \/ Signal
    \/ EngineActs \/ EngineReturns \/ EngineRaises
    \/ SendStop \/ (\E i \in Inspector : Inspect(i)) \/ ConfirmReleased \/ OtherRunClaims
    \/ Elapse \/ Kill \/ KillFinishing

Spec == Init /\ [][Next]_vars

(* The main thread is scheduled, time passes, and clients keep inspecting   *)
(* the run.  Nothing is assumed of the controller: its run() may go on for  *)
(* ever, and each of its calls on the main thread may be the one that does  *)
(* not return (Block).                                                      *)
FairSpec ==
    /\ Spec
    /\ WF_vars(Coordinate)
    /\ WF_vars(RuntimeElapses) /\ WF_vars(GraceElapses) /\ WF_vars(StartupGraceElapses)
    /\ \A i \in Inspector : WF_vars(Inspect(i))
-----------------------------------------------------------------------------
RunState == [status : Status, released : BOOLEAN]

TypeOK ==
    /\ run \in RunState /\ shown \in RunState /\ seen \in RunState
    /\ worker \in {"alive", "dead"} /\ pc \in Stage
    /\ engine \in {"off", "running", "returned", "denied"}
    /\ result \in Finished \union {"none"} /\ final \in Finished \union {"none"}
    /\ requested \in Finished \union {"none"} /\ confirmed \in BOOLEAN
    /\ overdue \in BOOLEAN /\ graceOver \in BOOLEAN /\ late \in BOOLEAN
    /\ slow \in BOOLEAN /\ holding \in {"nothing", "input", "stray"} /\ quiet \in BOOLEAN
    /\ claim \in {"held", "free", "other", "none"} /\ stopSent \in BOOLEAN
    /\ inspecting \in [Inspector -> {"idle", "open", "error", "finish", "reload"}]
    /\ endedBy \in {"nobody", "worker", "host"}

(* The claim leaves a run only after its release is in the journal: a       *)
(* worker that disappears without one leaves the claim quarantined          *)
(* (docs/pi-integration.md, "Crash isolation").                             *)
ClaimsQuarantined == claim # "held" => run.released

(* Of a run that claims something, whatever the journal calls released is   *)
(* not held any more, so that the next run finds the device free ("what     *)
(* proves the host received the controller's synchronous release            *)
(* confirmation").  What it may still hold is a stray: taken by a step that *)
(* request_stop() overtook.                                                 *)
ReleasedMeansReleased == run.released /\ claim # "none" => holding # "input"

(* The inductive invariant.  First what the stages and the copies of the    *)
(* state may rely on: whoever saw a release saw one that is in the journal, *)
(* the engine is off until the controller is loaded, and a run about to be  *)
(* finished has a status to finish with.                                    *)
Loading == {"open", "boot", "load", "load_failed"}

CopiesLagBehind ==
    /\ seen.released => run.released
    /\ shown.released => run.released
EngineOffWhileLoading == pc \in Loading => engine = "off"
FailedLoadIsReleased == pc = "load_failed" => run.released
FinalIsKnown == pc \in {"release", "finish"} => final \in Finished
GraceFollowsRequest == graceOver => requested # "none"

LifeCycleInv ==
    /\ TypeOK
    /\ CopiesLagBehind /\ EngineOffWhileLoading /\ FailedLoadIsReleased
    /\ FinalIsKnown /\ GraceFollowsRequest /\ ClaimsQuarantined

(* Then what a confirmation means: no input is held, and none will be taken *)
(* any more, because the controller was told, or its run() is over or never *)
(* began, or its process is gone.                                           *)
Settled ==
    /\ holding # "input"
    /\ \/ quiet \/ worker = "dead" \/ engine \in {"returned", "denied"}
       \/ engine = "off" /\ pc \notin {"open", "boot", "load"}

ConfirmedIsSettled == confirmed => Settled
ReleasedIsSettled == run.released /\ claim # "none" => Settled
QuietHoldsNoInput == quiet => holding # "input"
OffHoldsNothing == engine = "off" => holding = "nothing"

ReleaseInv ==
    ConfirmedIsSettled /\ ReleasedIsSettled /\ QuietHoldsNoInput /\ OffHoldsNothing

RunInv == LifeCycleInv /\ ReleaseInv

(* A run that is over keeps its status, and a release is not taken back,    *)
(* whoever writes last: worker, inspectors or operator.                     *)
HistoryGrows ==
    /\ RunOver(run) => run'.status = run.status
    /\ run.released => run'.released

RunNeverGoesBack == [][HistoryGrows]_vars

(* What the run looks like from outside: RunLifeCycle.  Worker, inspectors,  *)
(* operator and the next run each do only what the life of a run allows at  *)
(* that moment.                                                             *)
LifeCycle == INSTANCE RunLifeCycle WITH
    status <- run.status, released <- run.released, live <- worker = "alive"

LifeCycleSpec == LifeCycle!LifeCycleSpec

(* Why: a worker past WORKER_STARTED never finds its run starting again, and *)
(* a run that is shown finished ended just so.                               *)
StartedIsShown ==
    worker = "alive" /\ pc \notin {"open", "boot"} => run.status # "starting" /\ shown.status # "starting"
ShownEndIsTheEnd == RunOver(shown) => run.status = shown.status

ViewInv == StartedIsShown /\ ShownEndIsTheEnd

(* A client ends a run only for a worker that is gone, or that was slower   *)
(* than the startup grace; a living worker whose run is over takes no stop, *)
(* lease or runtime limit any more.                                         *)
OnlyLostRunsAreReconciled == endedBy = "host" => worker = "dead" \/ slow

(* Why: a worker that has not died is suspected only while its run is shown *)
(* starting, which it ends within the startup grace, unless it is slow.     *)
SlowIsLate == slow => late
LateIsStarted == late => worker = "dead" \/ slow \/ pc \notin {"open", "boot"}
SuspectsAreLost ==
    \A i \in Inspector : inspecting[i] \in {"open", "error", "finish"} => worker = "dead" \/ slow

ReconcileInv == SlowIsLate /\ LateIsStarted /\ SuspectsAreLost /\ OnlyLostRunsAreReconciled

(* A run has a hard maximum runtime, and a stop a hard grace: the worker    *)
(* ends whatever the controller's run() does (docs/pi-integration.md,       *)
(* "Timeouts"), unless a controller call that the main thread makes itself  *)
(* never returns, or a client has ended the run of this living but slow     *)
(* worker, which then takes no limit any more.                              *)
RunIsBounded == <>(worker = "dead" \/ pc = "blocked" \/ (slow /\ endedBy = "host"))

(* Once its worker is gone, a run that clients keep inspecting is shown     *)
(* finished, which is what lets an operator clear its claims.               *)
DeadRunsAreReconciled == worker = "dead" ~> RunOver(shown)
=============================================================================
