------------------------- MODULE ManagedRunProofs -------------------------
(***************************************************************************)
(* Proofs about the life of a managed run, for any controller, any number  *)
(* of inspecting clients and kills at any moment.                          *)
(***************************************************************************)
EXTENDS ManagedRun, TLAPS

(* A run state keeps its type under every event. *)
LEMMA EventTypes ==
    ASSUME NEW state \in RunState, NEW status \in Status
    PROVE  /\ Released(state) \in RunState /\ Released(state).status = state.status
           /\ Released(state).released
           /\ Stopping(state) \in RunState /\ Stopping(state).released = state.released
           /\ (RunOver(state) => Stopping(state).status = state.status)
           /\ FinishedAs(state, status) \in RunState
           /\ FinishedAs(state, status).status = status
           /\ FinishedAs(state, status).released = state.released
    BY DEF RunState, Released, Stopping, FinishedAs, RunOver, Status, Active, Finished

(* What ask_to_stop() may change keeps its type. *)
LEMMA AskToStopTypes ==
    ASSUME LifeCycleInv, NEW status \in Finished, NEW next \in Stage, AskToStop(status, next)
    PROVE  /\ run' \in RunState /\ shown' \in RunState /\ seen' \in RunState
           /\ requested' \in Finished \union {"none"} /\ confirmed' \in BOOLEAN
           /\ holding' \in {"nothing", "input", "stray"} /\ quiet' \in BOOLEAN
           /\ pc' \in {next, "blocked"} /\ UNCHANGED worker
<1> USE DEF LifeCycleInv, TypeOK, stopping, device, GoTo, Block
<1>1. CASE Quietly /\ GoTo(next)
    BY <1>1 DEF Quietly
<1>2. CASE /\ WorkerWrites(Stopping(run))
           /\ requested' = status /\ confirmed' = TRUE /\ Hush /\ GoTo(next)
    BY <1>2, EventTypes DEF WorkerWrites, Write, Status, Hush
<1>3. CASE /\ WorkerWrites(Stopping(run))
           /\ requested' \in {"failed", status} /\ UNCHANGED <<confirmed, device>>
           /\ GoTo(next) \/ Block
    BY <1>3, EventTypes DEF WorkerWrites, Write, Status, Finished
<1> QED
    BY <1>1, <1>2, <1>3 DEF AskToStop

(* A run starts in a state the invariant describes. *)
LEMMA InitRunInv == Init => RunInv
<1> SUFFICES ASSUME Init PROVE RunInv
    OBVIOUS
<1> USE DEF Init
<1>1. run.released = (claim = "none") /\ run \in RunState
    BY DEF RunState, Status, Active
<1>2. TypeOK
    BY <1>1 DEF TypeOK, Finished, Stage
<1>3. CopiesLagBehind
    BY <1>1 DEF CopiesLagBehind
<1>4. /\ EngineOffWhileLoading /\ FailedLoadIsReleased /\ FinalIsKnown /\ GraceFollowsRequest
      /\ ClaimsQuarantined
    BY DEF EngineOffWhileLoading, FailedLoadIsReleased, FinalIsKnown, GraceFollowsRequest,
       ClaimsQuarantined
<1>5. ReleaseInv
    BY <1>1 DEF ReleaseInv, ConfirmedIsSettled, ReleasedIsSettled, QuietHoldsNoInput,
       OffHoldsNothing
<1> QED
    BY <1>2, <1>3, <1>4, <1>5 DEF RunInv, LifeCycleInv

(* Every step keeps the types. *)
LEMMA NextTypeOK == LifeCycleInv /\ [Next]_vars => TypeOK'
<1> SUFFICES ASSUME LifeCycleInv, [Next]_vars PROVE TypeOK'
    OBVIOUS
<1> USE DEF LifeCycleInv, TypeOK, Stage, Status, Active, Finished, journal, process, stopping,
       outcome, clocks, device, clients, Write, WorkerWrites, GoTo, Exit, Quietly, Refresh, Block
<1>1. CASE OpenRun
    BY <1>1 DEF OpenRun
<1>2. CASE StartWorker
    BY <1>2 DEF StartWorker, RunState
<1>3. CASE LoadController
    BY <1>3, EventTypes DEF LoadController
<1>4. CASE LoadFailed
    BY <1>4, EventTypes DEF LoadFailed, Unclaim
<1>5. CASE ProcessCommands
    <2> DEFINE Typed ==
          /\ run' \in RunState /\ shown' \in RunState /\ seen' \in RunState
          /\ requested' \in Finished \union {"none"} /\ confirmed' \in BOOLEAN
          /\ holding' \in {"nothing", "input", "stray"} /\ quiet' \in BOOLEAN
          /\ pc' \in Stage /\ UNCHANGED worker
    <2>1. Typed
        <3>1. ASSUME NEW next \in {"deadlines", "finally"}, AskToStop("cancelled", next)
              PROVE  Typed
            BY <3>1, AskToStopTypes
        <3>2. ASSUME NEW next \in {"deadlines", "finally", "blocked"}, Quietly \/ Refresh, GoTo(next)
              PROVE  Typed
            BY <3>2
        <3> QED
            BY <1>5, <3>1, <3>2 DEF ProcessCommands, Block
    <2>2. stopSent' \in BOOLEAN
        BY <1>5, Zenon DEF ProcessCommands
    <2>4. UNCHANGED <<endedBy, engine, outcome, clocks, claim, inspecting>>
        BY <1>5 DEF ProcessCommands
    <2> QED
        BY <2>1, <2>2, <2>4
<1>6. CASE CheckDeadlines
    BY <1>6, AskToStopTypes DEF CheckDeadlines
<1>7. CASE TakeSnapshot
    BY <1>7, AskToStopTypes DEF TakeSnapshot
<1>8. CASE TakeResult
    BY <1>8 DEF TakeResult
<1>9. CASE CheckGrace
    BY <1>9 DEF CheckGrace
<1>10. CASE RecordRelease
    BY <1>10, EventTypes DEF RecordRelease, RecordConfirmed
<1>11. CASE FinishRun
    BY <1>11, EventTypes DEF FinishRun, FinalIsKnown
<1>12. CASE CleanUp
    <2>1. CASE RecordConfirmed(confirmed) /\ UNCHANGED <<confirmed, device>> /\ GoTo("unclaim")
        BY <1>12, <2>1, EventTypes DEF CleanUp, RecordConfirmed
    <2>2. CASE RecordConfirmed(TRUE) /\ confirmed' = TRUE /\ Hush /\ GoTo("unclaim")
        <3>1. confirmed' \in BOOLEAN /\ holding' = "nothing" /\ quiet' \in BOOLEAN
            BY <2>2, Zenon DEF Hush
        <3>2. run' \in RunState /\ shown' \in RunState /\ seen' \in RunState
            BY <2>2, EventTypes DEF RecordConfirmed
        <3>3. pc' = "unclaim"
            BY <2>2
        <3>4. UNCHANGED <<worker, endedBy, engine, outcome, requested, clocks, claim, clients>>
            BY <1>12, <2>2 DEF CleanUp
        <3> QED
            BY <3>1, <3>2, <3>3, <3>4
    <2>3. CASE /\ WorkerWrites(IF confirmed THEN Released(run) ELSE run)
               /\ UNCHANGED <<confirmed, device>> /\ GoTo("unclaim")
        BY <1>12, <2>3, EventTypes DEF CleanUp
    <2>4. CASE UNCHANGED <<run, shown, seen, confirmed, device>> /\ Block
        BY <1>12, <2>4 DEF CleanUp
    <2> QED
        BY <1>12, <2>1, <2>2, <2>3, <2>4, Zenon DEF CleanUp
<1>13. CASE ReleaseClaims
    BY <1>13 DEF ReleaseClaims, Unclaim
<1>14. CASE Signal
    BY <1>14, AskToStopTypes DEF Signal
<1>15. CASE EngineActs
    BY <1>15 DEF EngineActs
<1>16. CASE EngineReturns
    <2>1. CASE engine' = "returned" /\ confirmed' = TRUE /\ holding' = "nothing"
        <3>1. confirmed' \in BOOLEAN /\ holding' \in {"nothing", "input", "stray"}
            BY <2>1
        <3>2. UNCHANGED <<journal, seen, process, final, requested, clocks, quiet, claim, clients>>
            BY <1>16 DEF EngineReturns
        <3>3. result' \in Finished /\ engine' = "returned"
            BY <1>16, <2>1 DEF EngineReturns
        <3> QED
            BY <3>1, <3>2, <3>3
    <2>2. CASE engine' = "denied" /\ UNCHANGED confirmed /\ holding' \in {holding, "nothing"}
        <3>2. UNCHANGED <<journal, seen, process, final, requested, clocks, quiet, claim, clients>>
            BY <1>16 DEF EngineReturns
        <3>3. result' \in Finished /\ engine' = "denied" /\ UNCHANGED confirmed
            BY <1>16, <2>2 DEF EngineReturns
        <3>4. holding' \in {"nothing", "input", "stray"}
            BY <2>2
        <3> QED
            BY <3>2, <3>3, <3>4
    <2> QED
        BY <1>16, <2>1, <2>2, Zenon DEF EngineReturns
<1>17. CASE EngineRaises
    <2>1. CASE confirmed' = TRUE /\ Hush
        <3>1. confirmed' \in BOOLEAN /\ holding' = "nothing" /\ quiet' \in BOOLEAN
            BY <2>1, Zenon DEF Hush
        <3>2. run' = run /\ shown' = run /\ seen' = run
            BY <1>17, Zenon DEF EngineRaises
        <3>3. result' = "failed" /\ engine' = "returned"
            BY <1>17 DEF EngineRaises
        <3>4. UNCHANGED <<endedBy, process, final, requested, clocks, claim, clients>>
            BY <1>17 DEF EngineRaises
        <3> QED
            BY <3>1, <3>2, <3>3, <3>4
    <2>2. CASE UNCHANGED <<confirmed, device>>
        BY <1>17, <2>2 DEF EngineRaises
    <2> QED
        BY <1>17, <2>1, <2>2, Zenon DEF EngineRaises
<1>18. CASE SendStop
    BY <1>18 DEF SendStop
<1>19. ASSUME NEW i \in Inspector, Inspect(i) PROVE TypeOK'
    BY <1>19, EventTypes DEF Inspect, InspectorSuspects, InspectorOpens, InspectorRecordsError,
       InspectorFinishesRun, InspectorReloads, InspectorGoesTo, InspectorAlone, Unclaim
<1>20. CASE ConfirmReleased
    BY <1>20, EventTypes DEF ConfirmReleased, InspectorAlone, Unclaim
<1>21. CASE OtherRunClaims
    BY <1>21 DEF OtherRunClaims, InspectorAlone
<1>22. CASE Elapse
    <2>1. CASE RuntimeElapses
        BY <2>1 DEF RuntimeElapses
    <2>2. CASE GraceElapses
        BY <2>2 DEF GraceElapses
    <2>3. CASE StartupGraceElapses
        BY <2>3 DEF StartupGraceElapses
    <2> QED
        BY <1>22, <2>1, <2>2, <2>3 DEF Elapse
<1>23. CASE Kill \/ KillFinishing
    BY <1>23, EventTypes DEF Kill, KillFinishing, Die, FinalIsKnown
<1>24. CASE UNCHANGED vars
    BY <1>24 DEF vars
<1> QED
    BY <1>1, <1>2, <1>3, <1>4, <1>5, <1>6, <1>7, <1>8, <1>9, <1>10, <1>11, <1>12, <1>13, <1>14,
       <1>15, <1>16, <1>17, <1>18, <1>19, <1>20, <1>21, <1>22, <1>23, <1>24 DEF Next, Coordinate

(* Every event adds to the history of the run: a release stays recorded, a *)
(* run that is over keeps its status, and every copy of the state is one   *)
(* the journal has or had.                                                 *)
LEMMA JournalSteps ==
    ASSUME LifeCycleInv, [Next]_vars
    PROVE  /\ run.released => run'.released
           /\ RunOver(run) => run'.status = run.status
           /\ shown' \in {shown, run'}
           /\ seen' \in {seen, run, run'}
<1> DEFINE Grows ==
        /\ run.released => run'.released
        /\ RunOver(run) => run'.status = run.status
        /\ shown' \in {shown, run'}
        /\ seen' \in {seen, run, run'}
<1> run \in RunState /\ final \in Finished \union {"none"}
    BY DEF LifeCycleInv, TypeOK
<1> USE DEF journal, stopping, Write, WorkerWrites, Status
<1>1. ASSUME NEW status \in Finished, NEW next, AskToStop(status, next) PROVE Grows
    BY <1>1, EventTypes DEF AskToStop, Quietly
<1>2. CASE Quietly \/ Refresh
    BY <1>2 DEF Quietly, Refresh
<1>3. CASE OpenRun \/ TakeResult \/ CheckGrace \/ ReleaseClaims
    BY <1>3 DEF OpenRun, TakeResult, CheckGrace, ReleaseClaims
<1>4. CASE StartWorker
    BY <1>4 DEF StartWorker, RunState, RunOver, Finished
<1>5. CASE LoadController \/ LoadFailed
    BY <1>5, EventTypes DEF LoadController, LoadFailed, Finished
<1>6. CASE ProcessCommands \/ CheckDeadlines \/ TakeSnapshot \/ Signal
    BY <1>1, <1>2, <1>6 DEF ProcessCommands, CheckDeadlines, TakeSnapshot, Signal, Finished
<1>7. CASE RecordRelease \/ FinishRun
    BY <1>7, EventTypes DEF RecordRelease, FinishRun, FinalIsKnown, LifeCycleInv, RecordConfirmed, Finished
<1>8. CASE CleanUp
    BY <1>8, EventTypes DEF CleanUp, RecordConfirmed, Finished
<1>9. CASE EngineActs \/ EngineReturns \/ EngineRaises
    BY <1>9 DEF EngineActs, EngineReturns, EngineRaises
<1>10. CASE SendStop \/ ConfirmReleased \/ OtherRunClaims
    BY <1>10, EventTypes DEF SendStop, ConfirmReleased, OtherRunClaims, InspectorAlone, Finished
<1>11. ASSUME NEW i \in Inspector, Inspect(i) PROVE Grows
    BY <1>11, EventTypes DEF Inspect, InspectorSuspects, InspectorOpens, InspectorRecordsError,
       InspectorFinishesRun, InspectorReloads, InspectorAlone, Finished
<1>12. CASE Elapse
    BY <1>12 DEF Elapse, RuntimeElapses, GraceElapses, StartupGraceElapses
<1>13. CASE Kill \/ KillFinishing
    BY <1>13, EventTypes DEF Kill, KillFinishing, Die, FinalIsKnown, LifeCycleInv, Finished
<1>14. CASE UNCHANGED vars
    BY <1>14 DEF vars
<1> QED
    BY <1>3, <1>4, <1>5, <1>6, <1>7, <1>8, <1>9, <1>10, <1>11, <1>12, <1>13, <1>14
    DEF Next, Coordinate

(* The stages and the copies of the state stay what the code relies on. *)
LEMMA NextLifeCycle == LifeCycleInv /\ [Next]_vars => LifeCycleInv'
<1> SUFFICES ASSUME LifeCycleInv, [Next]_vars PROVE LifeCycleInv'
    OBVIOUS
<1> DEFINE Rest == /\ EngineOffWhileLoading /\ FailedLoadIsReleased /\ FinalIsKnown
                   /\ GraceFollowsRequest /\ ClaimsQuarantined
<1>1. TypeOK'
    BY NextTypeOK
<1>2. CopiesLagBehind'
    BY JournalSteps DEF LifeCycleInv, CopiesLagBehind
<1>3. Rest /\ CopiesLagBehind /\ TypeOK
    BY DEF LifeCycleInv
<1>4. run.released => run'.released
    BY JournalSteps
<1> USE DEF journal, process, stopping, outcome, clocks, device, clients, GoTo, Exit, Block, Loading,
       EngineOffWhileLoading, FailedLoadIsReleased, FinalIsKnown, GraceFollowsRequest,
       ClaimsQuarantined
<1>5. ASSUME NEW status \in Finished, NEW next, AskToStop(status, next)
      PROVE  /\ requested # "none" => requested' # "none"
             /\ pc' \in {next, "blocked"}
    BY <1>5 DEF AskToStop, Quietly, Finished
<1>6. Rest'
    <2>1. CASE OpenRun
        BY <2>1, <1>3, <1>4 DEF OpenRun
    <2>2. CASE StartWorker
        BY <2>2, <1>3, <1>4 DEF StartWorker
    <2>3. CASE LoadController
        <3>1. run \in RunState /\ "failed" \in Status
            BY <1>3 DEF TypeOK, Status, Finished
        <3>2. pc' = "load_failed" => run'.released
            BY <2>3, <3>1, EventTypes DEF LoadController, WorkerWrites, Write
        <3>3. /\ pc = "load" /\ pc' \in {"commands", "load_failed", "blocked"}
              /\ pc' # "commands" => engine' = engine
              /\ UNCHANGED <<requested, graceOver, claim>>
            BY <2>3 DEF LoadController
        <3> QED
            BY <1>3, <1>4, <3>2, <3>3
    <2>4. CASE LoadFailed
        BY <2>4, <1>3, <1>4 DEF LoadFailed, Unclaim
    <2>5. CASE ProcessCommands
        BY <2>5, <1>3, <1>4, <1>5 DEF ProcessCommands, Finished, Quietly, Refresh
    <2>6. CASE CheckDeadlines
        BY <2>6, <1>3, <1>4, <1>5 DEF CheckDeadlines, Finished, Quietly
    <2>7. CASE TakeSnapshot
        BY <2>7, <1>3, <1>4, <1>5 DEF TakeSnapshot, Finished, Quietly, Refresh
    <2>8. CASE TakeResult
        <3>1. /\ pc' = "release" => final' \in Finished
              /\ pc' \in {"release", "grace"}
              /\ UNCHANGED <<engine, run, requested, graceOver, claim>>
            BY <2>8, <1>3 DEF TakeResult, TypeOK, Finished
        <3> QED
            BY <3>1, <1>3
    <2>9. CASE CheckGrace
        BY <2>9, <1>3, <1>4 DEF CheckGrace, TypeOK
    <2>10. CASE RecordRelease
        BY <2>10, <1>3, <1>4 DEF RecordRelease
    <2>11. CASE FinishRun
        BY <2>11, <1>3, <1>4 DEF FinishRun
    <2>12. CASE CleanUp
        BY <2>12, <1>3, <1>4 DEF CleanUp
    <2>13. CASE ReleaseClaims
        BY <2>13, <1>3, <1>4 DEF ReleaseClaims, CopiesLagBehind, Unclaim
    <2>14. CASE Signal
        BY <2>14, <1>3, <1>4, <1>5 DEF Signal, Finished
    <2>15. CASE EngineActs
        BY <2>15, <1>3, <1>4 DEF EngineActs
    <2>16. CASE EngineReturns
        BY <2>16, <1>3, <1>4 DEF EngineReturns
    <2>17. CASE EngineRaises
        BY <2>17, <1>3, <1>4 DEF EngineRaises
    <2>18. CASE SendStop
        BY <2>18, <1>3, <1>4 DEF SendStop
    <2>19. ASSUME NEW i \in Inspector, Inspect(i) PROVE Rest'
        BY <2>19, <1>3, <1>4 DEF Inspect, InspectorSuspects, InspectorOpens, InspectorRecordsError,
           InspectorFinishesRun, InspectorReloads, InspectorAlone, CopiesLagBehind, Unclaim
    <2>20. CASE ConfirmReleased
        <3>1. run \in RunState /\ "failed" \in Status
            BY <1>3 DEF TypeOK, Status, Finished
        <3>2. run'.released
            BY <2>20, <3>1, EventTypes DEF ConfirmReleased, Write
        <3> QED
            BY <2>20, <1>3, <3>2 DEF ConfirmReleased, InspectorAlone
    <2>21. CASE OtherRunClaims
        BY <2>21, <1>3, <1>4 DEF OtherRunClaims, InspectorAlone, CopiesLagBehind
    <2>22. CASE Elapse
        BY <2>22, <1>3, <1>4 DEF Elapse, RuntimeElapses, GraceElapses, StartupGraceElapses
    <2>23. CASE Kill \/ KillFinishing
        BY <2>23, <1>3, <1>4 DEF Kill, KillFinishing, Die
    <2>24. CASE UNCHANGED vars
        BY <2>24, <1>3 DEF vars
    <2> QED
        BY <2>1, <2>2, <2>3, <2>4, <2>5, <2>6, <2>7, <2>8, <2>9, <2>10, <2>11, <2>12, <2>13, <2>14,
           <2>15, <2>16, <2>17, <2>18, <2>19, <2>20, <2>21, <2>22, <2>23, <2>24 DEF Next, Coordinate
<1> QED
    BY <1>1, <1>2, <1>6 DEF LifeCycleInv

(* Only the engine takes anything, and only a running engine in a live     *)
(* worker; a controller that was told to stop stays told; and a            *)
(* confirmation is always of a release that has just happened.             *)
LEMMA DeviceSteps ==
    ASSUME LifeCycleInv, [Next]_vars
    PROVE  /\ holding' = holding \/ holding' = "nothing" \/ (EngineActs /\ holding' # "nothing")
           /\ quiet => quiet'
           /\ quiet' => quiet \/ holding' = "nothing"
           /\ confirmed' => confirmed \/ (holding' = "nothing" /\ (quiet' \/ engine' = "returned"))
<1> DEFINE Goal ==
           /\ holding' = holding \/ holding' = "nothing" \/ (EngineActs /\ holding' # "nothing")
           /\ quiet => quiet'
           /\ quiet' => quiet \/ holding' = "nothing"
           /\ confirmed' => confirmed \/ (holding' = "nothing" /\ (quiet' \/ engine' = "returned"))
<1> USE DEF stopping, device
<1>1. CASE UNCHANGED <<confirmed, device>>
    BY <1>1
<1>2. CASE confirmed' = TRUE /\ Hush
    BY <1>2, Zenon DEF Hush
<1>3. ASSUME NEW status, NEW next, AskToStop(status, next) PROVE Goal
    BY <1>1, <1>2, <1>3 DEF AskToStop, Quietly
<1>4. CASE ProcessCommands \/ CheckDeadlines \/ TakeSnapshot \/ Signal
    BY <1>1, <1>3, <1>4 DEF ProcessCommands, CheckDeadlines, TakeSnapshot, Signal, Quietly, Refresh
<1>5. CASE OpenRun \/ StartWorker \/ LoadController \/ LoadFailed \/ TakeResult \/ CheckGrace
    BY <1>1, <1>5 DEF OpenRun, StartWorker, LoadController, LoadFailed, TakeResult, CheckGrace
<1>6. CASE RecordRelease \/ FinishRun \/ ReleaseClaims
    BY <1>1, <1>6 DEF RecordRelease, FinishRun, ReleaseClaims
<1>7. CASE CleanUp
    BY <1>1, <1>2, <1>7 DEF CleanUp
<1>8. CASE EngineActs
    BY <1>8 DEF EngineActs
<1>9. CASE EngineReturns
    <2>1. CASE engine' = "returned" /\ confirmed' = TRUE /\ holding' = "nothing"
        BY <1>9, <2>1 DEF EngineReturns
    <2>2. CASE UNCHANGED confirmed /\ holding' \in {holding, "nothing"}
        <3>1. UNCHANGED <<confirmed, quiet>>
            BY <1>9, <2>2 DEF EngineReturns
        <3>2. holding' = holding \/ holding' = "nothing"
            BY <2>2
        <3> QED
            BY <3>1, <3>2
    <2> QED
        BY <1>9, <2>1, <2>2, Zenon DEF EngineReturns
<1>10. CASE EngineRaises
    BY <1>1, <1>2, <1>10 DEF EngineRaises
<1>11. CASE SendStop \/ ConfirmReleased \/ OtherRunClaims
    BY <1>1, <1>11 DEF SendStop, ConfirmReleased, OtherRunClaims, InspectorAlone
<1>12. ASSUME NEW i \in Inspector, Inspect(i) PROVE Goal
    BY <1>1, <1>12 DEF Inspect, InspectorSuspects, InspectorOpens, InspectorRecordsError,
       InspectorFinishesRun, InspectorReloads, InspectorAlone
<1>13. CASE Elapse
    BY <1>1, <1>13 DEF Elapse, RuntimeElapses, GraceElapses, StartupGraceElapses
<1>14. CASE Kill \/ KillFinishing
    BY <1>1, <1>14 DEF Kill, KillFinishing, Die
<1>15. CASE UNCHANGED vars
    BY <1>1, <1>15 DEF vars
<1> QED
    BY <1>4, <1>5, <1>6, <1>7, <1>8, <1>9, <1>10, <1>11, <1>12, <1>13, <1>14, <1>15
    DEF Next, Coordinate

(* An engine leaves "off" only when the controller has been loaded, never  *)
(* returns to work, and a worker never comes back.                         *)
LEMMA ProcessSteps ==
    ASSUME LifeCycleInv, [Next]_vars
    PROVE  /\ worker = "dead" => worker' = "dead"
           /\ engine \in {"returned", "denied"} => engine' \in {"returned", "denied"}
           /\ engine' = "off" => engine = "off"
           /\ engine = "off" /\ pc # "load" => engine' = "off"
           /\ pc' \in {"open", "boot", "load"} => pc \in {"open", "boot", "load"}
<1> DEFINE Goal ==
           /\ worker = "dead" => worker' = "dead"
           /\ engine \in {"returned", "denied"} => engine' \in {"returned", "denied"}
           /\ engine' = "off" => engine = "off"
           /\ engine = "off" /\ pc # "load" => engine' = "off"
           /\ pc' \in {"open", "boot", "load"} => pc \in {"open", "boot", "load"}
<1> USE DEF process, GoTo, Exit, Block
<1>1. CASE OpenRun \/ StartWorker \/ LoadController \/ LoadFailed
    BY <1>1 DEF OpenRun, StartWorker, LoadController, LoadFailed, LifeCycleInv,
       EngineOffWhileLoading, Loading
<1>2. CASE ProcessCommands \/ CheckDeadlines \/ TakeSnapshot \/ Signal
    BY <1>2 DEF ProcessCommands, CheckDeadlines, TakeSnapshot, Signal, AskToStop
<1>3. CASE TakeResult \/ CheckGrace \/ RecordRelease \/ FinishRun \/ CleanUp \/ ReleaseClaims
    BY <1>3 DEF TakeResult, CheckGrace, RecordRelease, FinishRun, CleanUp, ReleaseClaims
<1>4. CASE EngineActs \/ EngineReturns \/ EngineRaises
    BY <1>4 DEF EngineActs, EngineReturns, EngineRaises
<1>5. CASE SendStop \/ ConfirmReleased \/ OtherRunClaims
    BY <1>5 DEF SendStop, ConfirmReleased, OtherRunClaims, InspectorAlone
<1>6. ASSUME NEW i \in Inspector, Inspect(i) PROVE Goal
    BY <1>6 DEF Inspect, InspectorSuspects, InspectorOpens, InspectorRecordsError,
       InspectorFinishesRun, InspectorReloads, InspectorAlone
<1>7. CASE Elapse
    BY <1>7 DEF Elapse, RuntimeElapses, GraceElapses, StartupGraceElapses
<1>8. CASE Kill \/ KillFinishing
    BY <1>8 DEF Kill, KillFinishing, Die
<1>9. CASE UNCHANGED vars
    BY <1>9 DEF vars
<1> QED
    BY <1>1, <1>2, <1>3, <1>4, <1>5, <1>6, <1>7, <1>8, <1>9 DEF Next, Coordinate

(* A recorded release is one that had been recorded, that was confirmed, or *)
(* that nobody could undo: of a controller that never came to life, or by   *)
(* an operator who finds the worker gone and nothing held.                  *)
LEMMA ReleaseSteps ==
    ASSUME LifeCycleInv, [Next]_vars
    PROVE  \/ ~run'.released \/ run.released \/ confirmed'
           \/ engine = "off" /\ engine' = "off" /\ pc' = "load_failed"
           \/ worker' = "dead" /\ holding' = "nothing"
<1> DEFINE Goal ==
           \/ ~run'.released \/ run.released \/ confirmed'
           \/ engine = "off" /\ engine' = "off" /\ pc' = "load_failed"
           \/ worker' = "dead" /\ holding' = "nothing"
<1> run \in RunState /\ "failed" \in Status /\ final \in Finished \union {"none"}
    BY DEF LifeCycleInv, TypeOK, Status, Finished
<1> USE DEF journal, process, stopping, device, GoTo, Exit, Write, WorkerWrites
<1>1. ASSUME NEW status, NEW next, AskToStop(status, next) PROVE Goal
    BY <1>1, EventTypes DEF AskToStop, Quietly
<1>2. CASE ProcessCommands \/ CheckDeadlines \/ TakeSnapshot \/ Signal
    BY <1>1, <1>2 DEF ProcessCommands, CheckDeadlines, TakeSnapshot, Signal, Quietly, Refresh
<1>3. CASE OpenRun \/ StartWorker
    BY <1>3 DEF OpenRun, StartWorker, RunState
<1>4. CASE LoadController
    BY <1>4 DEF LoadController, LifeCycleInv, EngineOffWhileLoading, Loading
<1>5. CASE LoadFailed
    BY <1>5, EventTypes DEF LoadFailed
<1>6. CASE TakeResult \/ CheckGrace \/ ReleaseClaims
    BY <1>6 DEF TakeResult, CheckGrace, ReleaseClaims
<1>7. CASE RecordRelease
    BY <1>7 DEF RecordRelease, RecordConfirmed
<1>8. CASE FinishRun
    BY <1>8, EventTypes DEF FinishRun, LifeCycleInv, FinalIsKnown, Status
<1>9. CASE CleanUp
    BY <1>9 DEF CleanUp, RecordConfirmed
<1>10. CASE EngineActs \/ EngineReturns \/ EngineRaises
    BY <1>10 DEF EngineActs, EngineReturns, EngineRaises
<1>11. CASE SendStop \/ OtherRunClaims
    BY <1>11 DEF SendStop, OtherRunClaims, InspectorAlone
<1>12. CASE ConfirmReleased
    BY <1>12 DEF ConfirmReleased, InspectorAlone
<1>13. ASSUME NEW i \in Inspector, Inspect(i) PROVE Goal
    BY <1>13, EventTypes DEF Inspect, InspectorSuspects, InspectorOpens, InspectorRecordsError,
       InspectorFinishesRun, InspectorReloads, InspectorAlone
<1>14. CASE Elapse
    BY <1>14 DEF Elapse, RuntimeElapses, GraceElapses, StartupGraceElapses
<1>15. CASE Kill \/ KillFinishing
    BY <1>15, EventTypes DEF Kill, KillFinishing, Die, LifeCycleInv, FinalIsKnown, Status
<1>16. CASE UNCHANGED vars
    BY <1>16 DEF vars
<1> QED
    BY <1>2, <1>3, <1>4, <1>5, <1>6, <1>7, <1>8, <1>9, <1>10, <1>11, <1>12, <1>13, <1>14, <1>15,
       <1>16 DEF Next, Coordinate

(* A run claims something from the start, or nothing for ever. *)
LEMMA ClaimSteps == [Next]_vars => (claim' = "none") = (claim = "none")
<1> SUFFICES ASSUME [Next]_vars PROVE (claim' = "none") = (claim = "none")
    OBVIOUS
<1>1. ASSUME NEW i \in Inspector, Inspect(i) PROVE (claim' = "none") = (claim = "none")
    BY <1>1 DEF Inspect, InspectorSuspects, InspectorOpens, InspectorRecordsError, InspectorFinishesRun,
       InspectorReloads, Unclaim
<1>2. CASE LoadFailed \/ ReleaseClaims \/ ConfirmReleased \/ OtherRunClaims
    BY <1>2 DEF LoadFailed, ReleaseClaims, ConfirmReleased, OtherRunClaims, Unclaim
<1>3. CASE OpenRun \/ StartWorker \/ LoadController \/ ProcessCommands \/ CheckDeadlines \/ TakeSnapshot
    BY <1>3 DEF OpenRun, StartWorker, LoadController, ProcessCommands, CheckDeadlines, TakeSnapshot
<1>4. CASE TakeResult \/ CheckGrace \/ RecordRelease \/ FinishRun \/ CleanUp \/ Signal
    BY <1>4 DEF TakeResult, CheckGrace, RecordRelease, FinishRun, CleanUp, Signal
<1>5. CASE EngineActs \/ EngineReturns \/ EngineRaises \/ SendStop \/ Elapse
    BY <1>5 DEF EngineActs, EngineReturns, EngineRaises, SendStop, Elapse, RuntimeElapses, GraceElapses,
       StartupGraceElapses
<1>6. CASE Kill \/ KillFinishing \/ UNCHANGED vars
    BY <1>6 DEF Kill, KillFinishing, Die, vars
<1> QED
    BY <1>1, <1>2, <1>3, <1>4, <1>5, <1>6 DEF Next, Coordinate

(* What a confirmation means is kept by every step. *)
LEMMA NextRelease == LifeCycleInv /\ ReleaseInv /\ [Next]_vars => ReleaseInv'
<1> SUFFICES ASSUME LifeCycleInv, ReleaseInv, [Next]_vars PROVE ReleaseInv'
    OBVIOUS
<1>0. /\ EngineActs => holding' \in {"input", "stray"} /\ engine = "running" /\ worker = "alive"
      /\ EngineActs /\ quiet => holding' = "stray"
    BY DEF EngineActs
<1>1. Settled => Settled'
    <2>1. Settled /\ EngineActs => quiet
        BY DEF Settled, EngineActs
    <2>2. Settled => holding' # "input"
        BY <1>0, <2>1, DeviceSteps DEF Settled
    <2> QED
        BY <2>2, DeviceSteps, ProcessSteps DEF Settled
<1>2. QuietHoldsNoInput'
    BY <1>0, DeviceSteps DEF ReleaseInv, QuietHoldsNoInput
<1>3. OffHoldsNothing'
    BY <1>0, DeviceSteps, ProcessSteps DEF ReleaseInv, OffHoldsNothing
<1>4. ConfirmedIsSettled'
    BY <1>1, DeviceSteps DEF ReleaseInv, ConfirmedIsSettled, Settled
<1>5. ReleasedIsSettled'
    <2>1. CASE claim = "none"
        BY <2>1, ClaimSteps DEF ReleasedIsSettled
    <2>2. CASE claim # "none" /\ run.released
        BY <2>2, <1>1 DEF ReleaseInv, ReleasedIsSettled
    <2>3. CASE confirmed'
        BY <2>3, <1>4 DEF ConfirmedIsSettled, ReleasedIsSettled
    <2>4. CASE engine = "off" /\ engine' = "off" /\ pc' = "load_failed"
        BY <2>4, <1>3 DEF OffHoldsNothing, ReleasedIsSettled, Settled
    <2>5. CASE worker' = "dead" /\ holding' = "nothing"
        BY <2>5 DEF ReleasedIsSettled, Settled
    <2>6. CASE ~run'.released
        BY <2>6 DEF ReleasedIsSettled
    <2> QED
        BY <2>1, <2>2, <2>3, <2>4, <2>5, <2>6, ReleaseSteps
<1> QED
    BY <1>2, <1>3, <1>4, <1>5 DEF ReleaseInv

(* The inductive invariant of a managed run: stages, copies of the state    *)
(* and claims, and what a confirmed release means.                          *)
THEOREM RunInvariant == Spec => []RunInv
<1>1. RunInv /\ [Next]_vars => RunInv'
    BY NextLifeCycle, NextRelease DEF RunInv
<1> QED
    BY <1>1, InitRunInv, PTL DEF Spec

(* Every variable keeps its type. *)
THEOREM TypeCorrectness == Spec => []TypeOK
<1>1. RunInv => TypeOK
    BY DEF RunInv, LifeCycleInv
<1> QED
    BY <1>1, RunInvariant, PTL

(* A resource claim leaves its run only after a release was recorded,       *)
(* whoever was killed and whoever reconciled.                               *)
THEOREM ClaimsStayQuarantined == Spec => []ClaimsQuarantined
<1>1. RunInv => ClaimsQuarantined
    BY DEF RunInv, LifeCycleInv
<1> QED
    BY <1>1, RunInvariant, PTL

(* A recorded release is real: whatever such a run still holds was taken    *)
(* after its controller had been told to stop.                              *)
THEOREM ReleaseIsReal == Spec => []ReleasedMeansReleased
<1>1. RunInv => ReleasedMeansReleased
    BY DEF RunInv, ReleaseInv, ReleasedIsSettled, Settled, ReleasedMeansReleased
<1> QED
    BY <1>1, RunInvariant, PTL

(* A run that is over stays what it is, and a release stays recorded.       *)
THEOREM FinishedRunsStay == Spec => RunNeverGoesBack
<1>1. RunInv /\ [Next]_vars => [HistoryGrows]_vars
    BY JournalSteps DEF RunInv, HistoryGrows
<1> QED
    BY <1>1, RunInvariant, PTL DEF Spec, RunNeverGoesBack
-----------------------------------------------------------------------------
(* A run that has left "starting" never shows it again, and a worker leaves *)
(* the stages before WORKER_STARTED only by recording it, or by exiting.    *)
LEMMA StartSteps ==
    ASSUME LifeCycleInv, [Next]_vars
    PROVE  /\ run'.status = "starting" => run.status = "starting"
           /\ pc' \in {"open", "boot"} => pc \in {"open", "boot"}
           /\ pc \in {"open", "boot"} /\ pc' \notin {"open", "boot"} /\ worker' = "alive" => StartWorker
           /\ worker' = "alive" => worker = "alive"
<1> DEFINE Goal ==
           /\ run'.status = "starting" => run.status = "starting"
           /\ pc' \in {"open", "boot"} => pc \in {"open", "boot"}
           /\ pc \in {"open", "boot"} /\ pc' \notin {"open", "boot"} /\ worker' = "alive" => StartWorker
           /\ worker' = "alive" => worker = "alive"
<1> /\ run \in RunState /\ "failed" \in Status /\ "starting" \notin Finished
    /\ worker \in {"alive", "dead"}
    BY DEF LifeCycleInv, TypeOK, Status, Finished
<1> USE DEF journal, process, stopping, device, GoTo, Exit, Block, Write, WorkerWrites
<1>1. ASSUME NEW status \in Finished, NEW next, AskToStop(status, next)
      PROVE  /\ run'.status = "starting" => run.status = "starting"
             /\ pc' \in {next, "blocked"} /\ UNCHANGED worker
    BY <1>1, EventTypes DEF AskToStop, Quietly, Stopping, RunState
<1>2. CASE ProcessCommands \/ CheckDeadlines \/ TakeSnapshot \/ Signal
    BY <1>1, <1>2 DEF ProcessCommands, CheckDeadlines, TakeSnapshot, Signal, Quietly, Refresh, Finished
<1>3. CASE OpenRun \/ StartWorker
    BY <1>3 DEF OpenRun, StartWorker, RunState
<1>4. CASE LoadController \/ LoadFailed
    BY <1>4, EventTypes DEF LoadController, LoadFailed
<1>5. CASE TakeResult \/ CheckGrace \/ ReleaseClaims
    BY <1>5 DEF TakeResult, CheckGrace, ReleaseClaims
<1>6. CASE RecordRelease \/ FinishRun
    BY <1>6, EventTypes DEF RecordRelease, FinishRun, RecordConfirmed, LifeCycleInv, FinalIsKnown, Status
<1>7. CASE CleanUp
    BY <1>7, EventTypes DEF CleanUp, RecordConfirmed
<1>8. CASE EngineActs \/ EngineReturns \/ EngineRaises
    BY <1>8 DEF EngineActs, EngineReturns, EngineRaises
<1>9. CASE SendStop \/ ConfirmReleased \/ OtherRunClaims
    BY <1>9, EventTypes DEF SendStop, ConfirmReleased, OtherRunClaims, InspectorAlone
<1>10. ASSUME NEW i \in Inspector, Inspect(i) PROVE Goal
    BY <1>10, EventTypes DEF Inspect, InspectorSuspects, InspectorOpens, InspectorRecordsError,
       InspectorFinishesRun, InspectorReloads, InspectorAlone
<1>11. CASE Elapse
    BY <1>11 DEF Elapse, RuntimeElapses, GraceElapses, StartupGraceElapses
<1>12. CASE Kill \/ KillFinishing
    BY <1>12, EventTypes DEF Kill, KillFinishing, Die, LifeCycleInv, FinalIsKnown, Status
<1>13. CASE UNCHANGED vars
    BY <1>13 DEF vars
<1> QED
    BY <1>2, <1>3, <1>4, <1>5, <1>6, <1>7, <1>8, <1>9, <1>10, <1>11, <1>12, <1>13 DEF Next, Coordinate

(* What a run shows: a worker past WORKER_STARTED never finds its run       *)
(* starting again, and a run that is shown finished is finished.            *)
LEMMA NextView == LifeCycleInv /\ ViewInv /\ [Next]_vars => ViewInv'
<1> SUFFICES ASSUME LifeCycleInv, ViewInv, [Next]_vars PROVE ViewInv'
    OBVIOUS
<1>1. StartedIsShown'
  <2> SUFFICES ASSUME worker' = "alive", pc' \notin {"open", "boot"}
               PROVE  run'.status # "starting" /\ shown'.status # "starting"
      BY DEF StartedIsShown
  <2>1. CASE pc \in {"open", "boot"}
    <3>1. StartWorker
        BY <2>1, StartSteps
    <3>2. run' = [run EXCEPT !.status = "running"] /\ shown' = run'
        BY <3>1 DEF StartWorker, WorkerWrites, Write, Exit
    <3> QED BY <3>2 DEF LifeCycleInv, TypeOK, RunState
  <2>2. CASE pc \notin {"open", "boot"}
      BY <2>2, StartSteps, JournalSteps DEF ViewInv, StartedIsShown
  <2> QED BY <2>1, <2>2
<1>2. ShownEndIsTheEnd'
    BY JournalSteps DEF ViewInv, ShownEndIsTheEnd, RunOver
<1> QED
    BY <1>1, <1>2 DEF ViewInv

(* Whoever looks at a run sees nothing it will take back.                   *)
THEOREM ViewInvariant == Spec => []ViewInv
<1>1. Init => ViewInv
    BY DEF Init, ViewInv, StartedIsShown, ShownEndIsTheEnd
<1>2. RunInv /\ ViewInv /\ [Next]_vars => ViewInv'
    BY NextView DEF RunInv
<1> QED
    BY <1>1, <1>2, RunInvariant, PTL DEF Spec

(* Once the startup grace has elapsed a worker is past its start, dead or   *)
(* slow, and only a client that suspects begins to reconcile.               *)
LEMMA SuspicionSteps ==
    ASSUME LifeCycleInv, [Next]_vars
    PROVE  /\ late' => late \/ worker' = "dead" \/ slow' \/ pc' \notin {"open", "boot"}
           /\ late => late' /\ (slow => slow')
           /\ slow' => slow \/ late'
           /\ \A i \in Inspector :
                  inspecting'[i] \in {"open", "error", "finish"}
                  => inspecting[i] \in {"open", "error", "finish"} \/ InspectorSuspects(i)
           /\ endedBy' = "host"
              => endedBy = "host" \/ \E i \in Inspector : inspecting[i] = "finish"
<1> DEFINE Goal ==
           /\ late' => late \/ worker' = "dead" \/ slow' \/ pc' \notin {"open", "boot"}
           /\ late => late' /\ (slow => slow')
           /\ slow' => slow \/ late'
           /\ \A i \in Inspector :
                  inspecting'[i] \in {"open", "error", "finish"}
                  => inspecting[i] \in {"open", "error", "finish"} \/ InspectorSuspects(i)
           /\ endedBy' = "host"
              => endedBy = "host" \/ \E i \in Inspector : inspecting[i] = "finish"
<1> USE DEF journal, process, clocks, clients
<1>1. CASE UNCHANGED <<late, slow, inspecting>> /\ endedBy' \in {endedBy, "worker"}
    BY <1>1
<1>2. CASE ProcessCommands \/ CheckDeadlines \/ TakeSnapshot \/ Signal
    BY <1>1, <1>2 DEF ProcessCommands, CheckDeadlines, TakeSnapshot, Signal
<1>3. CASE OpenRun \/ StartWorker \/ LoadController \/ LoadFailed
    BY <1>1, <1>3 DEF OpenRun, StartWorker, LoadController, LoadFailed
<1>4. CASE TakeResult \/ CheckGrace \/ RecordRelease \/ FinishRun \/ CleanUp \/ ReleaseClaims
    BY <1>1, <1>4 DEF TakeResult, CheckGrace, RecordRelease, FinishRun, CleanUp, ReleaseClaims
<1>5. CASE EngineActs \/ EngineReturns \/ EngineRaises
    BY <1>1, <1>5 DEF EngineActs, EngineReturns, EngineRaises
<1>6. CASE SendStop \/ ConfirmReleased \/ OtherRunClaims
    BY <1>1, <1>6 DEF SendStop, ConfirmReleased, OtherRunClaims, InspectorAlone
<1>7. ASSUME NEW i \in Inspector, Inspect(i) PROVE Goal
  <2>1. /\ late' = late /\ slow' = slow
        /\ \E stage \in {"idle", "open", "error", "finish", "reload"} :
               /\ inspecting' = [inspecting EXCEPT ![i] = stage]
               /\ stage \in {"open", "error", "finish"}
                  => inspecting[i] \in {"open", "error", "finish"} \/ InspectorSuspects(i)
        /\ endedBy' = "host" => endedBy = "host" \/ inspecting[i] = "finish"
      BY <1>7 DEF Inspect, InspectorSuspects, InspectorOpens, InspectorRecordsError,
         InspectorFinishesRun, InspectorReloads, InspectorAlone, InspectorGoesTo
  <2>2. inspecting \in [Inspector -> {"idle", "open", "error", "finish", "reload"}]
      BY DEF LifeCycleInv, TypeOK
  <2> QED BY <2>1, <2>2
<1>8. CASE Elapse
  <2>1. CASE RuntimeElapses \/ GraceElapses
      BY <1>1, <2>1 DEF RuntimeElapses, GraceElapses
  <2>2. CASE StartupGraceElapses
    <3>1. /\ ~late /\ late' /\ UNCHANGED <<endedBy, worker, pc, inspecting>>
          /\ worker = "alive" /\ pc \in {"open", "boot"} => slow'
        BY <2>2 DEF StartupGraceElapses
    <3>2. worker \in {"alive", "dead"}
        BY DEF LifeCycleInv, TypeOK
    <3> QED BY <3>1, <3>2
  <2> QED BY <1>8, <2>1, <2>2 DEF Elapse
<1>9. CASE Kill \/ KillFinishing
    BY <1>1, <1>9 DEF Kill, KillFinishing, Die
<1>10. CASE UNCHANGED vars
    BY <1>1, <1>10 DEF vars
<1> QED
    BY <1>2, <1>3, <1>4, <1>5, <1>6, <1>7, <1>8, <1>9, <1>10 DEF Next, Coordinate

(* A worker within the startup grace is never suspected, one past it never  *)
(* shows its run starting, so whoever reconciles finds it dead for good, or *)
(* slow.                                                                    *)
LEMMA NextReconcile == LifeCycleInv /\ ViewInv /\ ReconcileInv /\ [Next]_vars => ReconcileInv'
<1> SUFFICES ASSUME LifeCycleInv, ViewInv, ReconcileInv, [Next]_vars PROVE ReconcileInv'
    OBVIOUS
<1> USE DEF ReconcileInv
<1>0. worker \in {"alive", "dead"} /\ worker' \in {"alive", "dead"}
    BY NextTypeOK DEF LifeCycleInv, TypeOK
<1>1. LateIsStarted'
    BY <1>0, ProcessSteps, StartSteps, SuspicionSteps DEF LateIsStarted
<1>2. slow => slow'
  <2>1. CASE late
      BY <2>1, SuspicionSteps
  <2>2. CASE ~late
      BY <2>2 DEF SlowIsLate
  <2> QED BY <2>1, <2>2
<1>3. ASSUME NEW i \in Inspector, InspectorSuspects(i) PROVE worker' = "dead" \/ slow'
  <2>1. worker' = worker /\ slow' = slow
      BY <1>3 DEF InspectorSuspects, InspectorAlone, process, clocks
  <2>2. worker = "dead" \/ (shown.status = "starting" /\ late)
      BY <1>0, <1>3 DEF InspectorSuspects, ShownAlive
  <2> QED BY <1>0, <2>1, <2>2 DEF LateIsStarted, ViewInv, StartedIsShown
<1>4. SuspectsAreLost'
    BY <1>2, <1>3, ProcessSteps, SuspicionSteps DEF SuspectsAreLost
<1>5. OnlyLostRunsAreReconciled'
    BY <1>2, ProcessSteps, SuspicionSteps DEF OnlyLostRunsAreReconciled, SuspectsAreLost
<1>6. SlowIsLate'
    BY <1>2, SuspicionSteps DEF SlowIsLate
<1> QED
    BY <1>1, <1>4, <1>5, <1>6

(* A client ends a run only for a worker that is gone, or that had not      *)
(* recorded WORKER_STARTED when the startup grace was over.                 *)
THEOREM LostRunsAreReconciled == Spec => []OnlyLostRunsAreReconciled
<1>1. Init => ReconcileInv
    BY DEF Init, ReconcileInv, LateIsStarted, SlowIsLate, SuspectsAreLost, OnlyLostRunsAreReconciled
<1>2. RunInv /\ ViewInv /\ ReconcileInv /\ [Next]_vars => ReconcileInv'
    BY NextReconcile DEF RunInv
<1>3. ReconcileInv => OnlyLostRunsAreReconciled
    BY DEF ReconcileInv
<1> QED
    BY <1>1, <1>2, <1>3, RunInvariant, ViewInvariant, PTL DEF Spec
-----------------------------------------------------------------------------
(* A step of ManagedRun, as the life cycle sees it. *)
LifeCycleStep == [LifeCycle!LifeCycleNext]_(LifeCycle!lifecycle)

(* What writes no event and leaves worker and claim alone is not seen. *)
LEMMA UnseenSteps ==
    ASSUME run'.status = run.status, run'.released = run.released, UNCHANGED <<worker, claim>>
    PROVE  LifeCycleStep
    BY DEF LifeCycleStep, LifeCycle!lifecycle

(* The worker may go unnoticed at any moment. *)
LEMMA VanishingSteps ==
    ASSUME worker = "alive", worker' = "dead", UNCHANGED <<run, claim>>
    PROVE  LifeCycleStep
    BY DEF LifeCycleStep, LifeCycle!LifeCycleNext, LifeCycle!Vanish

(* A live worker, or an operator after the end, records a release that is   *)
(* not recorded yet, and may give the claim back.                           *)
LEMMA ReleasingSteps ==
    ASSUME LifeCycleInv, run' = Released(run), UNCHANGED worker,
           claim' = claim \/ Unclaim,
           worker = "alive" \/ RunOver(run)
    PROVE  LifeCycleStep
<1>1. run'.status = run.status /\ run'.released = TRUE
    BY EventTypes DEF LifeCycleInv, TypeOK, Status, Finished
<1>2. run.released \in BOOLEAN
    BY DEF LifeCycleInv, TypeOK, RunState
<1>3. claim' = claim \/ (claim = "held" /\ claim' = "free")
    BY DEF Unclaim
<1>4. CASE run.released = FALSE
  <2>1. LifeCycle!Release
      BY <1>1, <1>3, <1>4 DEF LifeCycle!Release, LifeCycle!KeepOrGiveBack, LifeCycle!GiveBack,
         LifeCycle!Finished, RunOver, Finished
  <2> QED BY <2>1 DEF LifeCycleStep, LifeCycle!LifeCycleNext
<1>5. CASE run.released = TRUE /\ claim' = claim
    BY <1>1, <1>5, UnseenSteps
<1>6. CASE run.released = TRUE /\ claim = "held" /\ claim' = "free"
    BY <1>1, <1>6 DEF LifeCycleStep, LifeCycle!LifeCycleNext, LifeCycle!ReturnClaim, LifeCycle!GiveBack,
       LifeCycle!StayOrGo
<1> QED
    BY <1>2, <1>3, <1>4, <1>5, <1>6

(* Once the release is recorded, the claim goes, and the worker may as well. *)
LEMMA UnclaimingSteps ==
    ASSUME LifeCycleInv, UNCHANGED run,
           claim' = claim \/ (run.released /\ Unclaim),
           worker' = worker \/ (worker = "alive" /\ worker' = "dead")
    PROVE  LifeCycleStep
<1>1. CASE claim' = claim
    BY <1>1, UnseenSteps, VanishingSteps
<1>2. CASE run.released /\ claim = "held" /\ claim' = "free"
    BY <1>2 DEF LifeCycleStep, LifeCycle!LifeCycleNext, LifeCycle!ReturnClaim, LifeCycle!GiveBack,
       LifeCycle!StayOrGo
<1> QED
    BY <1>1, <1>2 DEF Unclaim

(* A run that is not over ends as its live worker says, if that has started *)
(* it; otherwise it has failed.                                             *)
LEMMA FinishingSteps ==
    ASSUME LifeCycleInv, NEW status \in Finished, run' = FinishedAs(run, status), ~RunOver(run),
           (worker = "alive" /\ run.status # "starting") \/ status = "failed",
           claim' = claim \/ (run.released /\ Unclaim),
           worker' = worker \/ worker' = "dead"
    PROVE  LifeCycleStep
<1>1. run'.status = status /\ run'.released = run.released
    BY EventTypes DEF LifeCycleInv, TypeOK, Status
<1>2. run.status \in {"starting", "running", "stopping"}
    BY DEF LifeCycleInv, TypeOK, RunState, Status, Active, RunOver
<1>3. claim' = claim \/ (run.released /\ claim = "held" /\ claim' = "free")
    BY DEF Unclaim
<1>4. LifeCycle!Finish
    BY <1>1, <1>2, <1>3 DEF LifeCycle!Finish, LifeCycle!KeepOrGiveBack, LifeCycle!GiveBack,
       LifeCycle!StayOrGo, LifeCycle!Finished, Finished
<1> QED
    BY <1>4 DEF LifeCycleStep, LifeCycle!LifeCycleNext

(* A request to stop reaches a run that is running, or changes nothing. *)
LEMMA StoppingSteps ==
    ASSUME LifeCycleInv, StartedIsShown, worker = "alive", pc \notin {"open", "boot"},
           NEW status, NEW next, AskToStop(status, next), UNCHANGED claim
    PROVE  LifeCycleStep
<1> run \in RunState /\ run.status \notin {"starting"}
    BY DEF LifeCycleInv, TypeOK, StartedIsShown
<1>1. run' = run \/ run' = Stopping(run)
    BY DEF AskToStop, Quietly, WorkerWrites, Write
<1>0. UNCHANGED worker
    BY DEF AskToStop, GoTo, Block
<1>2. CASE run.status = "running" /\ run' = Stopping(run)
  <2>1. run'.status = "stopping" /\ run'.released = run.released
      BY <1>2 DEF Stopping, RunOver, Finished, RunState
  <2> QED BY <1>0, <1>2, <2>1 DEF LifeCycleStep, LifeCycle!LifeCycleNext, LifeCycle!AskedToStop
<1>3. CASE run' = run
    BY <1>0, <1>3, UnseenSteps
<1>4. CASE run.status # "running" /\ run' = Stopping(run)
  <2>1. run'.status = run.status /\ run'.released = run.released
      BY <1>4 DEF Stopping, RunOver, Finished, RunState, Status, Active
  <2> QED BY <1>0, <2>1, UnseenSteps
<1> QED
    BY <1>1, <1>2, <1>3, <1>4

(* ManagedRun implements RunLifeCycle: whatever controller, clients and      *)
(* operator do and whenever the worker is killed, every step is one the life *)
(* of a run allows then, or is not seen from outside.                        *)
THEOREM RunsKeepTheLifeCycle == Spec => LifeCycleSpec
<1>1. Init => LifeCycle!LifeCycleInit
    BY DEF Init, LifeCycle!LifeCycleInit
<1>2. LifeCycleInv /\ ViewInv /\ [Next]_vars => [LifeCycle!LifeCycleNext]_(LifeCycle!lifecycle)
  <2> SUFFICES ASSUME LifeCycleInv, ViewInv, [Next]_vars PROVE LifeCycleStep
      BY DEF LifeCycleStep
  <2> /\ run \in RunState /\ final \in Finished \union {"none"} /\ StartedIsShown /\ CopiesLagBehind
      /\ "failed" \in Finished /\ "cancelled" \in Finished /\ "expired" \in Finished /\ FinalIsKnown
      BY DEF LifeCycleInv, TypeOK, ViewInv, Finished
  <2> USE DEF journal, process, GoTo, Exit, Block, Write, WorkerWrites, Quietly, Refresh
  <2>1. CASE worker = "alive" /\ (OpenRun \/ TakeResult \/ CheckGrace)
      BY <2>1, UnseenSteps, VanishingSteps DEF OpenRun, TakeResult, CheckGrace
  <2>2. CASE worker = "alive" /\ StartWorker
    <3>1. CASE run.status = "starting"
      <4>1. /\ run'.status = "running" /\ run'.released = run.released
            /\ UNCHANGED <<worker, claim>>
          BY <2>2, <3>1 DEF StartWorker, RunState
      <4> QED BY <2>2, <3>1, <4>1 DEF LifeCycleStep, LifeCycle!LifeCycleNext, LifeCycle!Begin
    <3>2. CASE run.status # "starting"
        BY <2>2, <3>2, VanishingSteps DEF StartWorker
    <3> QED BY <3>1, <3>2
  <2>3. CASE worker = "alive" /\ LoadController
      BY <2>3, UnseenSteps, ReleasingSteps DEF LoadController
  <2>4. CASE worker = "alive" /\ LoadFailed
    <3>1. CASE RunOver(run)
        BY <2>4, <3>1, VanishingSteps DEF LoadFailed
    <3>2. CASE ~RunOver(run)
        BY <2>4, <3>2, FinishingSteps DEF LoadFailed, LifeCycleInv, FailedLoadIsReleased
    <3> QED BY <3>1, <3>2
  <2>5. CASE worker = "alive" /\ (ProcessCommands \/ CheckDeadlines \/ TakeSnapshot)
      BY <2>5, UnseenSteps, StoppingSteps DEF ProcessCommands, CheckDeadlines, TakeSnapshot
  <2>6. CASE worker = "alive" /\ RecordRelease
      BY <2>6, UnseenSteps, ReleasingSteps DEF RecordRelease, RecordConfirmed
  <2>7. CASE worker = "alive" /\ FinishRun
    <3>1. run.status # "starting" /\ final \in Finished
        BY <2>7 DEF FinishRun, StartedIsShown, FinalIsKnown
    <3> QED BY <2>7, <3>1, UnseenSteps, FinishingSteps DEF FinishRun
  <2>8. CASE worker = "alive" /\ CleanUp
      BY <2>8, UnseenSteps, ReleasingSteps DEF CleanUp, RecordConfirmed
  <2>9. CASE worker = "alive" /\ ReleaseClaims
      BY <2>9, UnclaimingSteps DEF ReleaseClaims, CopiesLagBehind
  <2>10. CASE Signal
      BY <2>10, StoppingSteps DEF Signal
  <2>11. CASE EngineActs \/ EngineReturns \/ EngineRaises
      BY <2>11, UnseenSteps DEF EngineActs, EngineReturns, EngineRaises
  <2>12. CASE SendStop
      BY <2>12, UnseenSteps DEF SendStop
  <2>13. ASSUME NEW i \in Inspector, Inspect(i) PROVE LifeCycleStep
    <3>1. CASE InspectorSuspects(i) \/ InspectorOpens(i) \/ InspectorRecordsError(i)
        BY <3>1, UnseenSteps DEF InspectorSuspects, InspectorOpens, InspectorRecordsError, InspectorAlone
    <3>2. CASE InspectorFinishesRun(i)
        BY <3>2, UnseenSteps, FinishingSteps DEF InspectorFinishesRun, InspectorAlone
    <3>3. CASE InspectorReloads(i)
        BY <3>3, UnclaimingSteps DEF InspectorReloads, InspectorAlone, CopiesLagBehind
    <3> QED BY <2>13, <3>1, <3>2, <3>3 DEF Inspect
  <2>14. CASE ConfirmReleased
    <3>1. RunOver(run)
        BY <2>14 DEF ConfirmReleased, ShownActive, LifeCycleInv, TypeOK, RunState, Status, ViewInv,
           ShownEndIsTheEnd, RunOver
    <3>2. (run' = run /\ run.released) \/ run' = Released(run)
        BY <2>14 DEF ConfirmReleased
    <3> QED BY <2>14, <3>1, <3>2, UnclaimingSteps, ReleasingSteps DEF ConfirmReleased, InspectorAlone
  <2>15. CASE OtherRunClaims
    <3>1. run.released /\ claim \in {"held", "free"} /\ claim' = "other" /\ UNCHANGED <<run, worker>>
        BY <2>15 DEF OtherRunClaims, InspectorAlone, LifeCycleInv, ClaimsQuarantined, CopiesLagBehind
    <3> QED BY <3>1 DEF LifeCycleStep, LifeCycle!LifeCycleNext, LifeCycle!TakenOver
  <2>16. CASE Elapse
      BY <2>16, UnseenSteps DEF Elapse, RuntimeElapses, GraceElapses, StartupGraceElapses
  <2>17. CASE Kill
      BY <2>17, VanishingSteps DEF Kill, Die
  <2>18. CASE KillFinishing
    <3>1. /\ run.status # "starting" /\ final \in Finished /\ ~RunOver(run)
          /\ worker = "alive" /\ worker' = "dead" /\ run' = FinishedAs(run, final) /\ UNCHANGED claim
        BY <2>18 DEF KillFinishing, Die, StartedIsShown, FinalIsKnown
    <3> QED BY <3>1, FinishingSteps
  <2>19. CASE UNCHANGED vars
      BY <2>19, UnseenSteps DEF vars
  <2> QED
      BY <2>1, <2>2, <2>3, <2>4, <2>5, <2>6, <2>7, <2>8, <2>9, <2>10, <2>11, <2>12, <2>13, <2>14, <2>15,
         <2>16, <2>17, <2>18, <2>19 DEF Next, Coordinate
<1> QED
    BY <1>1, <1>2, RunInvariant, ViewInvariant, PTL DEF Spec, RunInv, LifeCycleSpec, LifeCycle!LifeCycleSpec
===========================================================================
