--------------------------- MODULE StartRunProofs ---------------------------
(***************************************************************************)
(* Proofs about start_run(), for any number of calls, keys and resources,  *)
(* failing and killed at any step, and for workers that end at any moment. *)
(***************************************************************************)
EXTENDS StartRun, TLAPS

(* The initial states satisfy both invariants. *)
LEMMA InitStartInv == Init => StartInv /\ UndoInv
<1> SUFFICES ASSUME Init PROVE StartInv /\ UndoInv
    OBVIOUS
<1> QED
    BY StarterAssumption DEF Init, StartInv, UndoInv, TypeOK, MappingIsOwned, Owns, WorkersKeepStep, FilesKeepStep,
       ClaimsAreHeld, Holds, UndoneByItsCall, TracesAreReadable, FailuresAreUndone, InProgress, Done, Active

(* Every step of a call, of a worker and of the operator keeps what a call  *)
(* owns and what its run holds.                                             *)
LEMMA NextStartInv == StartInv /\ [Next]_vars => StartInv'
<1> SUFFICES ASSUME StartInv, [Next]_vars PROVE StartInv'
    OBVIOUS
<1> USE StarterAssumption DEF StartInv, TypeOK, MappingIsOwned, Owns, WorkersKeepStep, FilesKeepStep,
       ClaimsAreHeld, Holds, UndoneByItsCall, InProgress, Done, Active, table, files, histories, GoTo, OrFail, Unclaim, Takeable
<1>0. ASSUME UNCHANGED vars PROVE StartInv'
    BY <1>0 DEF vars
<1>1. ASSUME NEW s \in Starter, CreateMapping(s) PROVE StartInv'
    BY <1>1, SMTT(30) DEF CreateMapping
<1>2. ASSUME NEW s \in Starter, WaitEnds(s) PROVE StartInv'
    BY <1>2, SMTT(30) DEF WaitEnds
<1>3. ASSUME NEW s \in Starter, WaitFinds(s) PROVE StartInv'
    BY <1>3, SMTT(30) DEF WaitFinds, Inspect
<1>4. ASSUME NEW s \in Starter, AcquireClaims(s) PROVE StartInv'
    BY <1>4, SMTT(30) DEF AcquireClaims
<1>5. ASSUME NEW s \in Starter, ClaimsRefused(s) PROVE StartInv'
    BY <1>5, SMTT(30) DEF ClaimsRefused
<1>6. ASSUME NEW s \in Starter, ClaimingInterrupted(s) PROVE StartInv'
    BY <1>6, SMTT(30) DEF ClaimingInterrupted
<1>7. ASSUME NEW s \in Starter, MakeDirectory(s) PROVE StartInv'
    BY <1>7, SMTT(30) DEF MakeDirectory
<1>8. ASSUME NEW s \in Starter, CreateRun(s) PROVE StartInv'
  <2>1. CASE UNCHANGED <<made, released>> /\ GoTo(s, "abandon")
        BY <1>8, <2>1 DEF CreateRun
  <2>2. CASE /\ made' = [made EXCEPT ![s] = "run"]
             /\ released' = [released EXCEPT ![s] = Claims[s] = {}]
             /\ GoTo(s, "publish")
    <3>1. /\ released' \in [Starter -> BOOLEAN]
          /\ \A t \in Starter \ {s} : released'[t] = released[t]
          BY <2>2
    <3>2. /\ pc[s] = "create" /\ pc' = [pc EXCEPT ![s] = "publish"]
          /\ made' = [made EXCEPT ![s] = "run"]
          /\ UNCHANGED <<mapping, written, claim, acquired, status, worker, ran, overtaken, unwritten>>
          BY <1>8, <2>2 DEF CreateRun
    <3> QED BY <3>1, <3>2
  <2> QED BY <1>8, <2>1, <2>2 DEF CreateRun
<1>9. ASSUME NEW s \in Starter, PublishMapping(s) PROVE StartInv'
    BY <1>9, SMTT(30) DEF PublishMapping
<1>10. ASSUME NEW s \in Starter, SpawnWorker(s) PROVE StartInv'
    BY <1>10, SMTT(30) DEF SpawnWorker
<1>11. ASSUME NEW s \in Starter, ReadStatus(s) PROVE StartInv'
    BY <1>11, SMTT(30) DEF ReadStatus
<1>12. ASSUME NEW s \in Starter, PollWorker(s) PROVE StartInv'
    BY <1>12, SMTT(30) DEF PollWorker
<1>13. ASSUME NEW s \in Starter, RecordNeverStarted(s) PROVE StartInv'
    BY <1>13, SMTT(30) DEF RecordNeverStarted
<1>14. ASSUME NEW s \in Starter, FinishNeverStarted(s) PROVE StartInv'
    BY <1>14, SMTT(30) DEF FinishNeverStarted
<1>15. ASSUME NEW s \in Starter, ReleaseNeverStarted(s) PROVE StartInv'
    BY <1>15, SMTT(30) DEF ReleaseNeverStarted
<1>16. ASSUME NEW s \in Starter, AbandonMapping(s) PROVE StartInv'
    BY <1>16, SMTT(30) DEF AbandonMapping
<1>17. ASSUME NEW s \in Starter, CloseRun(s) PROVE StartInv'
  <2>1. CASE UNCHANGED files
        BY <1>17, <2>1 DEF CloseRun
  <2>2. CASE ~UNCHANGED files
    <3>1. /\ made' = [made EXCEPT ![s] = "run"]
          /\ released' = [released EXCEPT ![s] = TRUE]
          /\ status' \in [Starter -> Active \union {"finished"}]
          BY <1>17, <2>2 DEF CloseRun
    <3>2. /\ pc[s] = "close" /\ pc' = [pc EXCEPT ![s] = "give_back"]
          /\ UNCHANGED <<mapping, written, claim, acquired, worker, ran, overtaken, unwritten>>
          BY <1>17 DEF CloseRun
    <3> QED BY <3>1, <3>2
  <2> QED BY <2>1, <2>2
<1>18. ASSUME NEW s \in Starter, GiveClaimsBack(s) PROVE StartInv'
    BY <1>18, SMTT(30) DEF GiveClaimsBack
<1>19. ASSUME NEW s \in Starter, WaitTimesOut(s) PROVE StartInv'
    BY <1>19, SMTT(30) DEF WaitTimesOut
<1>20. ASSUME NEW s \in Starter, PollTimesOut(s) PROVE StartInv'
    BY <1>20, SMTT(30) DEF PollTimesOut
<1>21. ASSUME NEW s \in Starter, WorkerStarts(s) PROVE StartInv'
    BY <1>21, SMTT(30) DEF WorkerStarts
<1>22. ASSUME NEW s \in Starter, WorkerNeverStarts(s) PROVE StartInv'
    BY <1>22, SMTT(30) DEF WorkerNeverStarts
<1>23. ASSUME NEW s \in Starter, WorkerEnds(s) PROVE StartInv'
  <2>1. /\ worker[s] = "up" /\ s \in ran
        /\ worker' = [worker EXCEPT ![s] = "exited"]
        /\ UNCHANGED <<pc, mapping, written, acquired, made, ran, unwritten>>
        BY <1>23 DEF WorkerEnds
  <2>2. /\ overtaken \subseteq overtaken' /\ overtaken' \subseteq overtaken \union {s}
        /\ s \in overtaken' <=> pc[s] \in InProgress
        BY <1>23 DEF WorkerEnds
  <2>3. status' \in [Starter -> Active \union {"finished"}]
        BY <1>23 DEF WorkerEnds
  <2>6. WorkersKeepStep'
    <3>1. worker'[s] = "exited" /\ \A t \in Starter \ {s} : worker'[t] = worker[t]
        BY <2>1
    <3>2. \A t \in Starter \ {s} : t \in overtaken' <=> t \in overtaken
        BY <2>2
    <3>3. pc[s] \notin {"begin", "wait", "claim", "mkdir", "create", "publish", "spawn"}
        BY <2>1
    <3> HIDE DEF StartInv, TypeOK, MappingIsOwned, FilesKeepStep, ClaimsAreHeld
    <3>4. WorkersKeepStep /\ UNCHANGED <<pc, ran>>
        BY <2>1 DEF StartInv
    <3> QED BY <2>1, <2>2, <3>1, <3>2, <3>3, <3>4
  <2>7. MappingIsOwned'
        BY <2>1, <2>2
  <2>8. ASSUME released' \in [Starter -> BOOLEAN], claim' \in [Resource -> Starter \union {Nobody}]
        PROVE  TypeOK'
    <3>1. worker' \in [Starter -> {"none", "spawned", "up", "exited"}]
        BY <2>1
    <3>2. \A t \in Starter : worker'[t] # "none" => worker[t] # "none"
        BY <2>1
    <3>3. overtaken' \subseteq ran'
        BY <2>1, <2>2
    <3> QED BY <2>1, <2>3, <2>8, <3>1, <3>2, <3>3
  <2>4. CASE UNCHANGED <<released, claim>>
    <3>1. TypeOK'
        BY <2>4, <2>8
    <3>2. FilesKeepStep'
        BY <2>1, <2>4
    <3>3. ClaimsAreHeld'
        BY <2>1, <2>2, <2>4
    <3> QED BY <2>6, <2>7, <3>1, <3>2, <3>3
  <2>5. CASE released' = [released EXCEPT ![s] = TRUE] /\ Unclaim(s)
    <3>1. /\ released' \in [Starter -> BOOLEAN] /\ released'[s]
          /\ \A t \in Starter \ {s} : released'[t] = released[t]
        BY <2>5
    <3>2. /\ claim' \in [Resource -> Starter \union {Nobody}]
          /\ \A r \in Resource, t \in Starter \ {s} : claim[r] = t => claim'[r] = t
        BY <2>5
    <3>3. TypeOK'
        BY <2>8, <3>1, <3>2
    <3>5. FilesKeepStep'
        BY <2>1, <3>1
    <3>6. ClaimsAreHeld'
      <4> SUFFICES ASSUME NEW t \in Starter, Holds(t)', ~released'[t], NEW r \in Claims[t]
                   PROVE  claim'[r] = t
          OBVIOUS
      <4>1. t # s /\ Holds(t)
          BY <2>1, <2>2, <3>1
      <4> QED BY <3>1, <3>2, <4>1
    <3> QED BY <2>6, <2>7, <3>3, <3>5, <3>6
  <2> QED BY <1>23, <2>4, <2>5 DEF WorkerEnds
<1>24. ASSUME NEW s \in Starter, OperatorReleases(s) PROVE StartInv'
    BY <1>24, SMTT(30) DEF OperatorReleases
<1>25. ASSUME NEW s \in Starter, Kill(s) PROVE StartInv'
    BY <1>25, SMTT(30) DEF Kill
<1> QED
    BY <1>0, <1>1, <1>2, <1>3, <1>4, <1>5, <1>6, <1>7, <1>8, <1>9, <1>10, <1>11, <1>12, <1>13, <1>14, <1>15, <1>16, <1>17, <1>18, <1>19, <1>20, <1>21, <1>22, <1>23, <1>24, <1>25 DEF Next, Start, Deadline

(* ... and what makes an undo complete: a call that is not over knows       *)
(* everything it has left on disk, unless it failed to write a claim.       *)
LEMMA NextUndoInv == StartInv /\ UndoInv /\ [Next]_vars => UndoInv'
<1> SUFFICES ASSUME StartInv, UndoInv, [Next]_vars PROVE UndoInv'
    OBVIOUS
<1> USE StarterAssumption DEF StartInv, TypeOK, MappingIsOwned, Owns, WorkersKeepStep, FilesKeepStep,
       UndoInv, TracesAreReadable, FailuresAreUndone, InProgress, Done, Active,
       table, files, histories, GoTo, OrFail, Unclaim, Takeable
<1>0. ASSUME UNCHANGED vars PROVE UndoInv'
    BY <1>0 DEF vars
<1>1. ASSUME NEW s \in Starter, CreateMapping(s) PROVE UndoInv'
    BY <1>1, SMTT(30) DEF CreateMapping
<1>2. ASSUME NEW s \in Starter, WaitEnds(s) PROVE UndoInv'
    BY <1>2, SMTT(30) DEF WaitEnds
<1>3. ASSUME NEW s \in Starter, WaitFinds(s) PROVE UndoInv'
    BY <1>3, SMTT(30) DEF WaitFinds, Inspect
<1>4. ASSUME NEW s \in Starter, AcquireClaims(s) PROVE UndoInv'
    BY <1>4, SMTT(30) DEF AcquireClaims
<1>5. ASSUME NEW s \in Starter, ClaimsRefused(s) PROVE UndoInv'
    BY <1>5, SMTT(30) DEF ClaimsRefused
<1>6. ASSUME NEW s \in Starter, ClaimingInterrupted(s) PROVE UndoInv'
    BY <1>6, SMTT(30) DEF ClaimingInterrupted
<1>7. ASSUME NEW s \in Starter, MakeDirectory(s) PROVE UndoInv'
    BY <1>7, SMTT(30) DEF MakeDirectory
<1>8. ASSUME NEW s \in Starter, CreateRun(s) PROVE UndoInv'
    BY <1>8, SMTT(30) DEF CreateRun
<1>9. ASSUME NEW s \in Starter, PublishMapping(s) PROVE UndoInv'
    BY <1>9, SMTT(30) DEF PublishMapping
<1>10. ASSUME NEW s \in Starter, SpawnWorker(s) PROVE UndoInv'
    BY <1>10, SMTT(30) DEF SpawnWorker
<1>11. ASSUME NEW s \in Starter, ReadStatus(s) PROVE UndoInv'
    BY <1>11, SMTT(30) DEF ReadStatus
<1>12. ASSUME NEW s \in Starter, PollWorker(s) PROVE UndoInv'
    BY <1>12, SMTT(30) DEF PollWorker
<1>13. ASSUME NEW s \in Starter, RecordNeverStarted(s) PROVE UndoInv'
    BY <1>13, SMTT(30) DEF RecordNeverStarted
<1>14. ASSUME NEW s \in Starter, FinishNeverStarted(s) PROVE UndoInv'
    BY <1>14, SMTT(30) DEF FinishNeverStarted
<1>15. ASSUME NEW s \in Starter, ReleaseNeverStarted(s) PROVE UndoInv'
    BY <1>15, SMTT(30) DEF ReleaseNeverStarted
<1>16. ASSUME NEW s \in Starter, AbandonMapping(s) PROVE UndoInv'
    BY <1>16, SMTT(30) DEF AbandonMapping
<1>17. ASSUME NEW s \in Starter, CloseRun(s) PROVE UndoInv'
    BY <1>17, SMTT(30) DEF CloseRun
<1>18. ASSUME NEW s \in Starter, GiveClaimsBack(s) PROVE UndoInv'
    BY <1>18, SMTT(30) DEF GiveClaimsBack
<1>19. ASSUME NEW s \in Starter, WaitTimesOut(s) PROVE UndoInv'
    BY <1>19, SMTT(30) DEF WaitTimesOut
<1>20. ASSUME NEW s \in Starter, PollTimesOut(s) PROVE UndoInv'
    BY <1>20, SMTT(30) DEF PollTimesOut
<1>21. ASSUME NEW s \in Starter, WorkerStarts(s) PROVE UndoInv'
    BY <1>21, SMTT(30) DEF WorkerStarts
<1>22. ASSUME NEW s \in Starter, WorkerNeverStarts(s) PROVE UndoInv'
    BY <1>22, SMTT(30) DEF WorkerNeverStarts
<1>23. ASSUME NEW s \in Starter, WorkerEnds(s) PROVE UndoInv'
    BY <1>23, SMTT(30) DEF WorkerEnds
<1>24. ASSUME NEW s \in Starter, OperatorReleases(s) PROVE UndoInv'
    BY <1>24, SMTT(30) DEF OperatorReleases
<1>25. ASSUME NEW s \in Starter, Kill(s) PROVE UndoInv'
    BY <1>25, SMTT(30) DEF Kill
<1> QED
    BY <1>0, <1>1, <1>2, <1>3, <1>4, <1>5, <1>6, <1>7, <1>8, <1>9, <1>10, <1>11, <1>12, <1>13, <1>14, <1>15, <1>16, <1>17, <1>18, <1>19, <1>20, <1>21, <1>22, <1>23, <1>24, <1>25 DEF Next, Start, Deadline

(* For every set of calls the inductive invariant holds throughout: a call  *)
(* owns its mapping until it abandons it, a run its claims until they are   *)
(* released.                                                                *)
THEOREM StartInvariant == Spec => []StartInv
<1>1. Init => StartInv
    BY InitStartInv
<1>2. StartInv /\ [Next]_vars => StartInv'
    BY NextStartInv
<1> QED
    BY <1>1, <1>2, PTL DEF Spec

(* An idempotency key starts one worker at most, whatever is killed, fails  *)
(* or is repeated, for its mapping can name one run only: not counting runs *)
(* that were over before the call that started them had come back.          *)
THEOREM OneWorkerPerKey == Spec => []StartsOnce
<1>1. StartInv => StartsOnce
  <2> SUFFICES ASSUME StartInv, NEW a \in ran \ overtaken, NEW b \in ran \ overtaken, KeyOf[a] = KeyOf[b] PROVE a = b
      BY DEF StartsOnce
  <2>1. mapping[KeyOf[a]] = a /\ mapping[KeyOf[b]] = b
      BY DEF StartInv, TypeOK, MappingIsOwned, Owns
  <2> QED BY <2>1
<1> QED
    BY <1>1, StartInvariant, PTL

(* A run whose worker has begun holds all its claims, alone, until their    *)
(* release is recorded: no start, retry or undo takes one away, but for the *)
(* undo of its own call after it was over.                                  *)
THEOREM ClaimsOutliveStarters == Spec => []StartedRunsKeepClaims
<1>1. StartInv => StartedRunsKeepClaims
    BY DEF StartInv, TypeOK, ClaimsAreHeld, Holds, StartedRunsKeepClaims
<1> QED
    BY <1>1, StartInvariant, PTL

(* A failed start leaves nothing on disk that no later call could read, but *)
(* for the claims of a call that could not write all of them; a kill may.   *)
THEOREM FailedStartsAreUndone == Spec => []FailuresAreUndone
<1>1. Init => UndoInv
    BY InitStartInv
<1>2. StartInv /\ UndoInv /\ [Next]_vars => UndoInv'
    BY NextUndoInv
<1>3. UndoInv => FailuresAreUndone
    BY DEF UndoInv
<1> QED
    BY <1>1, <1>2, <1>3, StartInvariant, PTL DEF Spec
-----------------------------------------------------------------------------
(* Until the worker of a run has begun, its release is recorded only with    *)
(* its end, which no call records while it goes on.                          *)
LEMMA NextFresh == StartInv /\ FreshRunsAreNotReleased /\ [Next]_vars => FreshRunsAreNotReleased'
<1> SUFFICES ASSUME StartInv, FreshRunsAreNotReleased, [Next]_vars PROVE FreshRunsAreNotReleased'
    OBVIOUS
<1> DEFINE Goal == FreshRunsAreNotReleased'
<1> USE StarterAssumption DEF StartInv, TypeOK, FreshRunsAreNotReleased, WorkersKeepStep, FilesKeepStep, InProgress,
       Active, table, files, histories, GoTo, OrFail
<1>0. CASE UNCHANGED vars
    BY <1>0 DEF vars
<1>1. ASSUME NEW s \in Starter, CreateMapping(s) \/ WaitEnds(s) \/ WaitTimesOut(s) PROVE Goal
    BY <1>1 DEF CreateMapping, WaitEnds, WaitTimesOut
<1>2. ASSUME NEW s \in Starter, WaitFinds(s) PROVE Goal
  <2>1. PICK existing : Inspect(existing)
        BY <1>2 DEF WaitFinds
  <2>2. \A t \in Starter : status'[t] = "starting" => status[t] = "starting"
        BY <2>1 DEF Inspect
  <2>3. pc' = [pc EXCEPT ![s] = "reused"] /\ UNCHANGED <<released, worker>>
        BY <1>2 DEF WaitFinds
  <2> QED BY <2>2, <2>3
<1>3. ASSUME NEW s \in Starter, AcquireClaims(s) \/ ClaimsRefused(s) \/ ClaimingInterrupted(s) PROVE Goal
    BY <1>3 DEF AcquireClaims, ClaimsRefused, ClaimingInterrupted
<1>4. ASSUME NEW s \in Starter, MakeDirectory(s) PROVE Goal
    BY <1>4 DEF MakeDirectory
<1>5. ASSUME NEW s \in Starter, CreateRun(s) PROVE Goal
  <2>1. CASE UNCHANGED <<made, released>> /\ GoTo(s, "abandon")
        BY <1>5, <2>1 DEF CreateRun
  <2>2. CASE released' = [released EXCEPT ![s] = Claims[s] = {}] /\ GoTo(s, "publish")
    <3>1. \A t \in Starter \ {s} : released'[t] = released[t] /\ pc'[t] = pc[t]
          BY <2>2
    <3>2. released'[s] <=> Claims[s] = {}
          BY <2>2
    <3>3. UNCHANGED <<status, worker>>
          BY <1>5 DEF CreateRun
    <3> QED BY <3>1, <3>2, <3>3
  <2> QED BY <1>5, <2>1, <2>2 DEF CreateRun
<1>6. ASSUME NEW s \in Starter, PublishMapping(s) \/ SpawnWorker(s) PROVE Goal
    BY <1>6 DEF PublishMapping, SpawnWorker
<1>7. ASSUME NEW s \in Starter, ReadStatus(s) \/ PollWorker(s) \/ PollTimesOut(s) PROVE Goal
    BY <1>7 DEF ReadStatus, PollWorker, PollTimesOut
<1>8. ASSUME NEW s \in Starter, RecordNeverStarted(s) PROVE Goal
    BY <1>8 DEF RecordNeverStarted
<1>9. ASSUME NEW s \in Starter, FinishNeverStarted(s) \/ ReleaseNeverStarted(s) PROVE Goal
    BY <1>9 DEF FinishNeverStarted, ReleaseNeverStarted
<1>10. ASSUME NEW s \in Starter, AbandonMapping(s) \/ GiveClaimsBack(s) PROVE Goal
    BY <1>10 DEF AbandonMapping, GiveClaimsBack
<1>11. ASSUME NEW s \in Starter, CloseRun(s) PROVE Goal
  <2>1. /\ pc[s] = "close" /\ worker[s] # "spawned" /\ pc' = [pc EXCEPT ![s] = "give_back"] /\ UNCHANGED worker
        BY <1>11 DEF CloseRun
  <2>2. \A t \in Starter \ {s} : released'[t] = released[t] /\ status'[t] = status[t]
        BY <1>11 DEF CloseRun
  <2> QED BY <2>1, <2>2
<1>12. ASSUME NEW s \in Starter, WorkerStarts(s) \/ WorkerNeverStarts(s) PROVE Goal
    BY <1>12 DEF WorkerStarts, WorkerNeverStarts
<1>13. ASSUME NEW s \in Starter, WorkerEnds(s) PROVE Goal
  <2>1. worker[s] = "up" /\ UNCHANGED pc /\ worker' = [worker EXCEPT ![s] = "exited"]
        BY <1>13 DEF WorkerEnds
  <2>2. \A t \in Starter \ {s} : released'[t] = released[t] /\ status'[t] = status[t]
        BY <1>13 DEF WorkerEnds
  <2> QED BY <2>1, <2>2
<1>14. ASSUME NEW s \in Starter, OperatorReleases(s) PROVE Goal
    BY <1>14 DEF OperatorReleases
<1>15. ASSUME NEW s \in Starter, Kill(s) PROVE Goal
    BY <1>15 DEF Kill
<1> QED
    BY <1>0, <1>1, <1>2, <1>3, <1>4, <1>5, <1>6, <1>7, <1>8, <1>9, <1>10, <1>11, <1>12, <1>13, <1>14, <1>15
    DEF Next, Start, Deadline

(* A step of StartRun, as the table of runs sees it. *)
TableStep == [Table!TableNext]_(Table!runTable)

(* What starts no run, ends none and forgets none lets go of one at most. *)
LEMMA AtMostOneLetsGo ==
    ASSUME NEW s \in Starter, ran \subseteq Starter, UNCHANGED <<ran, overtaken>>,
           \A t \in ran : mapping'[KeyOf[t]] = t <=> mapping[KeyOf[t]] = t,
           \A t \in ran : HasClaims(t)' => HasClaims(t),
           \A t \in ran \ {s} : HasClaims(t) => HasClaims(t)'
    PROVE  TableStep
<1> PICK holds : holds = {t \in ran : HasClaims(t)}
    OBVIOUS
<1> PICK holdsNext : holdsNext = {t \in ran' : HasClaims(t)'}
    OBVIOUS
<1> PICK begun : begun = {t \in ran : mapping[KeyOf[t]] = t}
    OBVIOUS
<1>1. {t \in ran' : mapping'[KeyOf[t]] = t} = begun
    OBVIOUS
<1>2. holdsNext = holds \/ (s \in holds /\ holdsNext = holds \ {s})
    OBVIOUS
<1>3. CASE holdsNext = holds
    BY <1>1, <1>3 DEF TableStep, Table!runTable
<1>4. CASE s \in holds /\ holdsNext = holds \ {s}
    BY <1>1, <1>4 DEF TableStep, Table!TableNext, Table!LetGo
<1> QED BY <1>2, <1>3, <1>4

(* What moves neither runs, mappings, claims nor releases is not seen. *)
LEMMA UnseenStarts ==
    ASSUME UNCHANGED <<ran, overtaken, mapping, claim, released>>
    PROVE  TableStep
    BY DEF TableStep, Table!runTable, HasClaims

(* One run's release is recorded, or its claims are removed. *)
LEMMA ReleasesLetGo ==
    ASSUME StartInv, NEW s \in Starter, UNCHANGED <<ran, overtaken, mapping>>,
           released' = [released EXCEPT ![s] = TRUE] \/ UNCHANGED released,
           Unclaim(s) \/ UNCHANGED claim
    PROVE  TableStep
<1> USE StarterAssumption DEF StartInv, TypeOK, HasClaims, Unclaim
<1>1. \A t \in ran \ {s} : HasClaims(t)' <=> HasClaims(t)
    OBVIOUS
<1>2. HasClaims(s)' => HasClaims(s)
    OBVIOUS
<1> QED BY <1>1, <1>2, AtMostOneLetsGo

(* A call that claims takes claims away only from runs that are released. *)
LEMMA ClaimsAreUnseen ==
    ASSUME StartInv, NEW s \in Starter, s \notin ran,
           UNCHANGED <<ran, overtaken, mapping, released>>,
           claim' \in [Resource -> Starter \union {Nobody}],
           \A r \in Resource : claim'[r] = claim[r] \/ (claim'[r] \in {s, Nobody} /\ Takeable(r))
    PROVE  TableStep
<1> USE StarterAssumption DEF StartInv, TypeOK, HasClaims, Takeable
<1>1. \A t \in ran : HasClaims(t)' <=> HasClaims(t)
    OBVIOUS
<1> QED BY <1>1, AtMostOneLetsGo

(* A worker that begins is the only one of its key whose run the mapping    *)
(* names, and what its run claims nobody else holds.                        *)
LEMMA BeginningsStartUp ==
    ASSUME StartInv, FreshRunsAreNotReleased, NEW s \in Starter,
           worker[s] = "spawned", status[s] = "starting", ran' = ran \union {s},
           UNCHANGED <<released, mapping, claim, overtaken>>
    PROVE  TableStep
<1> PICK holds : holds = {t \in ran : HasClaims(t)}
    OBVIOUS
<1> PICK begun : begun = {t \in ran : mapping[KeyOf[t]] = t}
    OBVIOUS
<1> USE StarterAssumption DEF StartInv, TypeOK
<1>1. released[s] <=> Claims[s] = {}
    BY DEF FreshRunsAreNotReleased
<1>2. s \notin ran
    BY DEF WorkersKeepStep
<1>3. mapping[KeyOf[s]] = s
    BY DEF MappingIsOwned, Owns
<1>4. \A r \in Claims[s] : claim[r] = s
    BY <1>1 DEF ClaimsAreHeld, Holds
<1>5. \A other \in begun : KeyOf[other] # KeyOf[s]
    BY <1>2, <1>3
<1>6. \A other \in holds : Claims[other] \intersect Claims[s] = {}
    BY <1>2, <1>4 DEF HasClaims
<1>7. {t \in ran' : HasClaims(t)'} = IF Claims[s] = {} THEN holds ELSE holds \union {s}
    BY <1>1, <1>2, <1>4 DEF HasClaims
<1>8. {t \in ran' : mapping'[KeyOf[t]] = t} = begun \union {s}
    BY <1>2, <1>3
<1>9. Table!StartUp(s)
    BY <1>5, <1>6, <1>7, <1>8 DEF Table!StartUp, Table!Disjoint
<1> QED
    BY <1>9 DEF TableStep, Table!TableNext

(* A worker that ends is over for the table, too soon or not; a release may *)
(* come with it.                                                            *)
LEMMA EndsAreSeen ==
    ASSUME StartInv, NEW s \in Starter, WorkerEnds(s)
    PROVE  TableStep
<1> PICK holds : holds = {t \in ran : HasClaims(t)}
    OBVIOUS
<1> PICK holdsNext : holdsNext = {t \in ran' : HasClaims(t)'}
    OBVIOUS
<1> PICK begun : begun = {t \in ran : mapping[KeyOf[t]] = t}
    OBVIOUS
<1>1. /\ released' = [released EXCEPT ![s] = TRUE] \/ UNCHANGED released
      /\ Unclaim(s) \/ UNCHANGED claim
      /\ UNCHANGED <<ran, mapping>>
    BY DEF WorkerEnds, table
<1>2. CASE pc[s] \notin InProgress
  <2>1. UNCHANGED overtaken
      BY <1>2 DEF WorkerEnds
  <2> QED BY <1>1, <2>1, ReleasesLetGo
<1>3. CASE pc[s] \in InProgress
  <2> USE StarterAssumption DEF StartInv, TypeOK
  <2>1. overtaken' = overtaken \union {s}
      BY <1>3 DEF WorkerEnds
  <2>2. s \in ran /\ s \notin overtaken
      BY DEF WorkerEnds, WorkersKeepStep
  <2>3. mapping[KeyOf[s]] = s
      BY <2>2 DEF MappingIsOwned, Owns
  <2>4. holdsNext \in {holds, holds \ {s}}
    <3>1. \A t \in ran \ {s} : HasClaims(t)' <=> HasClaims(t)
        BY <1>1 DEF HasClaims, Unclaim
    <3>2. HasClaims(s)' => HasClaims(s)
        BY <1>1 DEF HasClaims, Unclaim
    <3> QED BY <1>1, <3>1, <3>2
  <2>5. {t \in ran' : mapping'[KeyOf[t]] = t} = begun
      BY <1>1
  <2>6. Table!Overtake(s)
      BY <2>1, <2>2, <2>3, <2>4, <2>5 DEF Table!Overtake
  <2> QED BY <2>6 DEF TableStep, Table!TableNext
<1> QED BY <1>2, <1>3

(* Only an overtaken run is forgotten, by the call that started it. *)
LEMMA AbandonedIsForgotten ==
    ASSUME StartInv, NEW s \in Starter, AbandonMapping(s)
    PROVE  TableStep
<1> PICK begun : begun = {t \in ran : mapping[KeyOf[t]] = t}
    OBVIOUS
<1> USE StarterAssumption DEF StartInv, TypeOK
<1>1. UNCHANGED <<ran, overtaken, claim, released>>
    BY DEF AbandonMapping, files, histories
<1>2. CASE UNCHANGED mapping
    BY <1>1, <1>2, UnseenStarts
<1>3. CASE worker[s] \notin {"spawned", "up"} /\ mapping' = [mapping EXCEPT ![KeyOf[s]] = Nobody]
  <2>1. pc[s] = "abandon" /\ mapping[KeyOf[s]] = s
      BY DEF AbandonMapping, MappingIsOwned, Owns
  <2>2. {t \in ran' : mapping'[KeyOf[t]] = t} = begun \ {s}
      BY <1>1, <1>3, <2>1
  <2>3. {t \in ran' : HasClaims(t)'} = {t \in ran : HasClaims(t)}
      BY <1>1 DEF HasClaims
  <2>4. CASE s \in ran
    <3>1. s \in overtaken
        BY <1>3, <2>1, <2>4 DEF WorkersKeepStep, InProgress
    <3>2. Table!Forget(s)
        BY <1>1, <2>1, <2>2, <2>3, <2>4, <3>1 DEF Table!Forget
    <3> QED BY <3>2 DEF TableStep, Table!TableNext
  <2>5. CASE s \notin ran
    <3>1. begun \ {s} = begun
        BY <2>5
    <3> QED BY <1>1, <2>2, <2>3, <3>1 DEF TableStep, Table!runTable
  <2> QED BY <2>4, <2>5
<1> QED BY <1>2, <1>3 DEF AbandonMapping, table

(* StartRun implements RunTable: however calls interleave, fail or are      *)
(* killed, a key starts one run, which gets all its resources in one step   *)
(* from nobody, and gives them back in one step, once; only a run that was  *)
(* over before its own call had come back may be forgotten.                 *)
THEOREM StartsKeepTheTable == Spec => TableSpec
<1>1. Init => Table!TableInit /\ FreshRunsAreNotReleased
    BY DEF Init, Table!TableInit, FreshRunsAreNotReleased
<1>2. StartInv /\ FreshRunsAreNotReleased /\ [Next]_vars => FreshRunsAreNotReleased'
    BY NextFresh
<1>3. StartInv /\ FreshRunsAreNotReleased /\ [Next]_vars => [Table!TableNext]_(Table!runTable)
  <2> SUFFICES ASSUME StartInv, FreshRunsAreNotReleased, [Next]_vars PROVE TableStep
      BY DEF TableStep
  <2> USE DEF table, files, histories
  <2>1. CASE UNCHANGED vars
      BY <2>1, UnseenStarts DEF vars
  <2>2. ASSUME NEW s \in Starter, CreateMapping(s) PROVE TableStep
    <3>1. s \notin ran /\ UNCHANGED <<ran, overtaken, claim, released>>
        BY <2>2 DEF CreateMapping, StartInv, TypeOK, WorkersKeepStep
    <3>2. \A t \in ran : mapping'[KeyOf[t]] = t <=> mapping[KeyOf[t]] = t
        BY <2>2, <3>1, StarterAssumption DEF CreateMapping, StartInv, TypeOK
    <3>3. ran \subseteq Starter
        BY DEF StartInv, TypeOK
    <3> QED BY <3>1, <3>2, <3>3, AtMostOneLetsGo DEF HasClaims
  <2>3. ASSUME NEW s \in Starter,
               \/ WaitEnds(s) \/ WaitTimesOut(s) \/ MakeDirectory(s) \/ PublishMapping(s) \/ SpawnWorker(s)
               \/ ReadStatus(s) \/ PollWorker(s) \/ PollTimesOut(s) \/ FinishNeverStarted(s)
               \/ WorkerNeverStarts(s) \/ Kill(s)
        PROVE  TableStep
      BY <2>3, UnseenStarts DEF WaitEnds, WaitTimesOut, MakeDirectory, PublishMapping, SpawnWorker,
         ReadStatus, PollWorker, PollTimesOut, FinishNeverStarted, WorkerNeverStarts, Kill
  <2>4. ASSUME NEW s \in Starter, WaitFinds(s) PROVE TableStep
    <3>1. PICK existing \in Starter : existing = mapping[KeyOf[s]] /\ Inspect(existing)
        BY <2>4, StarterAssumption DEF WaitFinds, StartInv, TypeOK
    <3>2. Unclaim(existing) \/ UNCHANGED claim
        BY <3>1 DEF Inspect
    <3> QED BY <2>4, <3>2, ReleasesLetGo DEF WaitFinds
  <2>5. ASSUME NEW s \in Starter, AcquireClaims(s) \/ ClaimsRefused(s) \/ ClaimingInterrupted(s)
        PROVE  TableStep
    <3>1. s \notin ran /\ UNCHANGED <<ran, overtaken, mapping, released>>
        BY <2>5 DEF AcquireClaims, ClaimsRefused, ClaimingInterrupted, StartInv, TypeOK, WorkersKeepStep
    <3>2. /\ claim' \in [Resource -> Starter \union {Nobody}]
          /\ \A r \in Resource : claim'[r] = claim[r] \/ (claim'[r] \in {s, Nobody} /\ Takeable(r))
      <4>1. CASE AcquireClaims(s)
          BY <4>1 DEF AcquireClaims, StartInv, TypeOK
      <4>2. CASE ClaimsRefused(s)
          BY <4>2 DEF ClaimsRefused, StartInv, TypeOK
      <4>3. CASE ClaimingInterrupted(s)
          BY <4>3 DEF ClaimingInterrupted, StartInv, TypeOK
      <4> QED BY <2>5, <4>1, <4>2, <4>3
    <3> QED BY <3>1, <3>2, ClaimsAreUnseen
  <2>6. ASSUME NEW s \in Starter, CreateRun(s) PROVE TableStep
    <3>1. s \notin ran /\ UNCHANGED <<ran, overtaken, mapping, claim>>
        BY <2>6 DEF CreateRun, StartInv, TypeOK, WorkersKeepStep
    <3>2. \A t \in ran : HasClaims(t)' <=> HasClaims(t)
        BY <2>6, <3>1 DEF CreateRun, HasClaims, StartInv, TypeOK
    <3>3. ran \subseteq Starter
        BY DEF StartInv, TypeOK
    <3> QED BY <3>1, <3>2, <3>3, AtMostOneLetsGo
  <2>7. ASSUME NEW s \in Starter,
               \/ RecordNeverStarted(s) \/ ReleaseNeverStarted(s) \/ CloseRun(s) \/ GiveClaimsBack(s)
               \/ OperatorReleases(s)
        PROVE  TableStep
      BY <2>7, ReleasesLetGo DEF RecordNeverStarted, ReleaseNeverStarted, CloseRun, GiveClaimsBack, OperatorReleases
  <2>8. ASSUME NEW s \in Starter, AbandonMapping(s) PROVE TableStep
      BY <2>8, AbandonedIsForgotten
  <2>9. ASSUME NEW s \in Starter, WorkerStarts(s) PROVE TableStep
      BY <2>9, UnseenStarts, BeginningsStartUp DEF WorkerStarts
  <2>10. ASSUME NEW s \in Starter, WorkerEnds(s) PROVE TableStep
      BY <2>10, EndsAreSeen
  <2> QED
      BY <2>1, <2>2, <2>3, <2>4, <2>5, <2>6, <2>7, <2>8, <2>9, <2>10 DEF Next, Start, Deadline
<1> QED
    BY <1>1, <1>2, <1>3, StartInvariant, PTL DEF Spec, TableSpec, Table!TableSpec
=============================================================================
