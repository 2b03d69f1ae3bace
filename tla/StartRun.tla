----------------------------- MODULE StartRun -----------------------------
(***************************************************************************)
(* start_run() of src/src/jev_loop/host/service.py: several calls, each in *)
(* a process of its own, that start runs under idempotency keys and claim  *)
(* resources.  They share three things on disk: the idempotency mappings   *)
(* (created exclusively, written later), the claim files (read and written *)
(* under a lock) and the status of every run.  A call creates at most one  *)
(* run, so the call names it.  Calls may fail at every step that writes    *)
(* and may be killed between any two; the worker they spawn runs by        *)
(* itself (module ManagedRun has its life in detail).                      *)
(***************************************************************************)
CONSTANTS
    Starter,          \* calls of start_run(), and the runs they create
    Key, KeyOf,       \* (owner, project root, idempotency key), and which a call uses
    Resource, Claims, \* resource_keys of each call
    Nobody,           \* no run
    Mortal            \* the calls that may be killed, or their workers

ASSUME StarterAssumption ==
    /\ KeyOf \in [Starter -> Key] /\ Claims \in [Starter -> SUBSET Resource]
    /\ Nobody \notin Starter
    /\ Mortal \subseteq Starter

Active == {"starting", "running"}

VARIABLES
    pc,        \* where each call is
    mapping,   \* the call whose run_id the mapping file of a key is for, or Nobody
    written,   \* the keys whose mapping file can be read
    claim,     \* the run a claim file names, or Nobody
    acquired,  \* claims_acquired of each call
    made,      \* of each run: "none", "dir" (no status.json yet) or "run"
    status,    \* status.json: "starting", "running" or "finished", however it ended
    released,  \* ... and its resources_released
    worker,    \* "none", "spawned", "up" (WORKER_STARTED), "exited"
    ran,       \* history: the runs whose worker was up
    overtaken, \* ... those over before the call that started them had come back
    unwritten  \* ... and the calls that failed to write one of their claims

table == <<mapping, written>>
files == <<made, status, released>>
histories == <<ran, overtaken, unwritten>>
vars == <<pc, table, claim, acquired, files, worker, histories>>

InProgress == {"begin", "wait", "claim", "mkdir", "create", "publish", "spawn", "poll",
               "judge", "never", "never_finish", "unclaim", "abandon", "close", "give_back"}
Done == {"started", "reused", "raised", "killed"}

Init ==
    /\ pc = [s \in Starter |-> "begin"]
    /\ mapping = [k \in Key |-> Nobody] /\ written = {}
    /\ claim = [r \in Resource |-> Nobody]
    /\ acquired = [s \in Starter |-> FALSE]
    /\ made = [s \in Starter |-> "none"]
    /\ status = [s \in Starter |-> "starting"]
    /\ released = [s \in Starter |-> FALSE]
    /\ worker = [s \in Starter |-> "none"]
    /\ ran = {} /\ overtaken = {} /\ unwritten = {}

GoTo(s, place) == pc' = [pc EXCEPT ![s] = place]
(* A call is in a process of its own and may fail wherever it writes. *)
OrFail(s, place) == \E next \in {place, "abandon"} : GoTo(s, next)
(* _release_resource_claims(): another run's claim is left alone. *)
Unclaim(s) == claim' = [r \in Resource |-> IF r \in Claims[s] /\ claim[r] = s
                                           THEN Nobody ELSE claim[r]]
-----------------------------------------------------------------------------
(* Mutant: a mapping file that exists is opened all the same. *)
MutantCreateMapping(s) ==
    /\ pc[s] = "begin"
    /\ mapping' = [mapping EXCEPT ![KeyOf[s]] = s]
    /\ written' = written \ {KeyOf[s]}
    /\ GoTo(s, "claim")
    /\ UNCHANGED <<claim, acquired, files, worker, histories>>

(* os.open(O_CREAT | O_EXCL): one call per key gets through. *)
CreateMapping(s) ==
    /\ pc[s] = "begin"
    /\ IF mapping[KeyOf[s]] = Nobody
       THEN mapping' = [mapping EXCEPT ![KeyOf[s]] = s] /\ GoTo(s, "claim")
       ELSE UNCHANGED mapping /\ GoTo(s, "wait")
    /\ UNCHANGED <<written, claim, acquired, files, worker, histories>>

(* inspect_run(): a worker that is gone is recorded, after the grace of a   *)
(* run that is still starting.  (Module ManagedRun lets a live worker be    *)
(* slower than that grace.)                                                 *)
Inspect(r) ==
    /\ \/ UNCHANGED status
       \/ /\ status[r] \in Active /\ worker[r] \notin {"spawned", "up"}
          /\ status' = [status EXCEPT ![r] = "finished"]
    /\ status[r] = "running" /\ worker[r] = "exited" => status'[r] # status[r]
    /\ IF status'[r] # status[r] /\ released[r] THEN Unclaim(r) ELSE UNCHANGED claim

(* _wait_for_idempotent_start(): the mapping disappears, or its run becomes *)
(* readable, or 5 seconds elapse.                                           *)
WaitEnds(s) ==
    /\ pc[s] = "wait" /\ mapping[KeyOf[s]] = Nobody
    /\ GoTo(s, "begin")
    /\ UNCHANGED <<table, claim, acquired, files, worker, histories>>

WaitFinds(s) ==
    /\ pc[s] = "wait" /\ KeyOf[s] \in written
    /\ LET existing == mapping[KeyOf[s]] IN
       made[existing] = "run" /\ Inspect(existing)
    /\ GoTo(s, "reused")
    /\ UNCHANGED <<table, acquired, made, released, worker, histories>>

(* Mutant: the loop has no deadline. *)
MutantWaitTimesOut(s) ==
    /\ pc[s] = "wait" /\ KeyOf[s] \in written
    /\ GoTo(s, "raised")
    /\ UNCHANGED <<table, claim, acquired, files, worker, histories>>

WaitTimesOut(s) ==
    /\ pc[s] = "wait"
    /\ GoTo(s, "raised")
    /\ UNCHANGED <<table, claim, acquired, files, worker, histories>>
-----------------------------------------------------------------------------
(* Mutant: a run that is over is enough to take its claims. *)
MutantTakeable(r) ==
    claim[r] # Nobody =>
        made[claim[r]] = "run" /\ (released[claim[r]] \/ status[claim[r]] = "finished")

(* A claim is passed over only when its run can be read and is released. *)
Takeable(r) ==
    claim[r] # Nobody => made[claim[r]] = "run" /\ released[claim[r]]

(* Under the lock, so other claims do not move; stale claims are removed    *)
(* first, then every claim is written.  A failure or a kill in between      *)
(* leaves the claims written so far, and claims_acquired unset.             *)
AcquireClaims(s) ==
    /\ pc[s] = "claim"
    /\ \A r \in Claims[s] : Takeable(r)
    /\ claim' = [r \in Resource |-> IF r \in Claims[s] THEN s ELSE claim[r]]
    /\ acquired' = [acquired EXCEPT ![s] = TRUE]
    /\ GoTo(s, "mkdir")
    /\ UNCHANGED <<table, files, worker, histories>>

ClaimsRefused(s) ==
    /\ pc[s] = "claim"
    /\ \E r \in Claims[s] : ~Takeable(r)
    /\ \E stale \in SUBSET {r \in Claims[s] : Takeable(r)} :
           claim' = [r \in Resource |-> IF r \in stale THEN Nobody ELSE claim[r]]
    /\ GoTo(s, "abandon")
    /\ UNCHANGED <<table, acquired, files, worker, histories>>

ClaimingInterrupted(s) ==
    /\ pc[s] = "claim" /\ \A r \in Claims[s] : Takeable(r)
    /\ \E some \in SUBSET Claims[s] :
           claim' = [r \in Resource |-> IF r \in some THEN s
                                        ELSE IF r \in Claims[s] THEN Nobody ELSE claim[r]]
    /\ \/ s \in Mortal /\ GoTo(s, "killed") /\ UNCHANGED unwritten
       \/ GoTo(s, "abandon") /\ unwritten' = unwritten \union {s}
    /\ UNCHANGED <<table, acquired, files, worker, ran, overtaken>>
-----------------------------------------------------------------------------
MakeDirectory(s) ==
    /\ pc[s] = "mkdir"
    /\ \E exists \in {"none", "dir"} : made' = [made EXCEPT ![s] = exists]
    /\ OrFail(s, "create")
    /\ made'[s] = "none" => pc'[s] = "abandon"
    /\ UNCHANGED <<table, claim, acquired, status, released, worker, histories>>

(* RUN_CREATED; a run that claims nothing counts as released. *)
CreateRun(s) ==
    /\ pc[s] = "create"
    /\ \/ /\ made' = [made EXCEPT ![s] = "run"]
          /\ released' = [released EXCEPT ![s] = Claims[s] = {}]
          /\ GoTo(s, "publish")
       \/ UNCHANGED <<made, released>> /\ GoTo(s, "abandon")
    /\ UNCHANGED <<table, claim, acquired, status, worker, histories>>

(* The mapping file is written, or the write fails. *)
PublishMapping(s) ==
    /\ pc[s] = "publish"
    /\ \/ written' = written \union {KeyOf[s]} /\ GoTo(s, "spawn")
       \/ UNCHANGED written /\ GoTo(s, "abandon")
    /\ UNCHANGED <<mapping, claim, acquired, files, worker, histories>>

SpawnWorker(s) ==
    /\ pc[s] = "spawn"
    /\ \/ worker' = [worker EXCEPT ![s] = "spawned"] /\ GoTo(s, "poll")
       \/ UNCHANGED worker /\ GoTo(s, "abandon")
    /\ UNCHANGED <<table, claim, acquired, files, histories>>

(* The loop reads the status and, while it is still "starting", polls the   *)
(* worker, over and over, at most for 5 seconds.                            *)
ReadStatus(s) ==
    /\ pc[s] \in {"poll", "judge"}
    /\ OrFail(s, IF status[s] = "starting" THEN "judge" ELSE "started")
    /\ UNCHANGED <<table, claim, acquired, files, worker, histories>>

(* The worker is gone: its run may have begun and ended since it was read.  *)
PollWorker(s) ==
    /\ pc[s] = "judge" /\ worker[s] = "exited"
    /\ GoTo(s, "never")
    /\ UNCHANGED <<table, claim, acquired, files, worker, histories>>

PollTimesOut(s) ==
    /\ pc[s] \in {"poll", "judge"}
    /\ GoTo(s, "started")
    /\ UNCHANGED <<table, claim, acquired, files, worker, histories>>

(* "worker_never_started": RESOURCES_RELEASED, then RUN_FINISHED, which the *)
(* reducer refuses when the run is over.                                    *)
RecordNeverStarted(s) ==
    /\ pc[s] = "never"
    /\ released' = [released EXCEPT ![s] = TRUE]
    /\ OrFail(s, "never_finish")
    /\ UNCHANGED <<table, claim, acquired, made, status, worker, histories>>

FinishNeverStarted(s) ==
    /\ pc[s] = "never_finish"
    /\ IF status[s] = "finished"
       THEN UNCHANGED status /\ GoTo(s, "abandon")
       ELSE status' = [status EXCEPT ![s] = "finished"] /\ OrFail(s, "unclaim")
    /\ UNCHANGED <<table, claim, acquired, made, released, worker, histories>>

ReleaseNeverStarted(s) ==
    /\ pc[s] = "unclaim"
    /\ Unclaim(s)
    /\ OrFail(s, "started")
    /\ UNCHANGED <<table, acquired, files, worker, histories>>
-----------------------------------------------------------------------------
(* Mutant: the mapping is left behind. *)
MutantAbandonMapping(s) ==
    /\ pc[s] = "abandon"
    /\ GoTo(s, IF worker[s] \in {"spawned", "up"} THEN "raised" ELSE "close")
    /\ UNCHANGED <<table, claim, acquired, files, worker, histories>>

(* The except clause: nothing is undone while the worker may be running. *)
AbandonMapping(s) ==
    /\ pc[s] = "abandon"
    /\ IF worker[s] \in {"spawned", "up"}
       THEN UNCHANGED table /\ GoTo(s, "raised")
       ELSE /\ mapping' = [mapping EXCEPT ![KeyOf[s]] = Nobody]
            /\ written' = written \ {KeyOf[s]}
            /\ GoTo(s, "close")
    /\ UNCHANGED <<claim, acquired, files, worker, histories>>

(* "host_start_failed", when there is a journal; an exception is ignored. *)
CloseRun(s) ==
    /\ pc[s] = "close"
    /\ \/ /\ made[s] # "none"
          /\ made' = [made EXCEPT ![s] = "run"]
          /\ released' = [released EXCEPT ![s] = TRUE]
          /\ \/ status' = [status EXCEPT ![s] = "finished"]
             \/ UNCHANGED status
       \/ UNCHANGED files
    /\ GoTo(s, "give_back")
    /\ UNCHANGED <<table, claim, acquired, worker, histories>>

GiveClaimsBack(s) ==
    /\ pc[s] = "give_back"
    /\ IF acquired[s] THEN Unclaim(s) ELSE UNCHANGED claim
    /\ GoTo(s, "raised")
    /\ UNCHANGED <<table, acquired, files, worker, histories>>
-----------------------------------------------------------------------------
WorkerStarts(s) ==
    /\ worker[s] = "spawned"
    /\ IF status[s] = "starting"
       THEN /\ status' = [status EXCEPT ![s] = "running"]
            /\ worker' = [worker EXCEPT ![s] = "up"]
            /\ ran' = ran \union {s}
       ELSE worker' = [worker EXCEPT ![s] = "exited"] /\ UNCHANGED <<status, ran>>
    /\ UNCHANGED <<pc, table, claim, acquired, made, released, overtaken, unwritten>>

WorkerNeverStarts(s) ==
    /\ worker[s] = "spawned"
    /\ worker' = [worker EXCEPT ![s] = "exited"]
    /\ UNCHANGED <<pc, table, claim, acquired, files, histories>>

(* The worker ends its run, with the claims if it recorded their release,   *)
(* or is killed; at any moment, so perhaps before its starter has looked.   *)
WorkerEnds(s) ==
    /\ worker[s] = "up"
    /\ worker' = [worker EXCEPT ![s] = "exited"]
    /\ overtaken' = IF pc[s] \in InProgress THEN overtaken \union {s} ELSE overtaken
    /\ \/ /\ status' = [status EXCEPT ![s] = "finished"]
          /\ released' = [released EXCEPT ![s] = TRUE]
          /\ Unclaim(s)
       \/ status' = [status EXCEPT ![s] = "finished"] /\ UNCHANGED <<released, claim>>
       \/ s \in Mortal /\ UNCHANGED <<status, released, claim>>
    /\ UNCHANGED <<pc, table, acquired, made, ran, unwritten>>

(* confirm_resources_released(): an operator has checked the device. *)
OperatorReleases(s) ==
    /\ made[s] = "run" /\ status[s] = "finished" /\ ~released[s]
    /\ released' = [released EXCEPT ![s] = TRUE]
    /\ Unclaim(s)
    /\ UNCHANGED <<pc, table, acquired, made, status, worker, histories>>

Kill(s) ==
    /\ s \in Mortal /\ pc[s] \in InProgress
    /\ GoTo(s, "killed")
    /\ UNCHANGED <<table, claim, acquired, files, worker, histories>>

Start(s) ==
    \/ CreateMapping(s) \/ WaitEnds(s) \/ WaitFinds(s)
    \/ AcquireClaims(s) \/ ClaimsRefused(s) \/ ClaimingInterrupted(s)
    \/ MakeDirectory(s) \/ CreateRun(s) \/ PublishMapping(s) \/ SpawnWorker(s)
    \/ ReadStatus(s) \/ PollWorker(s)
    \/ RecordNeverStarted(s) \/ FinishNeverStarted(s) \/ ReleaseNeverStarted(s)
    \/ AbandonMapping(s) \/ CloseRun(s) \/ GiveClaimsBack(s)

Deadline(s) == WaitTimesOut(s) \/ PollTimesOut(s)

Next == \E s \in Starter :
    \/ Start(s) \/ Deadline(s)
    \/ WorkerStarts(s) \/ WorkerNeverStarts(s) \/ WorkerEnds(s)
    \/ OperatorReleases(s) \/ Kill(s)

Spec == Init /\ [][Next]_vars

(* The scheduler runs every call, and every loop in it has a deadline.      *)
FairSpec == Spec /\ \A s \in Starter : WF_vars(Start(s) \/ Deadline(s))
-----------------------------------------------------------------------------
(* Types, and a worker that finds the journal of its run. *)
TypeOK ==
    /\ pc \in [Starter -> InProgress \union Done]
    /\ mapping \in [Key -> Starter \union {Nobody}] /\ written \subseteq {k \in Key : mapping[k] # Nobody}
    /\ claim \in [Resource -> Starter \union {Nobody}]
    /\ acquired \in [Starter -> BOOLEAN]
    /\ made \in [Starter -> {"none", "dir", "run"}]
    /\ status \in [Starter -> Active \union {"finished"}]
    /\ released \in [Starter -> BOOLEAN]
    /\ worker \in [Starter -> {"none", "spawned", "up", "exited"}]
    /\ \A s \in Starter : worker[s] # "none" => made[s] = "run"
    /\ ran \subseteq Starter /\ overtaken \subseteq ran /\ unwritten \subseteq Starter

(* An idempotency key maps to one run, so at most one controller is ever    *)
(* started for it, however often the start is repeated, fails or is killed; *)
(* but a run that is over before its own start call has come back counts    *)
(* as never started, and the key may be used again.                         *)
StartsOnce == \A a, b \in ran \ overtaken : KeyOf[a] = KeyOf[b] => a = b

(* The claims of a run that was over so soon were given back, if at all, by *)
(* the call that started it, when it failed.                                *)
UndoneByItsCall(s) == s \in overtaken /\ pc[s] = "raised"

(* A run whose worker has started keeps every claim until its release is    *)
(* recorded, so no two runs ever hold one resource; the failures and        *)
(* retries of the starters do not give a claim away.  Only a call that      *)
(* fails after its worker is already gone takes that run's claims back.     *)
StartedRunsKeepClaims ==
    \A s \in ran : ~released[s] /\ ~UndoneByItsCall(s) => \A r \in Claims[s] : claim[r] = s

(* What no later call can read, a mapping without a run_id or a claim of a  *)
(* run without a status, belongs to a call that is under way or was killed: *)
(* every other failure is undone before it is reported, but for the claims  *)
(* of a call that failed to write all of them.                              *)
FailuresAreUndone ==
    /\ \A k \in Key : mapping[k] # Nobody /\ k \notin written =>
           pc[mapping[k]] \in InProgress \union {"killed"}
    /\ \A r \in Resource : claim[r] # Nobody /\ made[claim[r]] # "run" =>
           pc[claim[r]] \in InProgress \union {"killed"} \/ claim[r] \in unwritten

(* Every call comes back, also when the call it waits for was killed: all   *)
(* of them are over in the end, for no call begins twice.                   *)
StartsReturn == <>(\A s \in Starter : pc[s] \in Done)
-----------------------------------------------------------------------------
(* What the theorems of StartRunProofs rest on.  A call owns its mapping    *)
(* until it abandons it, and a run that was not overtaken for ever.         *)
Owns(s) ==
    \/ pc[s] \in {"claim", "mkdir", "create", "publish", "spawn", "poll", "judge",
                  "never", "never_finish", "unclaim", "abandon"}
    \/ worker[s] = "spawned" \/ s \in ran \ overtaken
MappingIsOwned == \A s \in Starter : Owns(s) => mapping[KeyOf[s]] = s

(* How far the worker and the files of a run are at each step of its call.  *)
WorkersKeepStep == \A s \in Starter :
    /\ pc[s] \in {"begin", "wait", "claim", "mkdir", "create", "publish", "spawn"} => worker[s] = "none"
    /\ pc[s] \in {"poll", "judge"} => worker[s] # "none"
    /\ pc[s] \in {"never", "never_finish", "unclaim"} => worker[s] = "exited"
    /\ pc[s] \in {"close", "give_back"} => worker[s] \notin {"spawned", "up"}
    /\ s \in ran => worker[s] \in {"up", "exited"}
    /\ worker[s] = "up" => s \in ran \ overtaken
    /\ s \in ran /\ pc[s] \in InProgress /\ worker[s] # "up" => s \in overtaken
FilesKeepStep == \A s \in Starter :
    /\ pc[s] \in {"begin", "wait", "claim", "mkdir", "create"} => made[s] # "run" /\ ~released[s]
    /\ pc[s] \in {"publish", "spawn", "poll", "judge", "never", "never_finish", "unclaim"} => made[s] = "run"
    /\ pc[s] \in {"never_finish", "unclaim"} => released[s]

(* A run holds its claims from their acquisition to its release. *)
Holds(s) ==
    \/ pc[s] \in {"mkdir", "create", "publish", "spawn"} \/ worker[s] = "spawned"
    \/ s \in ran /\ ~UndoneByItsCall(s)
ClaimsAreHeld == \A s \in Starter : Holds(s) /\ ~released[s] => \A r \in Claims[s] : claim[r] = s

StartInv ==
    TypeOK /\ MappingIsOwned /\ WorkersKeepStep /\ FilesKeepStep /\ ClaimsAreHeld

(* What a call leaves behind can be read, or will be taken back by it. *)
TracesAreReadable ==
    /\ \A k \in Key, s \in Starter : mapping[k] = s => k = KeyOf[s]
    /\ \A r \in Resource, s \in Starter : claim[r] = s =>
           r \in Claims[s] /\ (pc[s] \in InProgress => acquired[s] \/ s \in unwritten)
    /\ \A s \in Starter :
           /\ pc[s] \in {"begin", "wait", "claim"} => ~acquired[s]
           /\ pc[s] \in {"begin", "wait", "close", "give_back"} => mapping[KeyOf[s]] # s
           /\ (pc[s] = "spawn" \/ worker[s] # "none") /\ mapping[KeyOf[s]] = s => KeyOf[s] \in written
UndoInv == TracesAreReadable /\ FailuresAreUndone

(* What the calls amount to for those who start runs: RunTable.  A key has  *)
(* started the run its mapping names, and a run that was overtaken holds    *)
(* its resources for as long as its claims are there.                       *)
HasClaims(s) == ~released[s] /\ \A r \in Claims[s] : claim[r] = s
Table == INSTANCE RunTable WITH
    Run <- Starter, started <- {s \in ran : mapping[KeyOf[s]] = s},
    holding <- {s \in ran : HasClaims(s)}, overtaken <- overtaken

TableSpec == Table!TableSpec

(* Why a run is never started after its claims were given away: until its   *)
(* worker has begun, only a run that somebody has ended is released.        *)
FreshRunsAreNotReleased == \A s \in Starter :
    (pc[s] \in {"publish", "spawn"} \/ worker[s] = "spawned") /\ status[s] = "starting"
        => (released[s] <=> Claims[s] = {})
=============================================================================
