----------------------------- MODULE Commands -----------------------------
(***************************************************************************)
(* What clients ask of a running run, and what its worker makes of it:     *)
(* send_command() and _process_commands() of host/service.py with the      *)
(* inbox and the acknowledgements between them, the CognitionBroker and    *)
(* the LoopController of host/runtime.py, and the kernel's task.           *)
(*                                                                         *)
(* A client makes one request.  When it is not answered in time the client *)
(* may repeat it, as a new command.  The task is the set of the requests   *)
(* whose patch it contains.  emit() is atomic (module Journal opens it up) *)
(* and the life of the run is reduced to what commands depend on (module   *)
(* ManagedRun has it in detail).  A command is executed, acknowledged and  *)
(* unlinked in one step: a kill in between looks to its sender like a      *)
(* timeout just before it.                                                 *)
(***************************************************************************)
EXTENDS Naturals, Sequences, FiniteSets

CONSTANTS
    Client, Kind,     \* requests: "update", "respond", "stop" or "heartbeat"
    Job, Dedupe,      \* cognition jobs, and the dedupe_key each is asked with
    Answers,          \* the job a "respond" request answers
    MaxPending,       \* MAX_PENDING_COGNITION
    MaxSends,         \* bound: how often a client tries to send its request
    MayKill,          \* whether the worker may be killed
    EmitFails         \* whether the disk may fail, once, a record or an acknowledgement

ASSUME CommandAssumption ==
    /\ Kind \in [Client -> {"update", "respond", "stop", "heartbeat"}]
    /\ \A c \in Client : Kind[c] = "respond" => Answers[c] \in Job
    /\ MaxPending \in Nat \ {0} /\ MaxSends \in [Client -> Nat]
    /\ MayKill \in BOOLEAN /\ EmitFails \in BOOLEAN

VARIABLES
    status,     \* of the run: "starting", "running", "stopping", "finished" by its
                \* worker, or "failed", when a client found the worker dead
    leaseOver,  \* the lease deadline has passed
    stopEvent, graceOver,
    version, task,   \* config_version and task of the journal
    jobs,       \* cognition jobs; a job is "late" when it is pending past its deadline
    answer,     \* the requests whose result a completed job holds
    worker,     \* where the coordinator is, or "dead"
    inbox,      \* command files, in the order of their names
    listed,     \* how many of them the round of the coordinator has still to do
    client,     \* where each client is, with its acknowledgement file, or what it was told
    expected,   \* the config_version it read before an update
    sends,      \* how often it tried to send its request
    updates,    \* LoopController._updates
    kernelTask, \* the task the kernel works on
    engine,     \* "running", "suspended", "over" (kernel terminal) or "returned"
    applied,    \* history: how often a request was recorded
    offered,    \* history: the requests whose patch the controller was given
    torn,       \* history: the requests the disk failed in the middle of
    strays      \* history: the jobs asked after the pending ones were cancelled

life == <<status, leaseOver, stopEvent, graceOver>>
config == <<version, task>>
cognition == <<jobs, answer>>
mail == <<inbox, listed>>
asking == <<expected, sends>>
controller == <<updates, kernelTask, engine>>
history == <<applied, offered, torn>>
vars == <<life, config, cognition, worker, mail, client, asking, controller, history, strays>>

Command == [from : Client, n : Nat]   \* its sender, at which attempt
Over == {"finished", "failed"}
JobStatus == {"none", "pending", "late", "completed", "cancelled", "expired"}
Told == {"ok", "rejected", "timeout", "inspected", "over"}

Init ==
    /\ status = "starting" /\ leaseOver = FALSE /\ stopEvent = FALSE /\ graceOver = FALSE
    /\ version = 1 /\ task = {}
    /\ jobs = [j \in Job |-> "none"] /\ answer = [j \in Job |-> {}]
    /\ worker = "boot" /\ inbox = <<>> /\ listed = 0
    /\ client = [c \in Client |-> "idle"] /\ expected = [c \in Client |-> 1]
    /\ sends = [c \in Client |-> 0]
    /\ updates = <<>> /\ kernelTask = {} /\ engine = "running"
    /\ applied = [c \in Client |-> 0] /\ offered = {} /\ torn = {} /\ strays = {}

Tell(c, what) == client' = [client EXCEPT ![c] = what]
-----------------------------------------------------------------------------
(* send_command(): the status decides whether a command is written at all.  *)
(* For a worker that is dead, or has no pid yet, inspect_run() answers      *)
(* instead.                                                                 *)
Reply(c) ==
    IF status \in Over THEN (IF Kind[c] = "stop" THEN "over" ELSE "rejected")
    ELSE IF status = "stopping" /\ Kind[c] \in {"update", "respond"} THEN "rejected"
    ELSE IF worker \in {"boot", "dead"} THEN "inspected"
    ELSE "send"

(* inspect_run() ends the run of a dead worker. *)
CheckStatus(c) ==
    /\ client[c] = "idle" /\ sends[c] < MaxSends[c]
    /\ sends' = [sends EXCEPT ![c] = @ + 1]
    /\ expected' = [expected EXCEPT ![c] = IF Kind[c] = "update" /\ sends[c] = 0 THEN version ELSE @]
    /\ Tell(c, Reply(c))
    /\ status' = IF Reply(c) = "inspected" /\ worker = "dead" THEN "failed" ELSE status
    /\ UNCHANGED <<leaseOver, stopEvent, graceOver, config, cognition, worker, mail, controller, history, strays>>

WriteCommand(c) ==
    /\ client[c] = "send"
    /\ inbox' = Append(inbox, [from |-> c, n |-> sends[c]])
    /\ Tell(c, "wait")
    /\ UNCHANGED <<life, config, cognition, worker, listed, asking, controller, history, strays>>

(* The acknowledgement; after that of a stop, the status is only watched.   *)
ReadAck(c) ==
    /\ client[c] \in {"good", "bad"}
    /\ Tell(c, IF client[c] = "good" THEN "ok" ELSE "rejected")
    /\ UNCHANGED <<life, config, cognition, worker, mail, asking, controller, history, strays>>

(* The command stays where it is. *)
AckTimesOut(c) ==
    /\ client[c] = "wait" /\ Tell(c, "timeout")
    /\ UNCHANGED <<life, config, cognition, worker, mail, asking, controller, history, strays>>

(* The caller repeats a request that was not answered, and heartbeats again *)
(* and again.                                                               *)
Repeat(c) ==
    /\ client[c] \in {"timeout", "inspected"} \union (IF Kind[c] = "heartbeat" THEN {"ok"} ELSE {})
    /\ sends[c] < MaxSends[c]
    /\ Tell(c, "idle")
    /\ UNCHANGED <<life, config, cognition, worker, mail, asking, controller, history, strays>>
-----------------------------------------------------------------------------
Alive == worker \notin {"boot", "dead"}

(* A round of the coordinator begins with the commands that are there. *)
BeginRound == worker' = "commands" /\ listed' = Len(inbox)

StartWorker ==
    /\ worker = "boot" /\ status = "starting"
    /\ BeginRound /\ status' = "running"
    /\ UNCHANGED <<leaseOver, stopEvent, graceOver, config, cognition, inbox, client, asking,
                   controller, history, strays>>

(* ask_to_stop(), with the controller's request_stop(). *)
AskToStop ==
    /\ status' = IF status = "running" THEN "stopping" ELSE status
    /\ stopEvent' = TRUE

(* What becomes of an emit(): its event is appended and projected, appended *)
(* only, or not appended; the last two raise.                               *)
DiskFails == EmitFails /\ torn = {}
Recording == {"whole"} \union (IF DiskFails THEN {"unprojected", "nothing"} ELSE {})
Applied(c, how) ==
    applied' = IF how = "nothing" THEN applied ELSE [applied EXCEPT ![c] = @ + 1]

(* Mutant: the coordinator does not go on to the next file. *)
MutantAcknowledge(command, good, whole) ==
    LET c == command.from IN
    /\ client' = [client EXCEPT ![c] =
           IF @ = "wait" /\ sends[c] = command.n THEN (IF good THEN "good" ELSE "bad") ELSE @]
    /\ inbox' = Tail(inbox) /\ UNCHANGED <<torn, listed>>

(* The acknowledgement is written, then the command is unlinked.  When the  *)
(* record or the first write fails, the command is acknowledged as refused. *)
(* (What its sender does not wait for any more lies there unread.)          *)
Acknowledge(command, good, whole) ==
    LET c == command.from IN
    /\ \E written \in {TRUE} \union (IF DiskFails /\ whole THEN {FALSE} ELSE {}) :
        /\ client' = [client EXCEPT ![c] =
               IF @ = "wait" /\ sends[c] = command.n
               THEN (IF good /\ written THEN "good" ELSE "bad") ELSE @]
        /\ torn' = IF written /\ whole THEN torn ELSE torn \union {c}
    /\ inbox' = Tail(inbox) /\ listed' = listed - 1

Refuse(command) ==
    /\ Acknowledge(command, FALSE, TRUE)
    /\ UNCHANGED applied

(* Mutant: the version is not compared. *)
MutantVersionMatches(c) == TRUE
VersionMatches(c) == expected[c] = version

(* Mutant: the controller is told before the version is checked. *)
MutantUpdate(command) ==
    LET c == command.from IN
    /\ Kind[c] = "update"
    /\ updates' = Append(updates, task \union {c}) /\ offered' = offered \union {c}
    /\ IF status # "stopping" /\ VersionMatches(c)
       THEN /\ Applied(c, "whole") /\ Acknowledge(command, TRUE, TRUE)
            /\ task' = task \union {c} /\ version' = version + 1
       ELSE Refuse(command) /\ UNCHANGED config
    /\ UNCHANGED <<life, cognition>>

(* An update: the controller accepts it, then TASK_UPDATED is recorded.  (A *)
(* patch that does not fit the declared contract is refused before that.)   *)
Update(command) ==
    LET c == command.from IN
    /\ Kind[c] = "update"
    /\ IF status # "stopping" /\ VersionMatches(c)
       THEN /\ updates' = Append(updates, task \union {c}) /\ offered' = offered \union {c}
            /\ \E how \in Recording :
                /\ Applied(c, how) /\ Acknowledge(command, how = "whole", how = "whole")
                /\ IF how = "nothing" THEN UNCHANGED config
                   ELSE task' = task \union {c} /\ version' = version + 1
       ELSE Refuse(command) /\ UNCHANGED <<config, updates, offered>>
    /\ UNCHANGED <<life, cognition>>

Pending(j) == jobs[j] \in {"pending", "late"}
Settle(j, how) == jobs' = [jobs EXCEPT ![j] = how]

(* Mutant: a result that arrives too late expires the job, and is accepted. *)
MutantComplete(command) ==
    LET c == command.from  j == Answers[c] IN
    /\ Kind[c] = "respond"
    /\ IF status # "stopping" /\ Pending(j)
       THEN /\ Applied(c, "whole") /\ Acknowledge(command, TRUE, TRUE)
            /\ Settle(j, IF jobs[j] = "late" THEN "expired" ELSE "completed")
            /\ answer' = [answer EXCEPT ![j] = IF jobs[j] = "late" THEN @ ELSE @ \union {c}]
       ELSE Refuse(command) /\ UNCHANGED cognition
    /\ UNCHANGED <<life, config, updates, offered>>

(* CognitionBroker.complete(), under its lock: the job must be pending, at  *)
(* the version that was asked, in time, and the result fit its schema and   *)
(* the limits.                                                              *)
Complete(command) ==
    LET c == command.from  j == Answers[c] IN
    /\ Kind[c] = "respond"
    /\ \/ /\ status # "stopping" /\ jobs[j] = "pending"
          /\ \E how \in Recording :
              /\ Applied(c, how) /\ Acknowledge(command, how = "whole", how = "whole")
              /\ IF how = "nothing" THEN UNCHANGED cognition
                 ELSE Settle(j, "completed") /\ answer' = [answer EXCEPT ![j] = @ \union {c}]
       \/ /\ status # "stopping" /\ jobs[j] = "late"
          /\ Refuse(command) /\ Settle(j, "expired") /\ UNCHANGED answer
       \/ Refuse(command) /\ UNCHANGED cognition
    /\ UNCHANGED <<life, config, updates, offered>>

Stop(command) ==
    /\ Kind[command.from] = "stop"
    /\ AskToStop /\ Applied(command.from, "whole") /\ Acknowledge(command, TRUE, TRUE)
    /\ UNCHANGED <<leaseOver, graceOver, config, cognition, updates, offered>>

Heartbeat(command) ==
    /\ Kind[command.from] = "heartbeat"
    /\ leaseOver' = FALSE /\ Applied(command.from, "whole") /\ Acknowledge(command, TRUE, TRUE)
    /\ UNCHANGED <<status, stopEvent, graceOver, config, cognition, updates, offered>>

ProcessCommand ==
    /\ worker = "commands" /\ listed > 0
    /\ LET command == Head(inbox) IN
       Update(command) \/ Complete(command) \/ Stop(command) \/ Heartbeat(command)
    /\ UNCHANGED <<worker, asking, kernelTask, engine, strays>>
-----------------------------------------------------------------------------
(* CognitionBroker.expire_due(), by the clock of the start of the round:    *)
(* some deadlines may have passed since.                                    *)
ExpireDue == \E due \in SUBSET {j \in Job : jobs[j] = "late"} :
    jobs' = [j \in Job |-> IF j \in due THEN "expired" ELSE jobs[j]]

(* Mutant: the lease is not looked at. *)
MutantCheckDeadlines ==
    /\ worker = "commands" /\ listed = 0
    /\ ExpireDue
    /\ worker' = "result"
    /\ UNCHANGED <<life, config, answer, mail, client, asking, controller, history, strays>>

CheckDeadlines ==
    /\ worker = "commands" /\ listed = 0
    /\ ExpireDue
    /\ IF leaseOver THEN AskToStop ELSE UNCHANGED <<status, stopEvent>>
    /\ worker' = "result"
    /\ UNCHANGED <<leaseOver, graceOver, config, answer, mail, client, asking, controller, history, strays>>

(* Mutant: the jobs of an engine that did not come back are left alone. *)
MutantTakeResult ==
    /\ worker = "result"
    /\ IF engine = "returned" \/ (stopEvent /\ graceOver)
       THEN /\ worker' = "finish" /\ UNCHANGED listed
            /\ jobs' = [j \in Job |-> IF Pending(j) /\ engine = "returned" THEN "cancelled" ELSE jobs[j]]
       ELSE BeginRound /\ UNCHANGED jobs
    /\ UNCHANGED <<life, config, answer, inbox, client, asking, controller, history, strays>>

(* The engine has answered, or the grace of the stop is over: pending jobs  *)
(* are cancelled, then the run is finished.                                 *)
TakeResult ==
    /\ worker = "result"
    /\ IF engine = "returned" \/ (stopEvent /\ graceOver)
       THEN /\ worker' = "finish" /\ UNCHANGED listed
            /\ jobs' = [j \in Job |-> IF Pending(j) THEN "cancelled" ELSE jobs[j]]
       ELSE BeginRound /\ UNCHANGED jobs
    /\ UNCHANGED <<life, config, answer, inbox, client, asking, controller, history, strays>>

FinishRun ==
    /\ worker = "finish"
    /\ status' = "finished" /\ worker' = "dead"
    /\ UNCHANGED <<leaseOver, stopEvent, graceOver, config, cognition, mail, client, asking,
                   controller, history, strays>>

Kill ==
    /\ MayKill /\ worker # "dead"
    /\ worker' = "dead"
    /\ UNCHANGED <<life, config, cognition, mail, client, asking, controller, history, strays>>
-----------------------------------------------------------------------------
EngineMoves == Alive /\ engine # "returned"
NoteStray(j) == strays' = IF worker = "finish" THEN strays \union {j} ELSE strays

(* Mutant: a job past its deadline is no obstacle to asking again. *)
MutantRequest(j) ==
    /\ EngineMoves /\ engine = "running"
    /\ jobs[j] = "none"
    /\ \A other \in Job : jobs[other] = "pending" => Dedupe[other] # Dedupe[j]
    /\ Settle(j, "pending") /\ NoteStray(j)
    /\ UNCHANGED <<life, config, answer, worker, mail, client, asking, controller, history>>

(* CognitionBroker.request(), under its lock: a pending job with the same   *)
(* dedupe_key is returned again, and the number of pending jobs is bounded. *)
(* It heeds neither a stop request nor the end of the grace.                *)
Request(j) ==
    /\ EngineMoves /\ engine = "running"
    /\ jobs[j] = "none"
    /\ \A other \in Job : Pending(other) => Dedupe[other] # Dedupe[j]
    /\ Cardinality({other \in Job : Pending(other)}) < MaxPending
    /\ Settle(j, "pending") /\ NoteStray(j)
    /\ UNCHANGED <<life, config, answer, worker, mail, client, asking, controller, history>>

(* Mutant: only a suspended kernel is given the updates. *)
MutantDrainUpdates ==
    /\ EngineMoves /\ ~stopEvent /\ updates # <<>>
    /\ updates' = <<>>
    /\ IF engine # "suspended" THEN UNCHANGED <<kernelTask, engine>>
       ELSE kernelTask' = updates[Len(updates)] /\ engine' = "running"
    /\ UNCHANGED <<life, config, cognition, worker, mail, client, asking, history, strays>>

(* LoopController._drain_updates(): the kernel is resumed with one task     *)
(* after the other; it takes none when it is over.                          *)
DrainUpdates ==
    /\ EngineMoves /\ ~stopEvent /\ updates # <<>>
    /\ updates' = <<>>
    /\ IF engine = "over" THEN UNCHANGED <<kernelTask, engine>>
       ELSE kernelTask' = updates[Len(updates)] /\ engine' = "running"
    /\ UNCHANGED <<life, config, cognition, worker, mail, client, asking, history, strays>>

(* LoopController.run(): a running kernel takes a step, a suspended one is  *)
(* woken, one that is over is the result; a stop request ends the loop.     *)
KernelStep ==
    /\ EngineMoves
    /\ \/ ~stopEvent /\ engine = "running" /\ engine' \in {"suspended", "over"}
       \/ ~stopEvent /\ engine = "suspended" /\ engine' = "running"
       \/ (stopEvent \/ engine = "over") /\ engine' = "returned"
    /\ UNCHANGED <<life, config, cognition, worker, mail, client, asking, history, strays, updates, kernelTask>>
-----------------------------------------------------------------------------
DeadlinePasses(j) ==
    /\ jobs[j] = "pending" /\ Settle(j, "late")
    /\ UNCHANGED <<life, config, answer, worker, mail, client, asking, controller, history, strays>>

LeaseElapses ==
    /\ Alive /\ ~leaseOver /\ leaseOver' = TRUE
    /\ UNCHANGED <<status, stopEvent, graceOver, config, cognition, worker, mail, client, asking,
                   controller, history, strays>>

GraceElapses ==
    /\ Alive /\ stopEvent /\ ~graceOver /\ graceOver' = TRUE
    /\ UNCHANGED <<status, leaseOver, stopEvent, config, cognition, worker, mail, client, asking,
                   controller, history, strays>>

Send(c) == CheckStatus(c) \/ WriteCommand(c) \/ ReadAck(c)
Coordinate == StartWorker \/ ProcessCommand \/ CheckDeadlines \/ TakeResult \/ FinishRun
Engine == (\E j \in Job : Request(j)) \/ DrainUpdates \/ KernelStep

Next ==
    \/ \E c \in Client : Send(c) \/ AckTimesOut(c) \/ Repeat(c)
    \/ Coordinate \/ Kill \/ Engine
    \/ \E j \in Job : DeadlinePasses(j)
    \/ LeaseElapses \/ GraceElapses

Spec == Init /\ [][Next]_vars

(* The coordinator's loop runs and time passes; the engine and the clients  *)
(* need not do anything.                                                    *)
FairSpec == Spec /\ WF_vars(Coordinate) /\ WF_vars(LeaseElapses) /\ WF_vars(GraceElapses)
-----------------------------------------------------------------------------
(* Types, and the round of the coordinator lies within the inbox. *)
TypeOK ==
    /\ status \in {"starting", "running", "stopping"} \union Over
    /\ leaseOver \in BOOLEAN /\ stopEvent \in BOOLEAN /\ graceOver \in BOOLEAN
    /\ version \in Nat \ {0} /\ task \subseteq Client
    /\ jobs \in [Job -> JobStatus] /\ answer \in [Job -> SUBSET Client]
    /\ worker \in {"boot", "commands", "result", "finish", "dead"}
    /\ inbox \in Seq(Command) /\ listed \in 0..Len(inbox)
    /\ client \in [Client -> Told \union {"idle", "send", "wait", "good", "bad"}]
    /\ expected \in [Client -> Nat] /\ sends \in [Client -> Nat]
    /\ updates \in Seq(SUBSET Client) /\ kernelTask \subseteq Client
    /\ engine \in {"running", "suspended", "over", "returned"}
    /\ applied \in [Client -> Nat] /\ offered \subseteq Client /\ torn \subseteq Client
    /\ strays \subseteq Job

Accepted(c) == applied[c] > 0

(* An update or an answer counts at most once, however often its sender     *)
(* repeats it after a timeout, and two accepted updates never started from  *)
(* the same configuration, so that neither overwrites the other unseen.     *)
RequestsCountOnce ==
    /\ \A c \in Client : Kind[c] \in {"update", "respond"} => applied[c] <= 1
    /\ \A c, d \in Client :
           c # d /\ Kind[c] = "update" /\ Kind[d] = "update" /\ Accepted(c) /\ Accepted(d)
               => expected[c] # expected[d]

(* A request whose sender is told, at its first attempt, that it was        *)
(* rejected has no effect, now or later, neither on the journal nor on the  *)
(* controller (unless the disk failed in the middle of it).                 *)
RejectedMeansUnchanged ==
    \A c \in Client : client[c] = "rejected" /\ sends[c] = 1 /\ c \notin torn
        => applied[c] = 0 /\ c \notin offered

(* Until the kernel is over, the task it works on, with what is queued for  *)
(* it, is the task the journal and the clients know.                        *)
KernelTaskIsRecorded ==
    Alive /\ engine \in {"running", "suspended"} /\ torn = {} =>
        task = IF updates = <<>> THEN kernelTask ELSE updates[Len(updates)]

(* Who is told that the answer was accepted finds it in the journal, alone. *)
AcceptedAnswersStand ==
    \A c \in Client : Kind[c] = "respond" /\ client[c] = "ok" =>
        jobs[Answers[c]] = "completed" /\ answer[Answers[c]] = {c}

(* A run its worker has finished asks nothing any more, unless its engine   *)
(* outlived the grace of a stop and asked after the rest was cancelled.     *)
FinishedRunsAskNothing ==
    status = "finished" => \A j \in Job : Pending(j) => j \in strays /\ graceOver

(* The lease: once its clients have sent their last heartbeat a run is      *)
(* stopped, although heartbeats may still lie in the inbox and whatever the *)
(* engine and the other commands do.                                        *)
OrphanedRunsStop == <>(status \in {"stopping"} \union Over \/ worker = "dead")
-----------------------------------------------------------------------------
(* What makes those properties inductive.  A command file carries the number *)
(* of the attempt that wrote it; the file of the last attempt is there only  *)
(* while its sender waits for it or has given it up.                         *)
MailIsOrdered ==
    /\ \A k \in 1..Len(inbox) :
        /\ inbox[k].n \in 1..sends[inbox[k].from]
        /\ inbox[k].n = sends[inbox[k].from] => client[inbox[k].from] \in {"wait", "timeout", "idle"}
    /\ \A k, l \in 1..Len(inbox) :
        inbox[k].from = inbox[l].from /\ inbox[k].n = inbox[l].n => k = l

(* The first attempt has no effect before its command is taken, and none     *)
(* when it is refused.                                                       *)
Untouched(c) == applied[c] = 0 /\ c \notin offered
FirstTries ==
    \A c \in Client :
        /\ sends[c] = 0 => client[c] = "idle" /\ Untouched(c)
        /\ sends[c] = 1 /\ client[c] = "send" => Untouched(c)
        /\ sends[c] = 1 /\ (\E k \in 1..Len(inbox) : inbox[k].from = c) => Untouched(c)
        /\ sends[c] = 1 /\ client[c] \in {"bad", "rejected"} /\ c \notin torn => Untouched(c)

(* An update that was recorded has left its version behind. *)
UpdatesAdvance ==
    \A c \in Client : Kind[c] = "update" /\ Accepted(c) => expected[c] < version

(* A job is completed by one answer, and for good. *)
AnswersSettle ==
    /\ \A j \in Job : jobs[j] # "completed" => answer[j] = {}
    /\ \A c \in Client : Kind[c] = "respond" =>
        /\ Accepted(c) => jobs[Answers[c]] = "completed"
        /\ client[c] \in {"good", "ok"} =>
              jobs[Answers[c]] = "completed" /\ answer[Answers[c]] = {c}

TaskIsCarried ==
    worker # "dead" /\ engine \in {"running", "suspended"} /\ torn = {} =>
        task = IF updates = <<>> THEN kernelTask ELSE updates[Len(updates)]

(* Between the cancelling of the pending jobs and the end of the run only an *)
(* engine asks that did not come back within the grace of a stop.            *)
FinishAsksNothing ==
    /\ status = "finished" => worker = "dead"
    /\ worker = "finish" => engine = "returned" \/ graceOver
    /\ strays # {} => graceOver
    /\ worker = "finish" \/ status = "finished" => \A j \in Job : Pending(j) => j \in strays

CommandsInv ==
    /\ TypeOK /\ MailIsOrdered /\ FirstTries
    /\ RequestsCountOnce /\ UpdatesAdvance /\ AnswersSettle /\ TaskIsCarried /\ FinishAsksNothing
-----------------------------------------------------------------------------
(* What the jobs amount to for the controller that asks and for the clients *)
(* that answer: QuestionBook.  A job past its deadline is open until        *)
(* somebody notices.                                                        *)
Book == INSTANCE QuestionBook WITH
    Question <- Job, Respondent <- Client, KeyOf <- Dedupe,
    MayAnswer <- [j \in Job |-> {c \in Client : Kind[c] = "respond" /\ Answers[c] = j}],
    book <- [j \in Job |-> IF Pending(j) THEN "open" ELSE jobs[j]],
    finished <- (status = "finished"),
    phase <- (CASE worker = "dead" -> "over" [] worker = "finish" -> "closing" [] OTHER -> "open")

(* The run implements it: a question has one fate, whichever of a late      *)
(* answer, the deadline, a repeated answer and the end of the run comes     *)
(* first, and no more and no other questions are open than may be.          *)
BookSpec == Book!BookSpec
=============================================================================
