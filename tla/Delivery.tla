------------------------------ MODULE Delivery ------------------------------
(***************************************************************************)
(* The pi extension (extensions/pi-jev.ts): how the questions of the runs  *)
(* reach the agent of the session that owns them, and the commands         *)
(* /jev-self-test and /jev-stop-all.                                       *)
(*                                                                         *)
(* The extension is one JavaScript thread: an action runs from one await   *)
(* to the next, and between two awaits of a handler every other handler    *)
(* may run.  An await is a request to the host, which executes it at some  *)
(* moment (modules StartRun and Commands say how), or fails.  The session  *)
(* is a tree of entries of which one branch is current.                    *)
(***************************************************************************)
EXTENDS Naturals, FiniteSets

CONSTANTS
    Branch, Session, SessionOf,  \* the branches, and the session each belongs to
    Run, Owner,                  \* the runs, and the session that starts each
    Detached,                    \* the runs whose lease needs no heartbeat
    Claimless,                   \* the runs without resource_keys
    Probe,                       \* the run of the self-test
    Job, RunOf,                  \* the questions, and the run that asks each
    Poller,                      \* the calls of poll() that may be under way
    Nowhere,                     \* stands for no branch (ctxNow is undefined)
    Home,                        \* bound: the branch that pi starts in
    MaxMoves,                    \* bound: how often the session moves
    MaxCommands,                 \* bound: how many commands are given
    MaxFailures                  \* bound: how many requests fail

ASSUME DeliveryAssumption ==
    /\ SessionOf \in [Branch -> Session] /\ Nowhere \notin Branch /\ Home \in Branch
    /\ Owner \in [Run -> Session] /\ RunOf \in [Job -> Run]
    /\ Detached \subseteq Run /\ Claimless \subseteq Run
    /\ Probe \in Run \ (Detached \union Claimless)
    /\ {MaxMoves, MaxCommands, MaxFailures} \subseteq Nat

VARIABLES
    \* the host
    run,           \* of each run, whether it is over and its inputs are recorded as released
    job,           \* what became of each question
    \* the session
    entries,       \* pi-jev-cognition-delivered, in each branch
    \* the extension's memory
    ctxNow, timer, pollInFlight, delivered, suppressedRuns,
    \* the handlers under way
    poll,          \* the calls of poll()
    selfTest, stopAll,
    \* the bounds
    moves, commands, failures

host == <<run, job>>
memory == <<ctxNow, timer, pollInFlight, delivered, suppressedRuns>>
bounds == <<moves, commands, failures>>
vars == <<host, entries, memory, poll, selfTest, stopAll, bounds>>

Idle == [at |-> "idle", branch |-> Nowhere, since |-> 0, left |-> {}, beating |-> {}, asking |-> {}, new |-> {}]
NoStopAll == [at |-> "idle", active |-> {}, left |-> {}, quarantined |-> {}]

(* since counts the moves that the session had made when the poll began: no *)
(* guard reads it, AskedOnce needs it to tell which polls a move overtakes. *)
PollState == [at : {"idle", "list", "beat", "resume"}, branch : Branch \union {Nowhere}, since : Nat,
              left : SUBSET Run, beating : SUBSET Run, asking : SUBSET Job, new : SUBSET Job]
StopAllState == [at : {"idle", "stopping"}, active : SUBSET Run, left : SUBSET Run, quarantined : SUBSET Run]

(* A run is "active", then "ended"; with its inputs recorded as released,   *)
(* before or after its end, it is "freed", then "released".  What it can be *)
(* found as later:                                                          *)
Later == [absent |-> {"absent"}, active |-> {"active", "freed", "ended", "released"},
          freed |-> {"freed", "released"}, ended |-> {"ended", "released"}, released |-> {"released"}]

(* A run that claims nothing counts as released when it starts; the         *)
(* self-test claims a resource.                                             *)
Begun(r) == IF r \in Claimless THEN "freed" ELSE "active"

(* An earlier pi may have left its runs, which have all the answers they    *)
(* asked for.                                                               *)
Init ==
    /\ \/ run = [r \in Run |-> "absent"] /\ job = [j \in Job |-> "none"]
       \/ run = [r \in Run |-> Begun(r)] /\ job = [j \in Job |-> "settled"]
    /\ entries = [b \in Branch |-> {}]
    /\ ctxNow = Nowhere /\ timer = FALSE /\ pollInFlight = FALSE
    /\ delivered = {} /\ suppressedRuns = {}
    /\ poll = [p \in Poller |-> Idle]
    /\ selfTest = "idle"
    /\ stopAll = NoStopAll
    /\ moves = 0 /\ commands = 0 /\ failures = 0

Active(r) == run[r] \in {"active", "freed"}
Mine(b) == {r \in Run : b # Nowhere /\ run[r] # "absent" /\ Owner[r] = SessionOf[b]}

(* invokeHost() rejects: the host refuses, crashes or does not answer.      *)
Fails == failures < MaxFailures /\ failures' = failures + 1
-----------------------------------------------------------------------------
(* Mutant: polls overlap. *)
MutantBusy == FALSE
(* The guard of poll(). *)
Busy == pollInFlight

(* poll() up to its first await, where the handlers call it. *)
CallPoll(b) ==
    IF b = Nowhere \/ Busy \/ \A p \in Poller : poll[p].at # "idle"
    THEN UNCHANGED <<pollInFlight, poll>>
    ELSE /\ pollInFlight' = TRUE
         /\ LET p == CHOOSE q \in Poller : poll[q].at = "idle"
            IN poll' = [poll EXCEPT ![p] = [Idle EXCEPT !.at = "list", !.branch = b, !.since = moves']]

(* setInterval() fires, or a tool call or a command that ends calls poll(). *)
PollCalled ==
    /\ timer /\ UNCHANGED bounds /\ CallPoll(ctxNow)
    /\ UNCHANGED <<host, entries, ctxNow, timer, delivered, suppressedRuns, selfTest, stopAll>>

(* The host lists the runs of the owner.  What follows works on this list,  *)
(* in any order: of a run that is over nothing is used.                     *)
HostLists(p) ==
    /\ poll[p].at = "list"
    /\ LET alive == {r \in Mine(poll[p].branch) : Active(r)}
       IN poll' = [poll EXCEPT ![p].at = "resume", ![p].left = alive,
                       ![p].asking = {j \in Job : job[j] = "pending" /\ RunOf[j] \in alive}]
    /\ UNCHANGED <<host, entries, memory, selfTest, stopAll, bounds>>

(* Mutant: the catch without the finally. *)
MutantListFails(p) ==
    /\ poll[p].at = "list" /\ Fails
    /\ poll' = [poll EXCEPT ![p] = Idle]
    /\ UNCHANGED <<host, entries, memory, selfTest, stopAll, moves, commands>>

(* The catch and the finally of poll(). *)
ListFails(p) ==
    /\ poll[p].at = "list" /\ Fails
    /\ poll' = [poll EXCEPT ![p] = Idle] /\ pollInFlight' = FALSE
    /\ UNCHANGED <<host, entries, ctxNow, timer, delivered, suppressedRuns, selfTest, stopAll, moves, commands>>

(* poll() renews the lease of an active run that is not detached. *)
NeedsBeat(r) == r \notin Detached

(* The heartbeat of the run that poll() waits for: a failure is ignored.    *)
Heartbeat(p) ==
    /\ poll[p].at = "beat" /\ poll' = [poll EXCEPT ![p].at = "resume"]
    /\ UNCHANGED failures \/ Fails
    /\ UNCHANGED <<host, entries, memory, selfTest, stopAll, moves, commands>>

(* The jobs of these runs that are to be delivered. *)
NewJobs(p, runs) ==
    {j \in poll[p].asking : RunOf[j] \in runs \ suppressedRuns /\ j \notin delivered}

(* Every new job goes to the agent and is recorded: in memory, and in the   *)
(* branch that is now current, wherever the poll began.                     *)
Deliver(jobs) ==
    /\ delivered' = delivered \union jobs
    /\ entries' = [b \in Branch |-> IF b = ctxNow THEN entries[b] \union jobs ELSE entries[b]]

(* poll() after an await: it takes the run it waited for, and then runs     *)
(* that need no heartbeat, up to the next await or to the end.              *)
Resume(p) ==
    /\ poll[p].at = "resume"
    /\ \E next \in SUBSET {r \in poll[p].left : ~NeedsBeat(r)} :
           LET new == poll[p].new \union NewJobs(p, poll[p].beating \union next)
               left == poll[p].left \ next
           IN \/ \E r \in left :
                     /\ NeedsBeat(r)
                     /\ poll' = [poll EXCEPT ![p].at = "beat", ![p].beating = {r},
                                     ![p].left = left \ {r}, ![p].new = new,
                                     ![p].asking = {j \in @ : RunOf[j] \in left}]
                     /\ UNCHANGED <<pollInFlight, delivered, entries>>
              \/ /\ left = {}
                 /\ poll' = [poll EXCEPT ![p] = Idle] /\ pollInFlight' = FALSE
                 /\ Deliver(new)
    /\ UNCHANGED <<host, ctxNow, timer, suppressedRuns, selfTest, stopAll, bounds>>
-----------------------------------------------------------------------------
Moves == moves < MaxMoves /\ moves' = moves + 1

(* Mutant: what was delivered is remembered across moves. *)
MutantReconstruct(b) == delivered' = delivered
(* reconstruct(): the deliveries on record in the branch. *)
Reconstruct(b) == delivered' = entries[b]

(* session_start: a session begins, is resumed or replaces another. *)
SessionStart(b) ==
    /\ Moves /\ (moves = 0 => b = Home) /\ ctxNow' = b /\ timer' = TRUE
    /\ Reconstruct(b) /\ CallPoll(b)
    /\ UNCHANGED <<host, entries, suppressedRuns, selfTest, stopAll, commands, failures>>

(* session_tree: another branch of the session becomes current. *)
SessionTree(b) ==
    /\ Moves /\ ctxNow # Nowhere /\ SessionOf[b] = SessionOf[ctxNow]
    /\ ctxNow' = b /\ Reconstruct(b) /\ CallPoll(b)
    /\ UNCHANGED <<host, entries, timer, suppressedRuns, selfTest, stopAll, commands, failures>>

SessionShutdown ==
    /\ ctxNow # Nowhere /\ ctxNow' = Nowhere /\ timer' = FALSE
    /\ UNCHANGED <<host, entries, pollInFlight, delivered, suppressedRuns, poll, selfTest, stopAll, bounds>>

(* pi ends without notice: what it had in memory is lost. *)
PiDies ==
    /\ ctxNow # Nowhere /\ ctxNow' = Nowhere /\ timer' = FALSE /\ pollInFlight' = FALSE
    /\ delivered' = {} /\ suppressedRuns' = {} /\ poll' = [p \in Poller |-> Idle]
    /\ selfTest' = "idle" /\ stopAll' = NoStopAll
    /\ UNCHANGED <<host, entries, bounds>>
-----------------------------------------------------------------------------
(* What the host does for the tool calls of the agent.  Start, respond and  *)
(* stop end with a call of poll(), unless their answer was lost.            *)
Here(r) == ctxNow # Nowhere /\ Owner[r] = SessionOf[ctxNow]

ToolStart(r) ==
    /\ Here(r) /\ r # Probe /\ run[r] = "absent"
    /\ run' = [run EXCEPT ![r] = Begun(r)]
    /\ UNCHANGED <<job, entries, memory, poll, selfTest, stopAll, bounds>>

ToolRespond(j) ==
    /\ Here(RunOf[j]) /\ Active(RunOf[j]) /\ job[j] = "pending"
    /\ job' = [job EXCEPT ![j] = "settled"]
    /\ UNCHANGED <<run, entries, memory, poll, selfTest, stopAll, bounds>>

(* A stop that is answered: the worker may be stopping still, or not even   *)
(* have started, and its inputs may be released before it is over.          *)
StopRun(r) == \E found \in Later[run[r]] : run' = [run EXCEPT ![r] = found]

ToolStop(r) ==
    /\ Here(r) /\ Active(r) /\ StopRun(r)
    /\ UNCHANGED <<job, entries, memory, poll, selfTest, stopAll, bounds>>

ToolRelease(r) ==
    /\ Here(r) /\ run[r] = "ended" /\ run' = [run EXCEPT ![r] = "released"]
    /\ UNCHANGED <<job, entries, memory, poll, selfTest, stopAll, bounds>>
-----------------------------------------------------------------------------
Commanded == commands < MaxCommands /\ commands' = commands + 1

(* The self-test: its run has started before the extension knows its id. *)
SelfTestStarts ==
    /\ Commanded /\ selfTest = "idle" /\ Here(Probe) /\ run[Probe] = "absent" /\ selfTest' = "starting"
    /\ run' = [run EXCEPT ![Probe] = Begun(Probe)]
    /\ UNCHANGED <<job, entries, memory, poll, stopAll, moves, failures>>

SelfTestSuppresses ==
    /\ selfTest = "starting" /\ selfTest' = "waiting"
    /\ suppressedRuns' = suppressedRuns \union {Probe}
    /\ UNCHANGED <<host, entries, ctxNow, timer, pollInFlight, delivered, poll, stopAll, bounds>>

(* The answer to the start is lost: there is no id to stop or to suppress. *)
SelfTestStartFails ==
    /\ selfTest = "starting" /\ Fails /\ selfTest' = "idle"
    /\ UNCHANGED <<host, entries, ctxNow, timer, delivered, suppressedRuns, stopAll, moves, commands>>
    /\ CallPoll(ctxNow)

SelfTestResponds(j) ==
    /\ selfTest = "waiting" /\ RunOf[j] = Probe /\ Active(Probe) /\ job[j] = "pending"
    /\ job' = [job EXCEPT ![j] = "settled"] /\ selfTest' = "answered"
    /\ UNCHANGED <<run, entries, memory, poll, stopAll, bounds>>

(* Any failure, and a world that did not advance: the run is stopped. *)
SelfTestStops ==
    /\ selfTest \in {"waiting", "answered"} /\ StopRun(Probe) /\ selfTest' = "stopped"
    /\ UNCHANGED <<job, entries, memory, poll, stopAll, bounds>>

SelfTestFinishes ==
    /\ \/ selfTest = "stopped"
       \/ selfTest = "answered" /\ run[Probe] = "released"
    /\ selfTest' = "idle" /\ suppressedRuns' = suppressedRuns \ {Probe}
    /\ UNCHANGED <<host, entries, ctxNow, timer, delivered, stopAll, bounds>> /\ CallPoll(ctxNow)
-----------------------------------------------------------------------------
(* stop-all, confirmed: the active runs of the session, as the host lists   *)
(* them, are stopped one after the other.                                   *)
StopAllLists ==
    /\ Commanded /\ stopAll.at = "idle" /\ ctxNow # Nowhere
    /\ LET active == {r \in Mine(ctxNow) : Active(r)}
       IN stopAll' = [stopAll EXCEPT !.at = "stopping", !.active = active, !.left = active]
    /\ UNCHANGED <<host, entries, memory, poll, selfTest, moves, failures>>

(* Mutant: a run that did not end in time counts as stopped. *)
MutantQuarantine(r) == run'[r] = "ended"
(* A run that stop-all reports: its release is not confirmed.  Whether it   *)
(* is over is not asked.                                                    *)
Quarantine(r) == run'[r] \notin {"freed", "released"}

StopAllStops(r) ==
    /\ stopAll.at = "stopping" /\ r \in stopAll.left /\ StopRun(r)
    /\ stopAll' = [stopAll EXCEPT !.left = @ \ {r},
                       !.quarantined = IF Quarantine(r) THEN @ \union {r} ELSE @]
    /\ UNCHANGED <<job, entries, memory, poll, selfTest, bounds>>

(* A stop that fails ends the command, without a word about the others.     *)
StopAllThrows ==
    /\ stopAll.left # {} /\ Fails /\ stopAll' = NoStopAll
    /\ UNCHANGED <<host, entries, memory, poll, selfTest, moves, commands>>

(* "Safely stopped" when no run is quarantined, "Stopped", with the names   *)
(* of those that are, otherwise.                                            *)
StopAllEnds ==
    /\ stopAll.at = "stopping" /\ stopAll.left = {} /\ stopAll' = NoStopAll
    /\ UNCHANGED <<host, entries, ctxNow, timer, delivered, suppressedRuns, selfTest, bounds>> /\ CallPoll(ctxNow)
-----------------------------------------------------------------------------
(* The runs: they ask, give up questions, release and end. *)
JobAsked(j) ==
    /\ Active(RunOf[j]) /\ job[j] = "none" /\ job' = [job EXCEPT ![j] = "pending"]
    /\ UNCHANGED <<run, entries, memory, poll, selfTest, stopAll, bounds>>

JobLapses(j) ==
    /\ job[j] = "pending" /\ job' = [job EXCEPT ![j] = "settled"]
    /\ UNCHANGED <<run, entries, memory, poll, selfTest, stopAll, bounds>>

RunEnds(r) ==
    /\ Active(r) /\ run' = [run EXCEPT ![r] = IF run[r] = "freed" THEN "released" ELSE "ended"]
    /\ UNCHANGED <<job, entries, memory, poll, selfTest, stopAll, bounds>>

(* Its worker records the release, before RUN_FINISHED or when it leaves.   *)
RunReleases(r) ==
    /\ run[r] \in {"active", "ended"}
    /\ run' = [run EXCEPT ![r] = IF run[r] = "active" THEN "freed" ELSE "released"]
    /\ UNCHANGED <<job, entries, memory, poll, selfTest, stopAll, bounds>>

PollStep(p) == HostLists(p) \/ ListFails(p) \/ Heartbeat(p) \/ Resume(p)
SelfTestStep ==
    \/ SelfTestStarts \/ SelfTestSuppresses \/ SelfTestStartFails \/ SelfTestStops \/ SelfTestFinishes
    \/ \E j \in Job : SelfTestResponds(j)
StopAllStep == StopAllLists \/ StopAllThrows \/ StopAllEnds \/ \E r \in Run : StopAllStops(r)
ToolCall ==
    \/ \E r \in Run : ToolStart(r) \/ ToolStop(r) \/ ToolRelease(r)
    \/ \E j \in Job : ToolRespond(j)
SessionEvent == SessionShutdown \/ PiDies \/ \E b \in Branch : SessionStart(b) \/ SessionTree(b)
HostStep ==
    \/ \E j \in Job : JobAsked(j) \/ JobLapses(j)
    \/ \E r \in Run : RunEnds(r) \/ RunReleases(r)

Next ==
    \/ PollCalled \/ \E p \in Poller : PollStep(p)
    \/ ToolCall \/ SelfTestStep \/ StopAllStep \/ SessionEvent \/ HostStep

Spec == Init /\ [][Next]_vars

(* setInterval() fires, and every await ends: the requests have timeouts,   *)
(* and the self-test gives up when it has looked at its run 60 times.       *)
FairSpec ==
    /\ Spec /\ WF_vars(PollCalled) /\ \A p \in Poller : WF_vars(PollStep(p))
    /\ WF_vars(SelfTestSuppresses \/ SelfTestStops \/ SelfTestFinishes)
-----------------------------------------------------------------------------
(* Types; one poll at most is under way, as pollInFlight says. *)
TypeOK ==
    /\ run \in [Run -> DOMAIN Later]
    /\ job \in [Job -> {"none", "pending", "settled"}]
    /\ entries \in [Branch -> SUBSET Job] /\ ctxNow \in Branch \union {Nowhere}
    /\ timer \in BOOLEAN /\ pollInFlight \in BOOLEAN
    /\ delivered \subseteq Job /\ suppressedRuns \subseteq {Probe}
    /\ poll \in [Poller -> PollState]
    /\ pollInFlight = (\E p \in Poller : poll[p].at # "idle")
    /\ \A p, q \in Poller : poll[p].at # "idle" /\ poll[q].at # "idle" => p = q
    /\ selfTest \in {"idle", "starting", "waiting", "answered", "stopped"}
    /\ stopAll \in StopAllState
    /\ {moves, commands, failures} \subseteq Nat

(* The agent is asked a question at most once in a branch, and only in the  *)
(* session that owns the run, however the timer, the tools and the commands *)
(* start polls -- by every poll that no move overtakes.                     *)
AskedOnce ==
    [][\A p \in Poller :
           poll[p].at = "resume" /\ poll'[p].at = "idle" /\ poll[p].since = moves /\ ctxNow # Nowhere
           => \A j \in poll[p].new \union NewJobs(p, poll[p].beating \union poll[p].left) :
                  j \notin entries[ctxNow] /\ Owner[RunOf[j]] = SessionOf[ctxNow]]_vars

(* When "Safely stopped" is about to be said, the inputs of every run that  *)
(* stop-all listed are released, whatever the runs do by themselves between *)
(* the stops.  It does not mean that they are over.                         *)
SafelyStoppedIsReleased ==
    stopAll.at = "stopping" /\ stopAll.left = {} /\ stopAll.quarantined = {}
        => \A r \in stopAll.active : run[r] \in {"freed", "released"}

(* A question that stays open while its session stays is asked, although    *)
(* requests fail, moves overtake polls and a self-test hides its run for    *)
(* as long as it lasts.                                                     *)
QuestionsAreAsked ==
    \A j \in Job :
        LET Waits == Here(RunOf[j]) /\ Active(RunOf[j]) /\ job[j] = "pending"
        IN Waits ~> j \in delivered \/ ~Waits

(* The lease of an active run is renewed over and over as long as its       *)
(* session stays, although single heartbeats and polls fail, and whatever   *)
(* the run waits for.                                                       *)
LeasesAreRenewed ==
    \A r \in Run \ Detached :
        <>[](Here(r) /\ Active(r))
        => []<><<\E p \in Poller : Heartbeat(p) /\ r \in poll[p].beating /\ UNCHANGED failures>>_vars
-----------------------------------------------------------------------------
(* What the proofs need besides; module DeliveryProofs.                     *)

(* What the extension remembers is what the current branch has on record. *)
MemoryIsTheBranch == ctxNow # Nowhere => delivered = entries[ctxNow]

(* A poll works in a branch; a run that it has not collected from is still  *)
(* on its list, or the one whose heartbeat it awaits.                       *)
PollsAreOrderly ==
    \A p \in Poller :
        /\ poll[p].at # "idle" => poll[p].branch \in Branch /\ poll[p].since <= moves
        /\ poll[p].at = "list" => poll[p].beating = {} /\ poll[p].new = {}
        /\ poll[p].left \intersect poll[p].beating = {}
        /\ \A j \in poll[p].asking : RunOf[j] \in poll[p].left \union poll[p].beating
        /\ \A j \in poll[p].new : RunOf[j] \notin poll[p].left \union poll[p].beating
        /\ \A j \in poll[p].asking \union poll[p].new : Owner[RunOf[j]] = SessionOf[poll[p].branch]

(* A poll that no move has overtaken is in the current branch, and what it  *)
(* has collected is still new there.                                        *)
CollectedIsNew ==
    \A p \in Poller :
        poll[p].at # "idle" /\ poll[p].since = moves
        => /\ ctxNow \in {poll[p].branch, Nowhere}
           /\ ctxNow # Nowhere => poll[p].new \intersect delivered = {}

(* stop-all accounts for every run that it has listed. *)
StopAllAccounts ==
    \A r \in stopAll.active : r \in stopAll.left \union stopAll.quarantined \/ run[r] \in {"freed", "released"}

DeliveryInv == TypeOK /\ MemoryIsTheBranch /\ PollsAreOrderly /\ CollectedIsNew /\ StopAllAccounts
=============================================================================
