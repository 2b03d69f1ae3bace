--------------------------- MODULE DeliveryProofs ---------------------------
(***************************************************************************)
(* Proofs about the pi extension, for any sessions, branches, runs and     *)
(* questions, any number of moves, commands and failing requests.          *)
(***************************************************************************)
EXTENDS Delivery, TLAPS

(* At most one poll is under way, and pollInFlight says whether. *)
OnePoll ==
    /\ pollInFlight = (\E p \in Poller : poll[p].at # "idle")
    /\ \A p, q \in Poller : poll[p].at # "idle" /\ poll[q].at # "idle" => p = q

(* What the invariant says of polls. *)
PollsInv ==
    /\ poll \in [Poller -> PollState] /\ pollInFlight \in BOOLEAN
    /\ OnePoll /\ PollsAreOrderly /\ CollectedIsNew

(* The types of everything else. *)
RestTypes ==
    /\ run \in [Run -> DOMAIN Later]
    /\ job \in [Job -> {"none", "pending", "settled"}]
    /\ entries \in [Branch -> SUBSET Job] /\ ctxNow \in Branch \union {Nowhere}
    /\ timer \in BOOLEAN /\ delivered \subseteq Job /\ suppressedRuns \subseteq {Probe}
    /\ selfTest \in {"idle", "starting", "waiting", "answered", "stopped"}
    /\ stopAll \in StopAllState
    /\ moves \in Nat /\ commands \in Nat /\ failures \in Nat

(* The inductive invariant in the parts that are proved to be kept one by one. *)
LEMMA InvSplits == DeliveryInv <=> RestTypes /\ PollsInv /\ MemoryIsTheBranch /\ StopAllAccounts
BY DEF DeliveryInv, TypeOK, RestTypes, PollsInv, OnePoll

(* The extension starts with nothing under way. *)
LEMMA InitDeliveryInv == Init => DeliveryInv
<1> SUFFICES ASSUME Init PROVE DeliveryInv
    OBVIOUS
<1>1. Idle \in PollState /\ NoStopAll \in StopAllState
    BY DEF Idle, PollState, NoStopAll, StopAllState
<1>2. TypeOK
  <2>1. \A p \in Poller : poll[p] = Idle /\ poll[p].at = "idle"
      BY DEF Init, Idle
  <2>2. poll \in [Poller -> PollState] /\ pollInFlight = (\E p \in Poller : poll[p].at # "idle")
      BY <2>1, <1>1 DEF Init
  <2>3. run \in [Run -> DOMAIN Later] /\ job \in [Job -> {"none", "pending", "settled"}]
      BY DEF Init, Later, Begun
  <2>4. entries \in [Branch -> SUBSET Job] /\ {moves, commands, failures} \subseteq Nat
      BY DEF Init
  <2> QED BY <1>1, <2>1, <2>2, <2>3, <2>4 DEF Init, TypeOK
<1>3. MemoryIsTheBranch /\ PollsAreOrderly /\ CollectedIsNew /\ StopAllAccounts
    BY DeliveryAssumption DEF Init, MemoryIsTheBranch, PollsAreOrderly, CollectedIsNew, StopAllAccounts, Idle, NoStopAll
<1> QED BY <1>2, <1>3 DEF DeliveryInv

(* A call of poll() starts at most one poll, which is in the current branch *)
(* and has collected nothing.                                               *)
LEMMA CallPollKeeps ==
    ASSUME NEW b \in Branch \union {Nowhere}, PollsInv, moves \in Nat, CallPoll(b), moves' \in Nat,
           ctxNow' = b,
           \/ moves' = moves /\ ctxNow' = ctxNow /\ delivered' = delivered
           \/ moves' = moves + 1
    PROVE  PollsInv'
<1>1. CASE UNCHANGED <<pollInFlight, poll>>
    BY <1>1 DEF PollsInv, OnePoll, PollsAreOrderly, CollectedIsNew, PollState
<1>2. CASE ~UNCHANGED <<pollInFlight, poll>>
  <2>1. PICK p \in Poller :
            /\ b \in Branch /\ poll[p].at = "idle" /\ ~pollInFlight /\ pollInFlight' = TRUE
            /\ poll' = [poll EXCEPT ![p] = [Idle EXCEPT !.at = "list", !.branch = b, !.since = moves']]
      <3>1. b # Nowhere /\ ~Busy /\ \E q \in Poller : poll[q].at = "idle"
          BY <1>2 DEF CallPoll
      <3> DEFINE p == CHOOSE q \in Poller : poll[q].at = "idle"
      <3>2. p \in Poller /\ poll[p].at = "idle"
          BY <3>1
      <3>3. /\ pollInFlight' = TRUE
            /\ poll' = [poll EXCEPT ![p] = [Idle EXCEPT !.at = "list", !.branch = b, !.since = moves']]
          BY <1>2, <3>1 DEF CallPoll
      <3> QED BY <3>1, <3>2, <3>3 DEF Busy
  <2>2. /\ poll'[p] = [at |-> "list", branch |-> b, since |-> moves', left |-> {}, beating |-> {}, asking |-> {}, new |-> {}]
        /\ \A q \in Poller \ {p} : poll'[q] = poll[q] /\ poll[q].at = "idle"
        /\ \A q \in Poller : poll[q] \in PollState
      BY <2>1 DEF PollsInv, OnePoll, Idle, PollState
  <2>3. poll' \in [Poller -> PollState]
    <3>1. poll'[p] \in PollState
        BY <2>2, <2>1 DEF PollState
    <3> QED BY <3>1, <2>1, <2>2 DEF PollsInv
  <2>4. OnePoll'
      BY <2>1, <2>2 DEF OnePoll
  <2>5. PollsAreOrderly'
    <3> SUFFICES ASSUME NEW q \in Poller PROVE PollsAreOrderly!(q)'
        BY DEF PollsAreOrderly
    <3>1. CASE q = p
        BY <3>1, <2>2, <2>1
    <3>2. CASE q # p
        BY <3>2, <2>2 DEF PollsInv, PollsAreOrderly
    <3> QED BY <3>1, <3>2
  <2>6. CollectedIsNew'
    <3> SUFFICES ASSUME NEW q \in Poller, poll'[q].at # "idle"
                 PROVE  ctxNow' = poll'[q].branch /\ poll'[q].new = {}
        BY DEF CollectedIsNew
    <3>1. q = p
        BY <2>2
    <3> QED BY <3>1, <2>2
  <2> QED BY <2>1, <2>3, <2>4, <2>5, <2>6 DEF PollsInv
<1> QED BY <1>1, <1>2

(* A poll may be over, with whatever it has asked: *)
LEMMA PollEnds ==
    ASSUME NEW p \in Poller, PollsInv, moves \in Nat, poll[p].at # "idle",
           poll' = [poll EXCEPT ![p] = Idle], pollInFlight' = FALSE, UNCHANGED <<moves, ctxNow>>
    PROVE  PollsInv'
<1>1. /\ poll'[p] = Idle /\ Idle.at = "idle" /\ Idle \in PollState
      /\ \A q \in Poller \ {p} : poll'[q] = poll[q] /\ poll[q].at = "idle"
    BY DEF PollsInv, OnePoll, Idle, PollState
<1>2. \A q \in Poller : poll'[q].at = "idle"
    BY <1>1
<1>3. PollsAreOrderly'
  <2> SUFFICES ASSUME NEW q \in Poller PROVE PollsAreOrderly!(q)'
      BY DEF PollsAreOrderly
  <2>1. CASE q = p
      BY <2>1, <1>1 DEF Idle
  <2>2. CASE q # p
      BY <2>2, <1>1 DEF PollsInv, PollsAreOrderly
  <2> QED BY <2>1, <2>2
<1>4. OnePoll' /\ CollectedIsNew'
    BY <1>2 DEF OnePoll, CollectedIsNew
<1>5. poll' \in [Poller -> PollState]
    BY <1>1 DEF PollsInv
<1> QED BY <1>3, <1>4, <1>5 DEF PollsInv

(* ... or go on in its branch, when what it collects is its session's and   *)
(* not yet delivered.                                                       *)
LEMMA PollGoesOn ==
    ASSUME NEW p \in Poller, PollsInv, NEW s \in PollState,
           poll[p].at # "idle", poll' = [poll EXCEPT ![p] = s], s.at \in {"beat", "resume"},
           s.branch = poll[p].branch, s.since = poll[p].since, s.left \intersect s.beating = {},
           \A j \in s.asking : RunOf[j] \in s.left \union s.beating,
           \A j \in s.new : RunOf[j] \notin s.left \union s.beating,
           \A j \in s.asking \union s.new : Owner[RunOf[j]] = SessionOf[s.branch],
           s.new \intersect delivered = poll[p].new \intersect delivered,
           UNCHANGED <<pollInFlight, moves, ctxNow, delivered>>
    PROVE  PollsInv'
<1>1. /\ poll'[p] = s
      /\ \A q \in Poller \ {p} : poll'[q] = poll[q] /\ poll[q].at = "idle"
    BY DEF PollsInv, OnePoll
<1>2. PollsAreOrderly'
  <2> SUFFICES ASSUME NEW q \in Poller PROVE PollsAreOrderly!(q)'
      BY DEF PollsAreOrderly
  <2>1. CASE q = p
      BY <2>1, <1>1 DEF PollsInv, PollsAreOrderly
  <2>2. CASE q # p
      BY <2>2, <1>1 DEF PollsInv, PollsAreOrderly
  <2> QED BY <2>1, <2>2
<1>3. CollectedIsNew'
    BY <1>1 DEF PollsInv, CollectedIsNew
<1>4. OnePoll'
    BY <1>1 DEF PollsInv, OnePoll
<1>5. poll' \in [Poller -> PollState]
    BY <1>1 DEF PollsInv
<1> QED BY <1>2, <1>3, <1>4, <1>5 DEF PollsInv

(* A step that leaves polls and the memory alone. *)
LEMMA PollsUntouched ==
    ASSUME PollsInv, UNCHANGED <<poll, pollInFlight, moves, delivered>>, ctxNow' \in {ctxNow, Nowhere}
    PROVE  PollsInv'
BY DEF PollsInv, OnePoll, PollsAreOrderly, CollectedIsNew

(* The host's answer to the list. *)
LEMMA HostListsKeeps ==
    ASSUME NEW p \in Poller, PollsInv, HostLists(p)
    PROVE  PollsInv'
<1> DEFINE alive == {r \in Mine(poll[p].branch) : Active(r)}
           asking == {j \in Job : job[j] = "pending" /\ RunOf[j] \in alive}
           s == [poll[p] EXCEPT !.at = "resume", !.left = alive, !.asking = asking]
<1>1. poll[p] \in PollState /\ poll[p].at = "list" /\ poll[p].new = {} /\ poll[p].beating = {}
    BY DEF HostLists, PollsInv, PollsAreOrderly, Mine
<1>2. \A r \in alive : Owner[r] = SessionOf[poll[p].branch]
    BY DEF Mine
<1>3. poll' = [poll EXCEPT ![p].at = "resume", ![p].left = alive, ![p].asking = asking]
    BY DEF HostLists
<1>4. UNCHANGED <<pollInFlight, moves, ctxNow, delivered>>
    BY DEF HostLists, memory, bounds
<1>4a. alive \subseteq Run
    BY DEF Mine
<1> HIDE DEF alive
<1>5. s \in PollState
    BY <1>1, <1>4a DEF PollState
<1>6. poll' = [poll EXCEPT ![p] = s]
    BY <1>1, <1>3 DEF PollsInv, PollState
<1>7. /\ s.at = "resume" /\ s.branch = poll[p].branch /\ s.since = poll[p].since
      /\ s.left = alive /\ s.beating = {} /\ s.asking = asking /\ s.new = {}
    BY <1>1 DEF PollState
<1>8. \A j \in asking : RunOf[j] \in alive
    OBVIOUS
<1> HIDE DEF s
<1>9. /\ \A j \in s.asking : RunOf[j] \in s.left \union s.beating
      /\ \A j \in s.new : RunOf[j] \notin s.left \union s.beating
      /\ \A j \in s.asking \union s.new : Owner[RunOf[j]] = SessionOf[s.branch]
      /\ s.new \intersect delivered = poll[p].new \intersect delivered
      /\ poll[p].at # "idle" /\ s.at \in {"beat", "resume"} /\ s.left \intersect s.beating = {}
    BY <1>1, <1>2, <1>7, <1>8
<1> HIDE DEF asking
<1> QED BY <1>4, <1>5, <1>6, <1>7, <1>9, PollGoesOn

(* A heartbeat is answered, or not. *)
LEMMA HeartbeatKeeps ==
    ASSUME NEW p \in Poller, PollsInv, Heartbeat(p)
    PROVE  PollsInv'
<1> DEFINE s == [poll[p] EXCEPT !.at = "resume"]
<1>1. poll[p] \in PollState /\ poll[p].at = "beat" /\ poll' = [poll EXCEPT ![p] = s]
    BY DEF Heartbeat, PollsInv
<1>2. UNCHANGED <<pollInFlight, moves, ctxNow, delivered>>
    BY DEF Heartbeat, memory
<1>3. /\ s \in PollState /\ s.at = "resume" /\ s.branch = poll[p].branch /\ s.since = poll[p].since
      /\ s.left = poll[p].left /\ s.beating = poll[p].beating /\ s.asking = poll[p].asking /\ s.new = poll[p].new
    BY <1>1 DEF PollState
<1>4. /\ poll[p].left \intersect poll[p].beating = {}
      /\ \A j \in poll[p].asking : RunOf[j] \in poll[p].left \union poll[p].beating
      /\ \A j \in poll[p].new : RunOf[j] \notin poll[p].left \union poll[p].beating
      /\ \A j \in poll[p].asking \union poll[p].new : Owner[RunOf[j]] = SessionOf[poll[p].branch]
    BY DEF PollsInv, PollsAreOrderly
<1> HIDE DEF s
<1> QED BY <1>1, <1>2, <1>3, <1>4, PollGoesOn

(* A poll that resumes collects from runs it has not collected from, and    *)
(* waits for the next heartbeat or is over.                                 *)
LEMMA ResumeKeeps ==
    ASSUME NEW p \in Poller, PollsInv, moves \in Nat, Resume(p)
    PROVE  PollsInv'
<1>1. PICK next \in SUBSET {r \in poll[p].left : ~NeedsBeat(r)} :
          LET new == poll[p].new \union NewJobs(p, poll[p].beating \union next)
              left == poll[p].left \ next
          IN \/ \E r \in left :
                    /\ NeedsBeat(r)
                    /\ poll' = [poll EXCEPT ![p].at = "beat", ![p].beating = {r},
                                    ![p].left = left \ {r}, ![p].new = new,
                                    ![p].asking = {j \in @ : RunOf[j] \in left}]
                    /\ UNCHANGED <<pollInFlight, delivered, entries>>
             \/ /\ left = {}
                /\ poll' = [poll EXCEPT ![p] = Idle] /\ pollInFlight' = FALSE
                /\ Deliver(new)
    BY DEF Resume
<1>2. poll[p] \in PollState /\ poll[p].at = "resume" /\ UNCHANGED <<moves, ctxNow>>
    BY DEF Resume, PollsInv, bounds
<1> DEFINE collected == NewJobs(p, poll[p].beating \union next)
           left == poll[p].left \ next
<1>3. /\ collected \subseteq poll[p].asking /\ collected \intersect delivered = {}
      /\ \A j \in collected : RunOf[j] \in poll[p].beating \union next
    BY DEF NewJobs
<1>4. /\ \A j \in poll[p].new : RunOf[j] \notin poll[p].left \union poll[p].beating
      /\ \A j \in poll[p].asking \union poll[p].new : Owner[RunOf[j]] = SessionOf[poll[p].branch]
      /\ next \subseteq poll[p].left
    BY DEF PollsInv, PollsAreOrderly
<1>5. CASE \E r \in left :
               /\ poll' = [poll EXCEPT ![p].at = "beat", ![p].beating = {r},
                               ![p].left = left \ {r}, ![p].new = poll[p].new \union collected,
                               ![p].asking = {j \in @ : RunOf[j] \in left}]
               /\ UNCHANGED <<pollInFlight, delivered>>
  <2>1. PICK r \in left :
            /\ poll' = [poll EXCEPT ![p].at = "beat", ![p].beating = {r},
                            ![p].left = left \ {r}, ![p].new = poll[p].new \union collected,
                            ![p].asking = {j \in @ : RunOf[j] \in left}]
            /\ UNCHANGED <<pollInFlight, delivered>>
      BY <1>5
  <2> DEFINE rest == {j \in poll[p].asking : RunOf[j] \in left}
             s == [poll[p] EXCEPT !.at = "beat", !.beating = {r}, !.left = left \ {r},
                      !.new = poll[p].new \union collected, !.asking = rest]
  <2> HIDE DEF collected
  <2>2. \A j \in poll[p].new \union collected : RunOf[j] \notin left
    <3>1. poll[p].left \intersect poll[p].beating = {}
        BY DEF PollsInv, PollsAreOrderly
    <3> QED BY <1>3, <1>4, <3>1
  <2>3. s \in PollState
      BY <1>2, <1>3, <2>1 DEF PollState
  <2>5. poll' = [poll EXCEPT ![p] = s]
      BY <2>1 DEF PollsInv
  <2>6. /\ s.at = "beat" /\ s.branch = poll[p].branch /\ s.since = poll[p].since /\ s.left = left \ {r}
        /\ s.beating = {r} /\ s.asking = rest /\ s.new = poll[p].new \union collected
      BY <1>2 DEF PollState
  <2> HIDE DEF s
  <2>4. /\ \A j \in s.asking : RunOf[j] \in s.left \union s.beating
        /\ \A j \in s.new : RunOf[j] \notin s.left \union s.beating
        /\ \A j \in s.asking \union s.new : Owner[RunOf[j]] = SessionOf[s.branch]
        /\ s.new \intersect delivered = poll[p].new \intersect delivered
        /\ s.left \intersect s.beating = {}
      BY <1>3, <1>4, <2>2, <2>6
  <2> QED BY <1>2, <2>1, <2>3, <2>4, <2>5, <2>6, PollGoesOn
<1>6. CASE poll' = [poll EXCEPT ![p] = Idle] /\ pollInFlight' = FALSE
    BY <1>2, <1>6, PollEnds
<1> QED BY <1>1, <1>5, <1>6

(* Every step keeps the polls in order. *)
LEMMA NextPollsInv == RestTypes /\ PollsInv /\ [Next]_vars => PollsInv'
<1> SUFFICES ASSUME RestTypes, PollsInv, [Next]_vars PROVE PollsInv'
    OBVIOUS
<1>0. moves \in Nat /\ ctxNow \in Branch \union {Nowhere}
    BY DEF RestTypes
<1> USE DEF host, memory, bounds
<1>1. CASE UNCHANGED vars
    BY <1>1, PollsUntouched DEF vars
<1>2. CASE PollCalled
    BY <1>0, <1>2, CallPollKeeps DEF PollCalled
<1>3. ASSUME NEW p \in Poller, PollStep(p) PROVE PollsInv'
  <2>1. CASE HostLists(p)
      BY <2>1, HostListsKeeps
  <2>2. CASE ListFails(p)
      BY <1>0, <2>2, PollEnds DEF ListFails
  <2>3. CASE Heartbeat(p)
      BY <2>3, HeartbeatKeeps
  <2>4. CASE Resume(p)
      BY <1>0, <2>4, ResumeKeeps
  <2> QED BY <1>3, <2>1, <2>2, <2>3, <2>4 DEF PollStep
<1>4. CASE ToolCall
    BY <1>4, PollsUntouched DEF ToolCall, ToolStart, ToolStop, ToolRelease, ToolRespond
<1>5. CASE HostStep
    BY <1>5, PollsUntouched DEF HostStep, JobAsked, JobLapses, RunEnds, RunReleases
<1>6. CASE SelfTestStep
  <2>1. CASE SelfTestStarts \/ SelfTestSuppresses \/ SelfTestStops \/ \E j \in Job : SelfTestResponds(j)
      BY <2>1, PollsUntouched DEF SelfTestStarts, SelfTestSuppresses, SelfTestStops, SelfTestResponds
  <2>2. CASE SelfTestStartFails
      BY <1>0, <2>2, CallPollKeeps DEF SelfTestStartFails
  <2>3. CASE SelfTestFinishes
      BY <1>0, <2>3, CallPollKeeps DEF SelfTestFinishes
  <2> QED BY <1>6, <2>1, <2>2, <2>3 DEF SelfTestStep
<1>7. CASE StopAllStep
  <2>1. CASE StopAllLists \/ StopAllThrows \/ \E r \in Run : StopAllStops(r)
      BY <2>1, PollsUntouched DEF StopAllLists, StopAllThrows, StopAllStops
  <2>2. CASE StopAllEnds
      BY <1>0, <2>2, CallPollKeeps DEF StopAllEnds
  <2> QED BY <1>7, <2>1, <2>2 DEF StopAllStep
<1>8. CASE SessionEvent
  <2>1. ASSUME NEW b \in Branch, SessionStart(b) \/ SessionTree(b) PROVE PollsInv'
    <3>1. moves' = moves + 1 /\ ctxNow' = b /\ CallPoll(b)
        BY <2>1 DEF SessionStart, SessionTree, Moves
    <3> QED BY <1>0, <3>1, CallPollKeeps
  <2>2. CASE SessionShutdown
      BY <2>2, PollsUntouched DEF SessionShutdown
  <2>3. CASE PiDies
    <3>1. pollInFlight' = FALSE /\ poll' = [p \in Poller |-> Idle]
        BY <2>3 DEF PiDies
    <3>2. \A p \in Poller : poll'[p] = Idle /\ poll'[p].at = "idle"
        BY <3>1 DEF Idle
    <3>3. Idle \in PollState
        BY DEF Idle, PollState
    <3>4. OnePoll' /\ CollectedIsNew'
        BY <3>1, <3>2 DEF OnePoll, CollectedIsNew
    <3>5. PollsAreOrderly'
      <4> SUFFICES ASSUME NEW q \in Poller PROVE PollsAreOrderly!(q)'
          BY DEF PollsAreOrderly
      <4> QED BY <3>2 DEF Idle
    <3> QED BY <3>1, <3>3, <3>4, <3>5 DEF PollsInv
  <2> QED BY <1>8, <2>1, <2>2, <2>3 DEF SessionEvent
<1> QED
    BY <1>1, <1>2, <1>3, <1>4, <1>5, <1>6, <1>7, <1>8 DEF Next

(* The memory is rebuilt from the branch by every move, and every delivery  *)
(* is recorded in both.                                                     *)
LEMMA NextMemory == RestTypes /\ PollsInv /\ MemoryIsTheBranch /\ [Next]_vars => MemoryIsTheBranch'
<1> SUFFICES ASSUME RestTypes, PollsInv, MemoryIsTheBranch, [Next]_vars PROVE MemoryIsTheBranch'
    OBVIOUS
<1> USE DEF host, memory, bounds, MemoryIsTheBranch
<1>1. CASE UNCHANGED <<ctxNow, delivered, entries>>
    BY <1>1
<1>2. ASSUME NEW p \in Poller, Resume(p) PROVE MemoryIsTheBranch'
  <2>1. CASE UNCHANGED <<ctxNow, delivered, entries>>
      BY <2>1
  <2>2. ASSUME NEW new, Deliver(new), ctxNow' = ctxNow PROVE MemoryIsTheBranch'
      BY <2>2 DEF Deliver, RestTypes
  <2>3. ctxNow' = ctxNow /\ (UNCHANGED <<delivered, entries>> \/ \E new \in SUBSET Job : Deliver(new))
    <3>1. poll[p].new \subseteq Job
        BY DEF PollsInv, PollState
    <3>2. \A next : poll[p].new \union NewJobs(p, poll[p].beating \union next) \in SUBSET Job
        BY <3>1 DEF NewJobs, PollsInv, PollState
    <3> HIDE DEF memory
    <3> QED BY <1>2, <3>2 DEF Resume
  <2> QED BY <2>1, <2>2, <2>3
<1>3. ASSUME NEW b \in Branch, SessionStart(b) \/ SessionTree(b) PROVE MemoryIsTheBranch'
    BY <1>3 DEF SessionStart, SessionTree, Reconstruct
<1>4. CASE SessionShutdown \/ PiDies
    BY <1>4 DEF SessionShutdown, PiDies
<1>5. CASE PollCalled \/ ToolCall \/ HostStep
    BY <1>5, <1>1 DEF PollCalled, ToolCall, ToolStart, ToolStop, ToolRelease, ToolRespond, HostStep, JobAsked, JobLapses, RunEnds, RunReleases
<1>6. CASE SelfTestStep
    BY <1>6, <1>1 DEF SelfTestStep, SelfTestStarts, SelfTestSuppresses, SelfTestStartFails, SelfTestStops,
       SelfTestFinishes, SelfTestResponds
<1>7. CASE StopAllStep
    BY <1>7, <1>1 DEF StopAllStep, StopAllLists, StopAllThrows, StopAllEnds, StopAllStops
<1>8. ASSUME NEW p \in Poller, HostLists(p) \/ ListFails(p) \/ Heartbeat(p) PROVE MemoryIsTheBranch'
    BY <1>8, <1>1 DEF HostLists, ListFails, Heartbeat
<1> QED
    BY <1>1, <1>2, <1>3, <1>4, <1>5, <1>6, <1>7, <1>8 DEF Next, PollStep, SessionEvent, vars

(* What a run can be found as later: a state it can be in. *)
LEMMA LaterStates ==
    /\ DOMAIN Later = {"absent", "active", "freed", "ended", "released"}
    /\ \A state \in DOMAIN Later : Later[state] \subseteq DOMAIN Later
    /\ Later["freed"] = {"freed", "released"} /\ Later["released"] = {"released"}
BY DEF Later

(* A run that is released stays so, whether it is over or not: a host that  *)
(* confirms it once need not be asked again.                                *)
LEMMA ReleasedForGood ==
    ASSUME RestTypes, [Next]_vars, NEW r \in Run, run[r] \in {"freed", "released"}
    PROVE  run'[r] \in {"freed", "released"}
<1> DEFINE Kept == run'[r] \in {"freed", "released"}
<1> USE DEF host, memory, bounds, RestTypes
<1>1. CASE UNCHANGED run
    BY <1>1
<1>2. ASSUME NEW q \in Run, StopRun(q) PROVE Kept
    BY <1>2, LaterStates DEF StopRun
<1>3. ASSUME NEW q \in Run, RunEnds(q) \/ RunReleases(q) \/ ToolRelease(q) PROVE Kept
  <2>1. PICK later : run' = [run EXCEPT ![q] = later] /\ (run[q] = "freed" => later = "released") /\ run[q] # "released"
      BY <1>3 DEF RunEnds, RunReleases, ToolRelease, Active
  <2>2. run \in [Run -> DOMAIN Later]
      OBVIOUS
  <2> HIDE DEF RestTypes
  <2> QED BY <2>1, <2>2
<1>a. ASSUME NEW q \in Run, ToolStart(q) PROVE Kept
    BY <1>a DEF ToolStart
<1>4. CASE ToolCall \/ HostStep
  <2>1. ASSUME NEW q \in Run, ToolStop(q) PROVE Kept
      BY <1>2, <2>1 DEF ToolStop
  <2>2. ASSUME NEW j \in Job, ToolRespond(j) \/ JobAsked(j) \/ JobLapses(j) PROVE Kept
      BY <1>1, <2>2 DEF ToolRespond, JobAsked, JobLapses
  <2> QED BY <1>3, <1>a, <1>4, <2>1, <2>2 DEF ToolCall, HostStep
<1>5. CASE SelfTestStep
    BY <1>1, <1>2, <1>5, DeliveryAssumption DEF SelfTestStep, SelfTestStarts, SelfTestSuppresses, SelfTestStartFails,
       SelfTestStops, SelfTestFinishes, SelfTestResponds
<1>6. CASE StopAllStep
    BY <1>1, <1>2, <1>6 DEF StopAllStep, StopAllLists, StopAllThrows, StopAllEnds, StopAllStops
<1>7. CASE UNCHANGED vars \/ PollCalled \/ SessionEvent
    BY <1>1, <1>7 DEF vars, PollCalled, SessionEvent, SessionStart, SessionTree, SessionShutdown, PiDies
<1>8. ASSUME NEW p \in Poller, PollStep(p) PROVE Kept
    BY <1>1, <1>8 DEF PollStep, HostLists, ListFails, Heartbeat, Resume
<1> QED BY <1>4, <1>5, <1>6, <1>7, <1>8 DEF Next

(* stop-all crosses a run off its list only as released, or reports it. *)
LEMMA NextStopAll == RestTypes /\ StopAllAccounts /\ [Next]_vars => StopAllAccounts'
<1> SUFFICES ASSUME RestTypes, StopAllAccounts, [Next]_vars PROVE StopAllAccounts'
    OBVIOUS
<1> USE DEF host, memory, bounds
<1>1. stopAll.active \subseteq Run
    BY DEF RestTypes, StopAllState
<1>2. CASE UNCHANGED stopAll
    BY <1>1, <1>2, ReleasedForGood DEF StopAllAccounts
<1>3. CASE StopAllLists
    BY <1>3 DEF StopAllLists, StopAllAccounts, RestTypes, StopAllState
<1>4. ASSUME NEW r \in Run, StopAllStops(r) PROVE StopAllAccounts'
  <2>1. /\ stopAll'.active = stopAll.active /\ stopAll'.left = stopAll.left \ {r}
        /\ stopAll'.quarantined = IF Quarantine(r) THEN stopAll.quarantined \union {r} ELSE stopAll.quarantined
      BY <1>4 DEF StopAllStops, RestTypes, StopAllState
  <2>2. ASSUME NEW q \in stopAll.active
        PROVE  q \in stopAll'.left \union stopAll'.quarantined \/ run'[q] \in {"freed", "released"}
    <3>1. CASE run[q] \in {"freed", "released"}
        BY <3>1, <1>1, <2>2, ReleasedForGood
    <3>2. CASE q = r
        BY <2>1, <3>2 DEF Quarantine
    <3>3. CASE q # r /\ run[q] \notin {"freed", "released"}
        BY <2>1, <3>3 DEF StopAllAccounts
    <3> QED BY <3>1, <3>2, <3>3
  <2> QED BY <2>1, <2>2 DEF StopAllAccounts
<1>5. CASE StopAllThrows \/ StopAllEnds \/ PiDies
    BY <1>5 DEF StopAllThrows, StopAllEnds, PiDies, StopAllAccounts, NoStopAll
<1>6. CASE UNCHANGED vars \/ PollCalled \/ ToolCall \/ HostStep
    BY <1>6, <1>2 DEF vars, PollCalled, ToolCall, ToolStart, ToolStop, ToolRelease, ToolRespond, HostStep, JobAsked,
       JobLapses, RunEnds, RunReleases
<1>7. CASE SelfTestStep
    BY <1>7, <1>2 DEF SelfTestStep, SelfTestStarts, SelfTestSuppresses, SelfTestStartFails, SelfTestStops,
       SelfTestFinishes, SelfTestResponds
<1>8. ASSUME NEW p \in Poller, PollStep(p) PROVE StopAllAccounts'
    BY <1>8, <1>2 DEF PollStep, HostLists, ListFails, Heartbeat, Resume
<1>9. ASSUME NEW b \in Branch, SessionStart(b) \/ SessionTree(b) \/ SessionShutdown PROVE StopAllAccounts'
    BY <1>9, <1>2 DEF SessionStart, SessionTree, SessionShutdown
<1> QED
    BY <1>3, <1>4, <1>5, <1>6, <1>7, <1>8, <1>9, DeliveryAssumption DEF Next, SessionEvent, StopAllStep

(* Every step keeps the types of the host, the session and the commands. *)
LEMMA NextRestTypes == RestTypes /\ PollsInv /\ [Next]_vars => RestTypes'
<1> SUFFICES ASSUME RestTypes, PollsInv, [Next]_vars PROVE RestTypes'
    OBVIOUS
<1> USE DeliveryAssumption DEF host, memory, bounds, RestTypes
<1>1. CASE UNCHANGED vars
    BY <1>1 DEF vars
<1>2. CASE PollCalled
    BY <1>2 DEF PollCalled
<1>3. ASSUME NEW p \in Poller, HostLists(p) \/ ListFails(p) \/ Heartbeat(p) PROVE RestTypes'
  <2>1. UNCHANGED <<host, entries, ctxNow, timer, delivered, suppressedRuns, selfTest, stopAll, moves, commands>>
      BY <1>3 DEF HostLists, ListFails, Heartbeat
  <2>2. failures' \in Nat
    <3>1. CASE HostLists(p)
        BY <3>1 DEF HostLists
    <3>2. CASE ListFails(p) \/ Heartbeat(p)
        BY <3>2 DEF ListFails, Heartbeat, Fails
    <3> QED BY <1>3, <3>1, <3>2
  <2> QED BY <2>1, <2>2
<1>4. ASSUME NEW p \in Poller, Resume(p) PROVE RestTypes'
  <2>1. UNCHANGED <<delivered, entries>> \/ \E new \in SUBSET Job : Deliver(new)
    <3>1. poll[p].new \subseteq Job
        BY DEF PollsInv, PollState
    <3>2. \A next : poll[p].new \union NewJobs(p, poll[p].beating \union next) \in SUBSET Job
        BY <3>1 DEF NewJobs, PollsInv, PollState
    <3> QED BY <1>4, <3>2 DEF Resume
  <2>2. delivered' \subseteq Job /\ entries' \in [Branch -> SUBSET Job]
      BY <2>1 DEF Deliver
  <2> QED BY <1>4, <2>2 DEF Resume
<1>5. ASSUME NEW r \in Run, StopRun(r) PROVE run' \in [Run -> DOMAIN Later]
    BY <1>5, LaterStates DEF StopRun
<1>b. \A r \in Run : Begun(r) \in DOMAIN Later
    BY LaterStates DEF Begun
<1>6. CASE ToolCall \/ HostStep
    BY <1>5, <1>b, <1>6, LaterStates DEF ToolCall, ToolStart, ToolStop, ToolRelease, ToolRespond, HostStep, JobAsked,
       JobLapses, RunEnds, RunReleases
<1>7. CASE SelfTestStep
    BY <1>5, <1>b, <1>7 DEF SelfTestStep, SelfTestStarts, SelfTestSuppresses, SelfTestStartFails, SelfTestStops,
       SelfTestFinishes, SelfTestResponds, Commanded, Fails
<1>8. ASSUME NEW b \in Branch, SessionStart(b) \/ SessionTree(b) PROVE RestTypes'
  <2>1. /\ ctxNow' = b /\ timer' \in BOOLEAN /\ delivered' = entries[b] /\ moves' = moves + 1
        /\ UNCHANGED <<host, entries, suppressedRuns, selfTest, stopAll, commands, failures>>
      BY <1>8 DEF SessionStart, SessionTree, Moves, Reconstruct
  <2>2. entries[b] \subseteq Job
      OBVIOUS
  <2> QED BY <2>1, <2>2
<1>9. NoStopAll \in StopAllState
    BY DEF NoStopAll, StopAllState
<1>10. CASE SessionShutdown \/ PiDies
    BY <1>9, <1>10 DEF SessionShutdown, PiDies
<1>11. CASE StopAllThrows \/ StopAllEnds
    BY <1>9, <1>11 DEF StopAllThrows, StopAllEnds, Fails
<1>12. CASE StopAllLists
  <2>1. stopAll' \in StopAllState
      BY <1>12 DEF StopAllLists, StopAllState, Mine
  <2> QED BY <1>12, <2>1 DEF StopAllLists, Commanded
<1>13. ASSUME NEW r \in Run, StopAllStops(r) PROVE RestTypes'
  <2>1. stopAll' \in StopAllState
    <3>1. PICK quarantined \in {stopAll.quarantined, stopAll.quarantined \union {r}} :
              stopAll' = [stopAll EXCEPT !.left = @ \ {r}, !.quarantined = quarantined]
        BY <1>13 DEF StopAllStops, StopAllState
    <3>2. stopAll \in StopAllState
        OBVIOUS
    <3> HIDE DEF RestTypes
    <3> QED BY <3>1, <3>2 DEF StopAllState
  <2>2. run' \in [Run -> DOMAIN Later]
      BY <1>5, <1>13 DEF StopAllStops
  <2>3. UNCHANGED <<job, entries, memory, poll, selfTest, bounds>>
      BY <1>13 DEF StopAllStops
  <2> QED BY <2>1, <2>2, <2>3
<1> QED
    BY <1>1, <1>2, <1>3, <1>4, <1>6, <1>7, <1>8, <1>10, <1>11, <1>12, <1>13 DEF Next, PollStep, SessionEvent, StopAllStep
-----------------------------------------------------------------------------
(* The invariant of the extension holds of every behaviour. *)
THEOREM DeliveryInvariant == Spec => []DeliveryInv
<1>1. DeliveryInv /\ [Next]_vars => DeliveryInv'
  <2>1. RestTypes' /\ PollsInv' /\ MemoryIsTheBranch' /\ StopAllAccounts' => DeliveryInv'
      BY DEF DeliveryInv, TypeOK, RestTypes, PollsInv, OnePoll
  <2> QED BY <2>1, InvSplits, NextRestTypes, NextPollsInv, NextMemory, NextStopAll
<1> QED
    BY <1>1, InitDeliveryInv, PTL DEF Spec

(* Types, and at most one poll under way, as pollInFlight says, whichever   *)
(* of the timer, the tools, the commands and the moves call poll().         *)
THEOREM DeliveryTypes == Spec => []TypeOK
<1>1. DeliveryInv => TypeOK
    BY DEF DeliveryInv
<1> QED
    BY <1>1, DeliveryInvariant, PTL

(* "Safely stopped" is said only when the inputs of every run that was      *)
(* active are released.                                                     *)
THEOREM SafelyStopped == Spec => []SafelyStoppedIsReleased
<1>1. DeliveryInv => SafelyStoppedIsReleased
    BY DEF DeliveryInv, StopAllAccounts, SafelyStoppedIsReleased
<1> QED
    BY <1>1, DeliveryInvariant, PTL

(* A poll that no move overtakes asks only what was not asked before in the *)
(* branch, and only questions of the session's own runs.                    *)
THEOREM QuestionsAskedOnce == Spec => AskedOnce
<1> DEFINE Asks ==
        \A p \in Poller :
           poll[p].at = "resume" /\ poll'[p].at = "idle" /\ poll[p].since = moves /\ ctxNow # Nowhere
           => \A j \in poll[p].new \union NewJobs(p, poll[p].beating \union poll[p].left) :
                  j \notin entries[ctxNow] /\ Owner[RunOf[j]] = SessionOf[ctxNow]
<1>1. DeliveryInv => Asks
  <2> SUFFICES ASSUME DeliveryInv, NEW p \in Poller, poll[p].at = "resume", poll[p].since = moves, ctxNow # Nowhere,
                      NEW j \in poll[p].new \union NewJobs(p, poll[p].beating \union poll[p].left)
               PROVE  j \notin entries[ctxNow] /\ Owner[RunOf[j]] = SessionOf[ctxNow]
      OBVIOUS
  <2>1. ctxNow = poll[p].branch /\ poll[p].new \intersect delivered = {} /\ entries[ctxNow] = delivered
      BY DEF DeliveryInv, CollectedIsNew, MemoryIsTheBranch
  <2>2. j \in poll[p].asking \union poll[p].new /\ j \notin delivered
      BY <2>1 DEF NewJobs
  <2> QED BY <2>1, <2>2 DEF DeliveryInv, PollsAreOrderly
<1>2. DeliveryInv => [Asks]_vars
    BY <1>1
<1> QED
    BY <1>2, DeliveryInvariant, PTL DEF AskedOnce
=============================================================================
