------------------------------ MODULE Journal ------------------------------
(***************************************************************************)
(* The durable journal of a managed run, src/src/jev_loop/host/store.py:   *)
(* events.jsonl, its status.json projection, and the ManagedRecorder of    *)
(* each process that writes them.                                          *)
(*                                                                         *)
(* emit() takes the recorder's RLock, then an flock on the journal,        *)
(* re-reads the file when its size moved, appends one line, and replaces   *)
(* status.json.  A thread is a stack of emit() calls, because a signal     *)
(* handler runs on the main thread, between any two of its steps, and      *)
(* emits too.  A killed process loses its locks and may leave half a line. *)
(* A write that the system refuses raises out of emit() in a process that  *)
(* lives on.  An event is its sequence number.                             *)
(***************************************************************************)
EXTENDS Naturals, Sequences, FiniteSets

CONSTANTS
    Thread,       \* the threads that emit: <<process, "main" or other>>
    Ready,        \* the processes whose recorder is open from the start
    MaxEvents,    \* bound: lines of the journal
    MaxKills,     \* bound: processes killed
    MaxFails,     \* bound: writes that raise after something is on disk
    MaxTorn,      \* bound: lines cut short by a kill or by a failing write
    MaxSignals    \* bound: signals delivered

Proc == {t[1] : t \in Thread}

ASSUME ThreadAssumption == Thread \subseteq Proc \X {"main", "engine"}
ASSUME ReadyAssumption == Ready \subseteq Proc
ASSUME BoundAssumption ==
    /\ MaxEvents \in Nat /\ MaxKills \in Nat /\ MaxFails \in Nat
    /\ MaxTorn \in Nat /\ MaxSignals \in Nat

VARIABLES
    lines,    \* the complete lines of events.jsonl: sequence numbers, 0 for garbage
    tail,     \* what follows the last newline
    status,   \* event_seq of status.json
    cache,    \* ManagedRecorder._state per process: the last event it reflects
    known,    \* ManagedRecorder._known_size per process
    opened,   \* how far ManagedRecorder.open() has got
    stack,    \* per thread, the emit() calls it is in, innermost last
    abandoned,  \* history: the events whose writer died or failed before status.json
    kills, fails, torn, signals

file == <<lines, tail>>
recorders == <<cache, known, opened>>
faults == <<kills, fails, torn, signals>>
vars == <<file, status, recorders, stack, abandoned, faults>>

(* Where an emit() is: waiting for the RLock, for the flock, or holding    *)
(* both.  Mutant: the flock is dropped before status.json is replaced.     *)
MutantCritical == {"synchronize", "append"}

Critical == {"synchronize", "append", "project"}
Stage == {"enter", "lock"} \union Critical

Garbage == 0
(* A write cut short, or cut just before its newline and still valid JSON. *)
Leftover == {"none", "partial", "unterminated"}
Size == <<Len(lines), tail>>

(* load_events() and replay(): a damaged last line is forgiven only while   *)
(* no newline follows it, and the sequence must not skip or repeat.         *)
Readable == \A i \in 1..Len(lines) : lines[i] = i
Loaded == Len(lines) + (IF tail = "unterminated" THEN 1 ELSE 0)

Busy(t) == stack[t] # <<>>
Top(t) == stack[t][Len(stack[t])]
At(t, stage) == Busy(t) /\ Top(t) = stage
GoTo(t, stage) == stack' = [stack EXCEPT ![t][Len(stack[t])] = stage]
Pop(t) == stack' = [stack EXCEPT ![t] = SubSeq(@, 1, Len(@) - 1)]
Frames(t) == {stack[t][i] : i \in 1..Len(stack[t])}
Projecting(t) == \E i \in 1..Len(stack[t]) : stack[t][i] = "project"

(* The RLock is the thread's; the flock belongs to one open file, that is, *)
(* to one emit() and not to the thread or the process.                     *)
RLockFree(t) == \A u \in Thread : u # t /\ u[1] = t[1] => Frames(u) \subseteq {"enter"}
FlockFree == \A u \in Thread : Frames(u) \intersect Critical = {}
-----------------------------------------------------------------------------
(* The starter has written RUN_CREATED. *)
Init ==
    /\ lines = <<1>> /\ tail = "none" /\ status = 1
    /\ opened = [p \in Proc |-> IF p \in Ready THEN "open" ELSE "closed"]
    /\ cache = [p \in Proc |-> IF p \in Ready THEN 1 ELSE 0]
    /\ known = [p \in Proc |-> IF p \in Ready THEN Size ELSE <<0, "none">>]
    /\ stack = [t \in Thread |-> <<>>]
    /\ abandoned = {} /\ kills = 0 /\ fails = 0 /\ torn = 0 /\ signals = 0

(* ManagedRecorder.open() reads the journal without its lock, and __init__  *)
(* takes the size of the file only afterwards.                              *)
OpenLoads(p) ==
    /\ opened[p] = "closed" /\ Readable
    /\ cache' = [cache EXCEPT ![p] = Loaded]
    /\ opened' = [opened EXCEPT ![p] = "loaded"]
    /\ UNCHANGED <<file, status, known, stack, abandoned, faults>>

OpenMeasures(p) ==
    /\ opened[p] = "loaded"
    /\ known' = [known EXCEPT ![p] = Size]
    /\ opened' = [opened EXCEPT ![p] = "open"]
    /\ UNCHANGED <<file, status, cache, stack, abandoned, faults>>

(* emit() is called, outside any other emit() of the thread. *)
Emit(t) ==
    /\ opened[t[1]] = "open" /\ ~Busy(t) /\ Len(lines) < MaxEvents
    /\ stack' = [stack EXCEPT ![t] = <<"enter">>]
    /\ UNCHANGED <<file, status, recorders, abandoned, faults>>

(* on_signal(): the handler emits on the main thread, wherever that is. *)
Signal(t) ==
    /\ t[2] = "main" /\ opened[t[1]] = "open"
    /\ signals < MaxSignals /\ signals' = signals + 1
    /\ stack' = [stack EXCEPT ![t] = Append(@, "enter")]
    /\ UNCHANGED <<file, status, recorders, abandoned, kills, fails, torn>>

TakeRLock(t) ==
    /\ At(t, "enter") /\ RLockFree(t)
    /\ GoTo(t, "lock")
    /\ UNCHANGED <<file, status, recorders, abandoned, faults>>

TakeFlock(t) ==
    /\ At(t, "lock") /\ FlockFree
    /\ GoTo(t, "synchronize")
    /\ UNCHANGED <<file, status, recorders, abandoned, faults>>

(* Mutant: status.json is replaced before the line is on disk. *)
MutantProjectFirst(t) ==
    /\ At(t, "synchronize") /\ Readable
    /\ cache' = [cache EXCEPT ![t[1]] = Loaded]
    /\ known' = [known EXCEPT ![t[1]] = Size]
    /\ status' = Loaded + 1
    /\ GoTo(t, "append")
    /\ UNCHANGED <<file, opened, abandoned, faults>>

(* _synchronize_from_disk(); a journal that cannot be read is refused. *)
Synchronize(t) ==
    /\ At(t, "synchronize")
    /\ LET p == t[1] IN
       \/ known[p] = Size /\ UNCHANGED recorders
       \/ /\ known[p] # Size /\ Readable
          /\ cache' = [cache EXCEPT ![p] = Loaded]
          /\ known' = [known EXCEPT ![p] = Size]
          /\ UNCHANGED opened
    /\ GoTo(t, "append")
    /\ UNCHANGED <<file, status, abandoned, faults>>

(* Mutant: the recorder waits for a state that takes the event. *)
MutantRefuse(t) ==
    /\ At(t, "append")
    /\ GoTo(t, "lock")
    /\ UNCHANGED <<file, status, recorders, abandoned, faults>>

(* Before anything is written, the lock file, the journal, the reducer or   *)
(* the disk may refuse: emit() raises, and its locks are released.          *)
Refuse(t) ==
    /\ At(t, "lock") \/ At(t, "synchronize") \/ At(t, "append")
    /\ Pop(t)
    /\ UNCHANGED <<file, status, recorders, abandoned, faults>>

(* The line joins whatever follows the last newline. *)
WriteLine(p) ==
    /\ lines' = Append(lines, IF tail = "none" THEN cache[p] + 1 ELSE Garbage)
    /\ tail' = "none"

(* A piece of the line, after what an earlier one may have left. *)
TearLine ==
    /\ torn < MaxTorn /\ torn' = torn + 1
    /\ tail' \in (IF tail = "none" THEN Leftover \ {"none"} ELSE {"partial"})
    /\ UNCHANGED lines

AppendLine(t) ==
    /\ At(t, "append")
    /\ WriteLine(t[1])
    /\ cache' = [cache EXCEPT ![t[1]] = @ + 1]
    /\ known' = [known EXCEPT ![t[1]] = Size']
    /\ GoTo(t, "project")
    /\ UNCHANGED <<status, opened, abandoned, faults>>

(* Mutant: the recorder takes the event before the write has succeeded. *)
MutantFailAppending(t) ==
    /\ At(t, "append")
    /\ fails < MaxFails /\ fails' = fails + 1
    /\ \/ WriteLine(t[1]) /\ abandoned' = abandoned \union {Len(lines')} /\ UNCHANGED torn
       \/ TearLine /\ UNCHANGED abandoned
    /\ known' = [known EXCEPT ![t[1]] = Size']
    /\ Pop(t)
    /\ UNCHANGED <<status, cache, opened, kills, signals>>

(* write(), fsync() or stat() raises with the line, or a piece of it, in    *)
(* the file: the recorder has not taken the event, nor the new size.        *)
FailAppending(t) ==
    /\ At(t, "append")
    /\ fails < MaxFails /\ fails' = fails + 1
    /\ \/ WriteLine(t[1]) /\ abandoned' = abandoned \union {Len(lines')} /\ UNCHANGED torn
       \/ TearLine /\ UNCHANGED abandoned
    /\ Pop(t)
    /\ UNCHANGED <<status, recorders, kills, signals>>

(* status.json is replaced, and the locks are released. *)
Project(t) ==
    /\ At(t, "project")
    /\ status' = cache[t[1]]
    /\ Pop(t)
    /\ UNCHANGED <<file, recorders, abandoned, faults>>

(* atomic_write_json() raises: the recorder has taken the event, and the    *)
(* locks are released with the old status.json in place.                    *)
FailProjecting(t) ==
    /\ At(t, "project")
    /\ fails < MaxFails /\ fails' = fails + 1
    /\ abandoned' = abandoned \union {Len(lines)}
    /\ Pop(t)
    /\ UNCHANGED <<file, status, recorders, kills, torn, signals>>
-----------------------------------------------------------------------------
(* A process is killed: its locks are gone and nothing of it runs again. *)
Die(p) ==
    /\ opened[p] # "dead" /\ opened' = [opened EXCEPT ![p] = "dead"]
    /\ stack' = [t \in Thread |-> IF t[1] = p THEN <<>> ELSE stack[t]]
    /\ abandoned' = abandoned \union {n \in {Len(lines)} : \E t \in Thread : t[1] = p /\ Projecting(t)}
    /\ kills < MaxKills /\ kills' = kills + 1
    /\ UNCHANGED <<lines, status, cache, known, fails, signals>>

Kill(p) == Die(p) /\ UNCHANGED <<tail, torn>>

(* In the middle of a write, the kill leaves a piece of the line. *)
KillWriting(t) == At(t, "append") /\ TearLine /\ Die(t[1])

EmitStep(t) ==
    \/ TakeRLock(t) \/ TakeFlock(t) \/ Synchronize(t) \/ Refuse(t)
    \/ AppendLine(t) \/ FailAppending(t) \/ Project(t) \/ FailProjecting(t)

Next ==
    \/ \E p \in Proc : OpenLoads(p) \/ OpenMeasures(p) \/ Kill(p)
    \/ \E t \in Thread : Emit(t) \/ Signal(t) \/ EmitStep(t) \/ KillWriting(t)

Spec == Init /\ [][Next]_vars

(* Every thread is scheduled, and a waiting one is granted a lock that is   *)
(* free again and again: emits are short and rare (the coordinator sleeps   *)
(* 25 ms between its rounds), so no two threads keep a third out forever.   *)
FairSpec ==
    /\ Spec
    /\ \A t \in Thread : WF_vars(EmitStep(t)) /\ SF_vars(TakeRLock(t)) /\ SF_vars(TakeFlock(t))
-----------------------------------------------------------------------------
TypeOK ==
    /\ lines \in Seq(Nat) /\ tail \in Leftover /\ status \in Nat
    /\ cache \in [Proc -> Nat] /\ known \in [Proc -> Nat \X Leftover]
    /\ opened \in [Proc -> {"closed", "loaded", "open", "dead"}]
    /\ stack \in [Thread -> Seq(Stage)]
    /\ abandoned \in SUBSET Nat
    /\ kills \in Nat /\ fails \in Nat /\ torn \in Nat /\ signals \in Nat

(* The journal can be replayed: its events are numbered 1, 2, ... with none *)
(* lost, repeated or damaged (store.py: "events.jsonl is authoritative",    *)
(* and a killed process may leave "only the final append truncated").       *)
JournalIsReplayable == Readable

(* status.json never shows an older state than it has shown, whichever      *)
(* processes write it (a client may act on what it has read).               *)
StatusNeverGoesBack == [][status' >= status]_vars

(* Whenever no emit() holds the flock, status.json is the state of the      *)
(* journal but for events whose writer died or failed before it could       *)
(* replace status.json: an emit() that returns has shown all there was,     *)
(* whichever processes wrote it (clients read status.json instead of the    *)
(* journal, store.py: "an atomic projection used by clients").              *)
StatusIsCurrent == FlockFree /\ Readable => (status + 1)..Len(lines) \subseteq abandoned

(* status.json never tells more than the journal: a state that a client has *)
(* read is not lost in a crash.                                             *)
StatusNotAhead == Readable => status <= Loaded

(* Every emit() returns, or its process dies. *)
EmitsReturn == \A t \in Thread : Busy(t) ~> ~Busy(t)
-----------------------------------------------------------------------------
(* What makes those properties inductive.  At most one frame of one emit()  *)
(* anywhere is past the flock, and a process that emits is open.            *)
LocksExclude ==
    /\ \A t \in Thread : Busy(t) => opened[t[1]] = "open"
    /\ \A t, u \in Thread : \A i \in 1..Len(stack[t]), j \in 1..Len(stack[u]) :
          stack[t][i] \in Critical /\ stack[u][j] \in Critical => t = u /\ i = j

(* Behind the flock nobody else writes: before the line the size is the     *)
(* recorder's, and after a line that keeps the journal readable the         *)
(* recorder reflects the whole of it.                                       *)
CriticalFramesAgree ==
    \A t \in Thread : \A i \in 1..Len(stack[t]) :
        /\ stack[t][i] = "append" => known[t[1]] = Size
        /\ stack[t][i] = "project" /\ Readable => cache[t[1]] = Len(lines)

StatusIsBacked == Readable => status <= Len(lines)

CrashInv == TypeOK /\ LocksExclude /\ CriticalFramesAgree /\ StatusIsBacked

(* An event that status.json does not show yet is being shown, or never     *)
(* will be by its own writer.                                               *)
UnshownAreAbandoned ==
    Readable => \A n \in (status + 1)..Len(lines) :
        n \in abandoned \/ (n = Len(lines) /\ \E t \in Thread : Projecting(t))

(* With every recorder open from the start, a recorder that has the length  *)
(* of the file has its last event, and only the writer of the last line     *)
(* has that length before status.json is replaced.                          *)
RecordersKeepUp ==
    \A p \in Proc :
        /\ opened[p] \in {"open", "dead"}
        /\ known[p][1] <= Len(lines)
        /\ known[p][1] = Len(lines) => status <= cache[p]
        /\ known[p] = Size /\ torn = 0 => cache[p] = Len(lines)

WriterIsAhead ==
    \A t \in Thread : Projecting(t) =>
        /\ known[t[1]] = Size
        /\ \A q \in Proc \ {t[1]} : known[q][1] < Len(lines)

(* Only a write that was cut short damages the journal. *)
DamageIsTorn == torn = 0 => tail = "none" /\ Readable

JournalInv == CrashInv /\ RecordersKeepUp /\ WriterIsAhead /\ DamageIsTorn
-----------------------------------------------------------------------------
Log == INSTANCE EventLog WITH
    Writer <- Thread,
    log <- lines,
    shown <- status,
    showing <- {t \in Thread : Projecting(t)}

(* While no write is cut short, the emit() calls of all                     *)
(* processes together keep EventLog: no event is lost, repeated or out of   *)
(* turn, no two calls are between the journal and status.json, and what     *)
(* status.json shows is always the whole journal as it then is.             *)
LogSpec == Log!LogSpec
=============================================================================
