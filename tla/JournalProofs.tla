--------------------------- MODULE JournalProofs ---------------------------
(***************************************************************************)
(* Proofs about the journal, for any number of processes, threads and      *)
(* events, killed, signalled and refused by the disk at any step.  Two     *)
(* inductive invariants:                                                   *)
(* CrashInv needs nothing; JournalInv needs every recorder to be open from *)
(* the start (Ready = Proc), because ManagedRecorder.open() reads the      *)
(* journal without its lock.                                               *)
(***************************************************************************)
EXTENDS Journal, SequenceTheorems, TLAPS

(* A sequence without its last element. *)
LEMMA AllButLast ==
    ASSUME NEW S, NEW s \in Seq(S), s # <<>>
    PROVE  /\ SubSeq(s, 1, Len(s) - 1) \in Seq(S)
           /\ Len(SubSeq(s, 1, Len(s) - 1)) = Len(s) - 1
           /\ \A i \in 1..(Len(s) - 1) : SubSeq(s, 1, Len(s) - 1)[i] = s[i]
<1> DEFINE m == Len(s) - 1
           front == SubSeq(s, 1, m)
<1>1. m \in Nat /\ 1 \in Int /\ \A i \in 1..m : s[i] \in S
      OBVIOUS
<1> HIDE DEF m
<1>2. front \in Seq(S)
      BY <1>1, SubSeqProperties
<1>3. Len(front) = m
      BY <1>1, SubSeqProperties
<1>4. \A i \in 1..m : front[i] = s[i]
      BY <1>1, SubSeqProperties
<1> HIDE DEF front
<1> QED BY <1>2, <1>3, <1>4 DEF m, front

(* A thread that moves on changes the top of its stack and nothing else. *)
LEMMA GoToFrames ==
    ASSUME stack \in [Thread -> Seq(Stage)], NEW t \in Thread, Busy(t), NEW s \in Stage, GoTo(t, s)
    PROVE  /\ stack' \in [Thread -> Seq(Stage)]
           /\ \A u \in Thread : Len(stack'[u]) = Len(stack[u])
           /\ \A u \in Thread : \A i \in 1..Len(stack[u]) :
                 stack'[u][i] = IF u = t /\ i = Len(stack[t]) THEN s ELSE stack[u][i]
<1> DEFINE n == Len(stack[t])
           top == [stack[t] EXCEPT ![n] = s]
<1>1. stack[t] \in Seq(Stage) /\ n \in Nat /\ n # 0 /\ n \in 1..n
      BY DEF Busy
<1>2. top \in Seq(Stage) /\ Len(top) = n /\ \A i \in 1..n : top[i] = IF i = n THEN s ELSE stack[t][i]
      BY <1>1
<1>3. stack' = [stack EXCEPT ![t] = top]
      BY DEF GoTo
<1>4. stack'[t] = top /\ \A u \in Thread \ {t} : stack'[u] = stack[u]
      BY <1>3
<1> HIDE DEF top
<1>5. stack' \in [Thread -> Seq(Stage)]
      BY <1>2, <1>3
<1> QED BY <1>2, <1>4, <1>5

(* A thread whose emit() returns loses the top of its stack. *)
LEMMA PopFrames ==
    ASSUME stack \in [Thread -> Seq(Stage)], NEW t \in Thread, Busy(t), Pop(t)
    PROVE  /\ stack' \in [Thread -> Seq(Stage)]
           /\ \A u \in Thread : Busy(u)' => Busy(u)
           /\ \A u \in Thread : \A i \in 1..Len(stack'[u]) :
                 i \in 1..Len(stack[u]) /\ stack'[u][i] = stack[u][i] /\ (u = t => i # Len(stack[t]))
<1> DEFINE n == Len(stack[t])
           rest == SubSeq(stack[t], 1, n - 1)
<1>1. stack[t] \in Seq(Stage) /\ n \in Nat /\ n # 0 /\ stack[t] # <<>>
      BY DEF Busy
<1>2. rest \in Seq(Stage) /\ Len(rest) = n - 1 /\ \A i \in 1..(n - 1) : rest[i] = stack[t][i]
      BY <1>1, AllButLast
<1>3. stack' = [stack EXCEPT ![t] = rest]
      BY DEF Pop
<1> HIDE DEF rest
<1>4. stack' \in [Thread -> Seq(Stage)] /\ stack'[t] = rest /\ \A u \in Thread \ {t} : stack'[u] = stack[u]
      BY <1>2, <1>3
<1>5. \A u \in Thread : Busy(u)' => Busy(u)
      BY <1>4 DEF Busy
<1>6. \A i \in 1..Len(rest) : i \in 1..n /\ rest[i] = stack[t][i] /\ i # n
      BY <1>1, <1>2
<1> QED BY <1>4, <1>5, <1>6

(* A signal handler's emit() is a frame above those of its thread. *)
LEMMA PushFrames ==
    ASSUME stack \in [Thread -> Seq(Stage)], NEW t \in Thread, NEW s \in Stage,
           stack' = [stack EXCEPT ![t] = Append(@, s)]
    PROVE  /\ stack' \in [Thread -> Seq(Stage)]
           /\ Len(stack'[t]) = Len(stack[t]) + 1 /\ stack'[t][Len(stack[t]) + 1] = s
           /\ \A u \in Thread \ {t} : stack'[u] = stack[u]
           /\ \A i \in 1..Len(stack[t]) : stack'[t][i] = stack[t][i]
<1> DEFINE more == Append(stack[t], s)
<1>1. /\ more \in Seq(Stage) /\ Len(more) = Len(stack[t]) + 1 /\ more[Len(stack[t]) + 1] = s
      /\ \A i \in 1..Len(stack[t]) : more[i] = stack[t][i]
      BY AppendProperties
<1>2. stack' = [stack EXCEPT ![t] = more]
      OBVIOUS
<1> HIDE DEF more
<1> QED BY <1>1, <1>2

(* The initial states satisfy the invariant of a journal that meets kills.  *)
LEMMA InitCrashInv == Init => CrashInv
<1> SUFFICES ASSUME Init PROVE CrashInv
    OBVIOUS
<1>1. lines \in Seq(Nat) /\ Len(lines) = 1 /\ lines[1] = 1 /\ Size = <<1, "none">>
      BY DEF Init, Size
<1>2. TypeOK
      BY <1>1 DEF Init, TypeOK, Leftover
<1> QED BY <1>1, <1>2 DEF Init, CrashInv, LocksExclude, CriticalFramesAgree, StatusIsBacked, Readable, Busy

(* The top of a busy thread's stack is one of its frames. *)
LEMMA TopIsFrame ==
    ASSUME stack \in [Thread -> Seq(Stage)], NEW t \in Thread, Busy(t)
    PROVE  Len(stack[t]) \in 1..Len(stack[t]) /\ Len(stack[t]) \in Nat /\ Top(t) = stack[t][Len(stack[t])]
<1>1. stack[t] \in Seq(Stage) /\ stack[t] # <<>>
      BY DEF Busy
<1> QED BY <1>1 DEF Top

(* A free flock means that no frame is past it. *)
LEMMA FreeMeansNoFrame ==
    ASSUME FlockFree, NEW t \in Thread, NEW i \in 1..Len(stack[t])
    PROVE  stack[t][i] \notin Critical
<1>1. stack[t][i] \in Frames(t)
      BY DEF Frames
<1> QED BY <1>1 DEF FlockFree

(* The stack after a step keeps the frames of the flock apart: a thread gets *)
(* past the flock only from behind it, or when nobody is there.              *)
LEMMA GoToExcludes ==
    ASSUME TypeOK, LocksExclude, NEW t \in Thread, Busy(t), NEW s \in Stage, GoTo(t, s),
           s \in Critical => Top(t) \in Critical \/ FlockFree, UNCHANGED opened
    PROVE  LocksExclude'
<1>1. stack \in [Thread -> Seq(Stage)]
      BY DEF TypeOK
<1>2. /\ \A u \in Thread : Len(stack'[u]) = Len(stack[u])
      /\ \A u \in Thread : \A i \in 1..Len(stack[u]) :
            stack'[u][i] = IF u = t /\ i = Len(stack[t]) THEN s ELSE stack[u][i]
      /\ stack' \in [Thread -> Seq(Stage)]
      BY <1>1, GoToFrames
<1>3. Len(stack[t]) \in 1..Len(stack[t]) /\ Top(t) = stack[t][Len(stack[t])]
      BY <1>1, TopIsFrame
<1>4. ASSUME NEW u \in Thread, Busy(u)' PROVE opened'[u[1]] = "open"
  <2>1. stack[u] \in Seq(Stage) /\ stack'[u] \in Seq(Stage) /\ Len(stack'[u]) = Len(stack[u])
        BY <1>1, <1>2
  <2>2. Busy(u)
        BY <1>4, <2>1 DEF Busy
  <2> QED BY <2>2 DEF LocksExclude
<1>5. ASSUME NEW u \in Thread, NEW v \in Thread,
             NEW i \in 1..Len(stack'[u]), NEW j \in 1..Len(stack'[v]),
             stack'[u][i] \in Critical, stack'[v][j] \in Critical
      PROVE  u = v /\ i = j
  <2>1. i \in 1..Len(stack[u]) /\ j \in 1..Len(stack[v])
        BY <1>2
  <2>2. CASE FlockFree
    <3>1. stack[u][i] \notin Critical /\ stack[v][j] \notin Critical
          BY <2>1, <2>2, FreeMeansNoFrame
    <3> QED BY <1>2, <1>5, <2>1, <3>1
  <2>3. CASE ~FlockFree
    <3>1. s \in Critical => stack[t][Len(stack[t])] \in Critical
          BY <1>3, <2>3
    <3>2. stack[u][i] \in Critical /\ stack[v][j] \in Critical
          BY <1>2, <1>5, <2>1, <3>1
    <3> QED BY <2>1, <3>2 DEF LocksExclude
  <2> QED BY <2>2, <2>3
<1> QED BY <1>4, <1>5 DEF LocksExclude

(* An emit() that returns lets nobody past the flock. *)
LEMMA PopExcludes ==
    ASSUME TypeOK, LocksExclude, NEW t \in Thread, Busy(t), Pop(t), UNCHANGED opened
    PROVE  LocksExclude'
<1>1. stack \in [Thread -> Seq(Stage)]
      BY DEF TypeOK
<1>2. /\ \A u \in Thread : Busy(u)' => Busy(u)
      /\ \A u \in Thread : \A i \in 1..Len(stack'[u]) : i \in 1..Len(stack[u]) /\ stack'[u][i] = stack[u][i]
      BY <1>1, PopFrames
<1>3. ASSUME NEW u \in Thread, NEW v \in Thread,
             NEW i \in 1..Len(stack'[u]), NEW j \in 1..Len(stack'[v]),
             stack'[u][i] \in Critical, stack'[v][j] \in Critical
      PROVE  u = v /\ i = j
  <2>1. /\ i \in 1..Len(stack[u]) /\ stack'[u][i] = stack[u][i]
        /\ j \in 1..Len(stack[v]) /\ stack'[v][j] = stack[v][j]
        BY <1>2
  <2> QED BY <1>3, <2>1 DEF LocksExclude
<1> QED BY <1>2, <1>3 DEF LocksExclude

(* Neither does a new frame, which is before the flock. *)
LEMMA PushExcludes ==
    ASSUME LocksExclude, UNCHANGED opened, NEW t \in Thread, opened[t[1]] = "open",
           \A u \in Thread \ {t} : stack'[u] = stack[u],
           \A u \in Thread : \A i \in 1..Len(stack'[u]) :
               \/ i \in 1..Len(stack[u]) /\ stack'[u][i] = stack[u][i]
               \/ stack'[u][i] \notin Critical
    PROVE  LocksExclude'
<1>1. \A u \in Thread : Busy(u)' => opened'[u[1]] = "open"
      BY DEF LocksExclude, Busy
<1>2. ASSUME NEW u \in Thread, NEW v \in Thread,
             NEW i \in 1..Len(stack'[u]), NEW j \in 1..Len(stack'[v]),
             stack'[u][i] \in Critical, stack'[v][j] \in Critical
      PROVE  u = v /\ i = j
  <2>1. /\ i \in 1..Len(stack[u]) /\ stack'[u][i] = stack[u][i]
        /\ j \in 1..Len(stack[v]) /\ stack'[v][j] = stack[v][j]
        BY <1>2
  <2> QED BY <1>2, <2>1 DEF LocksExclude
<1> QED BY <1>1, <1>2 DEF LocksExclude

(* Whoever is past the flock is alone there. *)
LEMMA AloneInCritical ==
    ASSUME LocksExclude, stack \in [Thread -> Seq(Stage)], NEW t \in Thread, Busy(t), Top(t) \in Critical,
           NEW u \in Thread, NEW i \in 1..Len(stack[u]), stack[u][i] \in Critical
    PROVE  u = t /\ i = Len(stack[t])
<1>1. Len(stack[t]) \in 1..Len(stack[t]) /\ Top(t) = stack[t][Len(stack[t])]
      BY TopIsFrame
<1> QED BY <1>1 DEF LocksExclude

(* Who takes no frame to "append" or "project" leaves the agreement of those *)
(* that are there alone.                                                     *)
LEMMA AgreementStays ==
    ASSUME CriticalFramesAgree, UNCHANGED <<lines, tail, known, cache>>,
           \A u \in Thread : \A i \in 1..Len(stack'[u]) :
               \/ i \in 1..Len(stack[u]) /\ stack'[u][i] = stack[u][i]
               \/ stack'[u][i] \notin {"append", "project"}
    PROVE  CriticalFramesAgree'
    BY DEF CriticalFramesAgree, Readable, Size

(* A whole line: what the file then holds, and what a journal that is still *)
(* readable says of the recorder that wrote it.                              *)
LEMMA NewLine ==
    ASSUME TypeOK, NEW p \in Proc, WriteLine(p)
    PROVE  /\ lines' \in Seq(Nat) /\ Len(lines') = Len(lines) + 1 /\ Len(lines) \in Nat
           /\ \A i \in 1..Len(lines) : lines'[i] = lines[i]
           /\ Readable' => Readable /\ cache[p] = Len(lines)
           /\ tail = "none" /\ cache[p] = Len(lines) => lines' = Append(lines, Len(lines) + 1)
           /\ Readable /\ tail = "none" /\ cache[p] = Len(lines) => Readable'
<1> DEFINE line == IF tail = "none" THEN cache[p] + 1 ELSE Garbage
<1>1. lines \in Seq(Nat) /\ Len(lines) \in Nat /\ cache[p] \in Nat /\ line \in Nat
      BY DEF TypeOK, Garbage
<1>2. lines' = Append(lines, line)
      BY DEF WriteLine
<1>3. /\ lines' \in Seq(Nat) /\ Len(lines') = Len(lines) + 1 /\ lines'[Len(lines) + 1] = line
      /\ \A i \in 1..Len(lines) : lines'[i] = lines[i]
      BY <1>1, <1>2, AppendProperties
<1>4. ASSUME Readable' PROVE Readable /\ cache[p] = Len(lines)
  <2>1. \A i \in 1..(Len(lines) + 1) : lines'[i] = i
        BY <1>3, <1>4 DEF Readable
  <2>2. line = Len(lines) + 1
        BY <1>1, <1>3, <2>1
  <2>3. line = cache[p] + 1
        BY <1>1, <2>2 DEF Garbage
  <2> HIDE DEF line
  <2> QED BY <1>1, <1>3, <2>1, <2>2, <2>3 DEF Readable
<1>5. ASSUME Readable, tail = "none", cache[p] = Len(lines) PROVE Readable'
  <2>1. \A i \in 1..(Len(lines) + 1) : i \in 1..Len(lines) \/ i = Len(lines) + 1
        BY <1>1
  <2> QED BY <1>3, <1>5, <2>1 DEF Readable
<1> QED BY <1>1, <1>2, <1>3, <1>4, <1>5

(* A step that ends with nobody past the flock leaves nobody to agree. *)
LEMMA PopLeavesNobody ==
    ASSUME LocksExclude, stack \in [Thread -> Seq(Stage)], NEW t \in Thread, Busy(t),
           Top(t) \in Critical, Pop(t)
    PROVE  \A u \in Thread : \A i \in 1..Len(stack'[u]) : stack'[u][i] \notin Critical
<1>1. \A u \in Thread : \A i \in 1..Len(stack'[u]) :
          i \in 1..Len(stack[u]) /\ stack'[u][i] = stack[u][i] /\ (u = t => i # Len(stack[t]))
      BY PopFrames
<1>2. \A u \in Thread : \A i \in 1..Len(stack[u]) :
          stack[u][i] \in Critical => u = t /\ i = Len(stack[t])
      BY AloneInCritical
<1> QED BY <1>1, <1>2

(* What is abandoned are numbers of lines. *)
LEMMA AbandonedLines ==
    ASSUME NEW A \in SUBSET Nat, NEW n \in Nat, NEW B, B \subseteq {n}
    PROVE  A \union B \in SUBSET Nat
OBVIOUS

(* Every step of emit(), of a signal, of open() and of a kill keeps it. *)
LEMMA NextCrashInv == CrashInv /\ [Next]_vars => CrashInv'
<1> SUFFICES ASSUME CrashInv, [Next]_vars PROVE CrashInv'
    OBVIOUS
<1> USE ThreadAssumption, BoundAssumption DEF CrashInv, TypeOK, StatusIsBacked, file, recorders, faults
<1>0. ASSUME UNCHANGED vars PROVE CrashInv'
  <2>1. TypeOK'
        BY <1>0 DEF vars
  <2>2. LocksExclude'
        BY <1>0 DEF vars, LocksExclude, Busy
  <2>3. CriticalFramesAgree' /\ StatusIsBacked'
        BY <1>0 DEF vars, CriticalFramesAgree, Readable, Size
  <2> QED BY <2>1, <2>2, <2>3
<1>a. \A t \in Thread : t[1] \in Proc
      BY DEF Proc
<1>b. \A t \in Thread : Busy(t) => Len(stack[t]) \in 1..Len(stack[t]) /\ Len(stack[t]) \in Nat /\ Top(t) = stack[t][Len(stack[t])]
      BY TopIsFrame
<1>1. ASSUME NEW p \in Proc, OpenLoads(p) PROVE CrashInv'
  <2> USE <1>1 DEF OpenLoads
  <2>1. TypeOK'
        BY DEF Loaded
  <2>2. \A t \in Thread : Busy(t) => t[1] # p
        BY DEF LocksExclude
  <2>3. LocksExclude'
        BY <1>a, <2>2 DEF LocksExclude, Busy
  <2>4. \A t \in Thread, i \in Nat : i \in 1..Len(stack[t]) => Busy(t)
        BY DEF Busy
  <2>5. CriticalFramesAgree'
        BY <1>a, <2>2, <2>4 DEF CriticalFramesAgree, Readable, Size
  <2> QED BY <2>1, <2>3, <2>5 DEF Readable
<1>2. ASSUME NEW p \in Proc, OpenMeasures(p) PROVE CrashInv'
  <2> USE <1>2 DEF OpenMeasures
  <2>1. TypeOK'
        BY DEF Size
  <2>2. \A t \in Thread : Busy(t) => t[1] # p
        BY DEF LocksExclude
  <2>3. LocksExclude'
        BY <1>a, <2>2 DEF LocksExclude, Busy
  <2>4. \A t \in Thread, i \in Nat : i \in 1..Len(stack[t]) => Busy(t)
        BY DEF Busy
  <2>5. CriticalFramesAgree'
        BY <1>a, <2>2, <2>4 DEF CriticalFramesAgree, Readable, Size
  <2> QED BY <2>1, <2>3, <2>5 DEF Readable
<1>3. ASSUME NEW t \in Thread, Emit(t) PROVE CrashInv'
  <2> USE <1>3 DEF Emit
  <2>1. <<"enter">> \in Seq(Stage) /\ Len(<<"enter">>) = 1 /\ <<"enter">>[1] = "enter" /\ "enter" \notin Critical
        BY DEF Stage, Critical
  <2>2. stack'[t] = <<"enter">> /\ \A u \in Thread \ {t} : stack'[u] = stack[u]
        OBVIOUS
  <2>3. TypeOK'
        BY <2>1
  <2>4. \A u \in Thread : \A i \in 1..Len(stack'[u]) :
            \/ i \in 1..Len(stack[u]) /\ stack'[u][i] = stack[u][i]
            \/ stack'[u][i] = "enter"
        BY <2>1, <2>2
  <2>5. LocksExclude'
    <3>1. \A u \in Thread : \A i \in 1..Len(stack'[u]) :
              \/ i \in 1..Len(stack[u]) /\ stack'[u][i] = stack[u][i]
              \/ stack'[u][i] \notin Critical
          BY <2>1, <2>4
    <3>2. UNCHANGED opened /\ opened[t[1]] = "open"
          OBVIOUS
    <3> HIDE <1>3
    <3> QED BY <2>2, <3>1, <3>2, PushExcludes
  <2>6. CriticalFramesAgree'
        BY <2>4, AgreementStays
  <2> QED BY <2>3, <2>5, <2>6 DEF Readable
<1>4. ASSUME NEW t \in Thread, Signal(t) PROVE CrashInv'
  <2> USE <1>4 DEF Signal
  <2>1. "enter" \in Stage /\ "enter" \notin Critical /\ Len(stack[t]) \in Nat
        BY DEF Stage, Critical
  <2>2. /\ stack' \in [Thread -> Seq(Stage)]
        /\ Len(stack'[t]) = Len(stack[t]) + 1 /\ stack'[t][Len(stack[t]) + 1] = "enter"
        /\ \A u \in Thread \ {t} : stack'[u] = stack[u]
        /\ \A i \in 1..Len(stack[t]) : stack'[t][i] = stack[t][i]
        BY <2>1, PushFrames
  <2>3. TypeOK'
        BY <2>2
  <2>4. \A u \in Thread : \A i \in 1..Len(stack'[u]) :
            \/ i \in 1..Len(stack[u]) /\ stack'[u][i] = stack[u][i]
            \/ stack'[u][i] = "enter"
    <3> HIDE <1>4
    <3> TAKE u \in Thread
    <3> TAKE i \in 1..Len(stack'[u])
    <3>1. CASE u # t
        BY <3>1, <2>2
    <3>2. CASE u = t /\ i = Len(stack[t]) + 1
        BY <3>2, <2>2
    <3>3. CASE u = t /\ i # Len(stack[t]) + 1
        BY <3>3, <2>1, <2>2
    <3> QED BY <3>1, <3>2, <3>3
  <2>5. LocksExclude'
    <3>0. UNCHANGED opened /\ opened[t[1]] = "open"
          OBVIOUS
    <3> HIDE <1>4
    <3>1. \A u \in Thread : \A i \in 1..Len(stack'[u]) :
              \/ i \in 1..Len(stack[u]) /\ stack'[u][i] = stack[u][i]
              \/ stack'[u][i] \notin Critical
          BY <2>1, <2>4, Zenon
    <3> QED BY <2>2, <3>1, <3>0, PushExcludes
  <2>6. CriticalFramesAgree'
        BY <2>4, AgreementStays
  <2> QED BY <2>3, <2>5, <2>6 DEF Readable
<1>5. ASSUME NEW t \in Thread, TakeRLock(t) PROVE CrashInv'
  <2> USE <1>5 DEF TakeRLock, At
  <2>1. "lock" \in Stage /\ "lock" \notin Critical
        BY DEF Stage, Critical
  <2>2. /\ stack' \in [Thread -> Seq(Stage)]
        /\ \A u \in Thread : Len(stack'[u]) = Len(stack[u])
        /\ \A u \in Thread : \A i \in 1..Len(stack[u]) :
              stack'[u][i] = IF u = t /\ i = Len(stack[t]) THEN "lock" ELSE stack[u][i]
        BY <2>1, GoToFrames
  <2>3. LocksExclude'
        BY <2>1, GoToExcludes
  <2>4. CriticalFramesAgree'
        BY <2>2, AgreementStays
  <2> QED BY <2>2, <2>3, <2>4 DEF Readable
<1>6. ASSUME NEW t \in Thread, TakeFlock(t) PROVE CrashInv'
  <2> USE <1>6 DEF TakeFlock, At
  <2>1. "synchronize" \in Stage
        BY DEF Stage, Critical
  <2>2. /\ stack' \in [Thread -> Seq(Stage)]
        /\ \A u \in Thread : Len(stack'[u]) = Len(stack[u])
        /\ \A u \in Thread : \A i \in 1..Len(stack[u]) :
              stack'[u][i] = IF u = t /\ i = Len(stack[t]) THEN "synchronize" ELSE stack[u][i]
        BY <2>1, GoToFrames
  <2>3. LocksExclude'
        BY <2>1, GoToExcludes
  <2>4. CriticalFramesAgree'
        BY <2>2, AgreementStays
  <2> QED BY <2>2, <2>3, <2>4 DEF Readable
<1>7. ASSUME NEW t \in Thread, Synchronize(t) PROVE CrashInv'
  <2> USE <1>7 DEF At
  <2>1. "append" \in Stage /\ Top(t) = "synchronize" /\ Busy(t) /\ "synchronize" \in Critical
        /\ {"append", "project"} \subseteq Critical
        BY DEF Synchronize, Stage, Critical
  <2>2. \A u \in Thread : \A i \in 1..Len(stack[u]) : stack[u][i] \in Critical => u = t /\ i = Len(stack[t])
        BY <2>1, AloneInCritical
  <2>3. \A u \in Thread : \A i \in 1..Len(stack[u]) : stack[u][i] \notin {"append", "project"}
        BY <1>b, <2>1, <2>2
  <2>4. CASE GoTo(t, "append") /\ known'[t[1]] = Size /\ cache' \in [Proc -> Nat] /\ known' \in [Proc -> Nat \X Leftover]
             /\ UNCHANGED <<file, status, opened, abandoned, faults>>
    <3>1. /\ stack' \in [Thread -> Seq(Stage)]
          /\ \A u \in Thread : Len(stack'[u]) = Len(stack[u])
          /\ \A u \in Thread : \A i \in 1..Len(stack[u]) :
                stack'[u][i] = IF u = t /\ i = Len(stack[t]) THEN "append" ELSE stack[u][i]
          BY <2>1, <2>4, GoToFrames
    <3>2. LocksExclude'
          BY <2>1, <2>4, GoToExcludes
    <3>3. \A u \in Thread : \A i \in 1..Len(stack'[u]) :
              stack'[u][i] # "project" /\ (stack'[u][i] = "append" => u = t)
          BY <2>3, <3>1
    <3>4. known'[t[1]] = Size'
          BY <2>4 DEF Size
    <3>5. CriticalFramesAgree'
          BY <3>3, <3>4 DEF CriticalFramesAgree
    <3> QED BY <2>4, <3>1, <3>2, <3>5 DEF Readable
  <2>5. Size \in Nat \X Leftover /\ Loaded \in Nat /\ t[1] \in Proc
        BY <1>a DEF Size, Loaded
  <2> QED BY <2>4, <2>5 DEF Synchronize
<1>8. ASSUME NEW t \in Thread, Refuse(t) PROVE CrashInv'
  <2> USE <1>8 DEF Refuse, At
  <2>1. /\ stack' \in [Thread -> Seq(Stage)]
        /\ \A u \in Thread : \A i \in 1..Len(stack'[u]) :
              i \in 1..Len(stack[u]) /\ stack'[u][i] = stack[u][i] /\ (u = t => i # Len(stack[t]))
        BY PopFrames
  <2>2. LocksExclude'
        BY PopExcludes
  <2>3. CriticalFramesAgree'
        BY <2>1, AgreementStays
  <2> QED BY <2>1, <2>2, <2>3 DEF Readable
<1>9. ASSUME NEW t \in Thread, AppendLine(t) PROVE CrashInv'
  <2> DEFINE p == t[1]
  <2>1. "project" \in Stage /\ Top(t) = "append" /\ Busy(t) /\ "append" \in Critical /\ "project" \in Critical
        BY <1>9 DEF AppendLine, At, Stage, Critical
  <2>2. \A u \in Thread : \A i \in 1..Len(stack[u]) : stack[u][i] \in Critical => u = t /\ i = Len(stack[t])
        BY <2>1, AloneInCritical
  <2>3. p \in Proc /\ WriteLine(p) /\ GoTo(t, "project") /\ UNCHANGED <<status, opened, abandoned, faults>>
        BY <1>9, <1>a DEF AppendLine
  <2>4. /\ stack' \in [Thread -> Seq(Stage)]
        /\ \A u \in Thread : Len(stack'[u]) = Len(stack[u])
        /\ \A u \in Thread : \A i \in 1..Len(stack[u]) :
              stack'[u][i] = IF u = t /\ i = Len(stack[t]) THEN "project" ELSE stack[u][i]
        BY <2>1, <2>3, GoToFrames
  <2>5. LocksExclude'
        BY <2>1, <2>3, GoToExcludes
  <2>6. /\ lines' \in Seq(Nat) /\ Len(lines') = Len(lines) + 1 /\ Len(lines) \in Nat
        /\ Readable' => Readable /\ cache[p] = Len(lines)
        BY <2>3, NewLine
  <2>7. /\ tail' = "none" /\ cache'[p] = cache[p] + 1 /\ cache' \in [Proc -> Nat]
        /\ known' = [known EXCEPT ![p] = <<Len(lines'), tail'>>]
        BY <1>9, <2>3 DEF AppendLine, WriteLine, Size
  <2>8. TypeOK'
        BY <2>3, <2>4, <2>6, <2>7 DEF Leftover
  <2>9. CriticalFramesAgree'
    <3> SUFFICES ASSUME NEW u \in Thread, NEW i \in 1..Len(stack'[u]), stack'[u][i] \in {"append", "project"}
                 PROVE  u = t /\ stack'[u][i] = "project"
        BY <2>6, <2>7 DEF CriticalFramesAgree
    <3> QED BY <2>2, <2>4 DEF Critical
  <2>10. StatusIsBacked'
        BY <2>3, <2>6
  <2> QED BY <2>5, <2>8, <2>9, <2>10
<1>10. ASSUME NEW t \in Thread, Project(t) PROVE CrashInv'
  <2> USE <1>10 DEF Project, At
  <2>1. /\ stack' \in [Thread -> Seq(Stage)]
        /\ \A u \in Thread : \A i \in 1..Len(stack'[u]) :
              i \in 1..Len(stack[u]) /\ stack'[u][i] = stack[u][i] /\ (u = t => i # Len(stack[t]))
        BY PopFrames
  <2>2. LocksExclude'
        BY PopExcludes
  <2>3. CriticalFramesAgree'
        BY <2>1, AgreementStays
  <2>4. stack[t][Len(stack[t])] = "project" /\ Len(stack[t]) \in 1..Len(stack[t])
        BY <1>b
  <2>5. Readable => cache[t[1]] = Len(lines)
        BY <2>4 DEF CriticalFramesAgree
  <2>6. StatusIsBacked' /\ status' \in Nat
        BY <1>a, <2>5 DEF Readable
  <2> QED BY <2>1, <2>2, <2>3, <2>6
<1>13. ASSUME NEW t \in Thread, FailAppending(t) PROVE CrashInv'
  <2> USE <1>13 DEF FailAppending, At
  <2>1. "append" \in Critical /\ "project" \in Critical /\ Top(t) = "append" /\ Busy(t) /\ t[1] \in Proc
        BY <1>a DEF Critical
  <2>2. stack' \in [Thread -> Seq(Stage)] /\ \A u \in Thread : \A i \in 1..Len(stack'[u]) : stack'[u][i] \notin Critical
        BY <2>1, PopFrames, PopLeavesNobody
  <2>3. LocksExclude'
        BY PopExcludes
  <2>4. CriticalFramesAgree'
        BY <2>1, <2>2 DEF CriticalFramesAgree
  <2>5. CASE WriteLine(t[1]) /\ abandoned' = abandoned \union {Len(lines')} /\ UNCHANGED torn
    <3>1. lines' \in Seq(Nat) /\ Len(lines') = Len(lines) + 1 /\ Len(lines) \in Nat /\ (Readable' => Readable)
          BY <2>1, <2>5, NewLine
    <3>2. tail' \in Leftover /\ abandoned' \in SUBSET Nat
      <4>1. Len(lines') \in Nat /\ abandoned \in SUBSET Nat
            BY <3>1
      <4>2. abandoned' \in SUBSET Nat
            BY <2>5, <4>1, AbandonedLines
      <4> QED BY <2>5, <4>2 DEF WriteLine, Leftover
    <3>3. TypeOK'
          BY <2>2, <2>5, <3>1, <3>2
    <3> QED BY <2>3, <2>4, <3>1, <3>3
  <2>6. CASE TearLine /\ UNCHANGED abandoned
    <3>1. tail' \in Leftover
          BY <2>6 DEF TearLine, Leftover
    <3> QED BY <2>2, <2>3, <2>4, <2>6, <3>1 DEF TearLine, Readable
  <2> QED BY <2>5, <2>6
<1>14. ASSUME NEW t \in Thread, FailProjecting(t) PROVE CrashInv'
  <2> USE <1>14 DEF FailProjecting, At
  <2>1. /\ stack' \in [Thread -> Seq(Stage)]
        /\ \A u \in Thread : \A i \in 1..Len(stack'[u]) :
              i \in 1..Len(stack[u]) /\ stack'[u][i] = stack[u][i] /\ (u = t => i # Len(stack[t]))
        BY PopFrames
  <2>2. LocksExclude'
        BY PopExcludes
  <2>3. CriticalFramesAgree'
        BY <2>1, AgreementStays
  <2>4. abandoned' \in SUBSET Nat
    <3>1. Len(lines) \in Nat /\ abandoned' = abandoned \union {Len(lines)}
          OBVIOUS
    <3> QED BY <3>1, AbandonedLines
  <2>5. TypeOK'
        BY <2>1, <2>4
  <2> QED BY <2>2, <2>3, <2>5 DEF Readable
<1>11. ASSUME NEW p \in Proc, Kill(p) PROVE CrashInv'
  <2> USE <1>11 DEF Kill, Die
  <2>1. stack' \in [Thread -> Seq(Stage)] /\ \A u \in Thread : stack'[u] = IF u[1] = p THEN <<>> ELSE stack[u]
        OBVIOUS
  <2>2. abandoned' \in SUBSET Nat
    <3> DEFINE B == {n \in {Len(lines)} : \E t \in Thread : t[1] = p /\ Projecting(t)}
    <3>1. Len(lines) \in Nat /\ B \subseteq {Len(lines)} /\ abandoned' = abandoned \union B
          OBVIOUS
    <3> QED BY <3>1, AbandonedLines
  <2>3. TypeOK'
        BY <2>1, <2>2
  <2>4. LocksExclude'
        BY <1>a, <2>1 DEF LocksExclude, Busy
  <2>5. CriticalFramesAgree'
        BY <2>1 DEF CriticalFramesAgree, Readable, Size
  <2> QED BY <2>3, <2>4, <2>5 DEF Readable
<1>12. ASSUME NEW t \in Thread, KillWriting(t) PROVE CrashInv'
  <2> USE <1>12 DEF KillWriting, TearLine, Die, At
  <2>1. stack' \in [Thread -> Seq(Stage)] /\ \A u \in Thread : stack'[u] = IF u[1] = t[1] THEN <<>> ELSE stack[u]
        OBVIOUS
  <2>2. tail' \in Leftover /\ opened' \in [Proc -> {"closed", "loaded", "open", "dead"}]
        BY DEF Leftover
  <2>3. abandoned' \in SUBSET Nat
    <3> DEFINE B == {n \in {Len(lines)} : \E u \in Thread : u[1] = t[1] /\ Projecting(u)}
    <3>1. Len(lines) \in Nat /\ B \subseteq {Len(lines)} /\ abandoned' = abandoned \union B
          OBVIOUS
    <3> QED BY <3>1, AbandonedLines
  <2>4. TypeOK'
        BY <2>1, <2>2, <2>3
  <2>5. LocksExclude'
        BY <1>a, <2>1 DEF LocksExclude, Busy
  <2>6. \A u \in Thread : \A i \in 1..Len(stack'[u]) : stack'[u][i] \notin Critical
    <3>1. \A u \in Thread : \A i \in 1..Len(stack[u]) : stack[u][i] \in Critical => u = t
          BY AloneInCritical DEF Critical
    <3> QED BY <2>1, <3>1
  <2>7. CriticalFramesAgree'
        BY <2>6 DEF CriticalFramesAgree, Critical
  <2> QED BY <2>4, <2>5, <2>7 DEF Readable
<1> QED BY <1>0, <1>1, <1>2, <1>3, <1>4, <1>5, <1>6, <1>7, <1>8, <1>9, <1>10, <1>11, <1>12, <1>13, <1>14 DEF Next, EmitStep

(* Whatever is killed, torn or signalled, and whenever a client opens the   *)
(* journal: the types hold, and emit()'s two locks keep its frames apart.   *)
THEOREM CrashInvariant == Spec => []CrashInv
<1>1. Init => CrashInv
      BY InitCrashInv
<1>2. CrashInv /\ [Next]_vars => CrashInv'
      BY NextCrashInv
<1> QED BY <1>1, <1>2, PTL DEF Spec

(* The types of the journal, of the recorders and of the stacks. *)
THEOREM JournalTypes == Spec => []TypeOK
<1>1. CrashInv => TypeOK
      BY DEF CrashInv
<1> QED BY <1>1, CrashInvariant, PTL

(* As long as the journal can be replayed, status.json shows no state that  *)
(* the journal does not hold.                                               *)
THEOREM StatusNeverAhead == Spec => []StatusNotAhead
<1>1. CrashInv => StatusNotAhead
  <2> SUFFICES ASSUME CrashInv, Readable PROVE status <= Loaded
      BY DEF StatusNotAhead
  <2>1. status \in Nat /\ Len(lines) \in Nat /\ status <= Len(lines)
        BY DEF CrashInv, TypeOK, StatusIsBacked
  <2> QED BY <2>1 DEF Loaded
<1> QED BY <1>1, CrashInvariant, PTL

(* How the steps of the stack change who is between the line and status.json. *)
LEMMA GoToProjecting ==
    ASSUME stack \in [Thread -> Seq(Stage)], NEW t \in Thread, Busy(t), NEW s \in Stage, GoTo(t, s),
           Top(t) # "project"
    PROVE  /\ \A u \in Thread \ {t} : Projecting(u)' <=> Projecting(u)
           /\ Projecting(t)' <=> Projecting(t) \/ s = "project"
<1>1. /\ \A u \in Thread : Len(stack'[u]) = Len(stack[u])
      /\ \A u \in Thread : \A i \in 1..Len(stack[u]) :
            stack'[u][i] = IF u = t /\ i = Len(stack[t]) THEN s ELSE stack[u][i]
      BY GoToFrames
<1>2. Len(stack[t]) \in 1..Len(stack[t]) /\ stack[t][Len(stack[t])] # "project"
      BY TopIsFrame
<1>3. \A u \in Thread \ {t} : Projecting(u)' <=> Projecting(u)
      BY <1>1 DEF Projecting
<1>4. CASE s = "project"
      BY <1>1, <1>2, <1>3, <1>4 DEF Projecting
<1>5. CASE s # "project"
      BY <1>1, <1>2, <1>3, <1>5 DEF Projecting
<1> QED BY <1>4, <1>5

(* A returning emit() leaves nobody new there, and nobody else leaves. *)
LEMMA PopProjecting ==
    ASSUME stack \in [Thread -> Seq(Stage)], NEW t \in Thread, Busy(t), Pop(t)
    PROVE  /\ \A u \in Thread : Projecting(u)' => Projecting(u)
           /\ Top(t) # "project" => \A u \in Thread : Projecting(u) => Projecting(u)'
<1> DEFINE n == Len(stack[t])
           rest == SubSeq(stack[t], 1, n - 1)
<1>1. stack[t] \in Seq(Stage) /\ n \in Nat /\ n # 0 /\ stack[t] # <<>>
      BY DEF Busy
<1>2. rest \in Seq(Stage) /\ Len(rest) = n - 1 /\ \A i \in 1..(n - 1) : rest[i] = stack[t][i]
      BY <1>1, AllButLast
<1>3. stack' = [stack EXCEPT ![t] = rest]
      BY DEF Pop
<1> HIDE DEF rest
<1>4. stack'[t] = rest /\ \A u \in Thread \ {t} : stack'[u] = stack[u]
      BY <1>3
<1>5. \A i \in 1..n : i = n \/ (i \in 1..Len(rest) /\ rest[i] = stack[t][i])
      BY <1>1, <1>2
<1>6. \A i \in 1..Len(rest) : i \in 1..n /\ rest[i] = stack[t][i]
      BY <1>1, <1>2
<1> QED BY <1>4, <1>5, <1>6 DEF Projecting, Top

(* A signal handler's emit() begins before the locks. *)
LEMMA PushProjecting ==
    ASSUME stack \in [Thread -> Seq(Stage)], NEW t \in Thread, stack' = [stack EXCEPT ![t] = Append(@, "enter")]
    PROVE  \A u \in Thread : Projecting(u)' <=> Projecting(u)
<1>1. "enter" \in Stage /\ Len(stack[t]) \in Nat
      BY DEF Stage
<1>2. /\ Len(stack'[t]) = Len(stack[t]) + 1 /\ stack'[t][Len(stack[t]) + 1] = "enter"
      /\ \A u \in Thread \ {t} : stack'[u] = stack[u]
      /\ \A i \in 1..Len(stack[t]) : stack'[t][i] = stack[t][i]
      BY <1>1, PushFrames
<1>3. \A i \in 1..(Len(stack[t]) + 1) : i \in 1..Len(stack[t]) \/ i = Len(stack[t]) + 1
      BY <1>1
<1>4. Projecting(t)' <=> Projecting(t)
      BY <1>1, <1>2, <1>3 DEF Projecting
<1> QED BY <1>2, <1>4 DEF Projecting

(* With a frame past the flock that is not over status.json, nobody is. *)
LEMMA NobodyProjects ==
    ASSUME TypeOK, LocksExclude, NEW t \in Thread, Busy(t), Top(t) \in Critical, Top(t) # "project"
    PROVE  \A u \in Thread : ~Projecting(u)
<1> SUFFICES ASSUME NEW u \in Thread, NEW i \in 1..Len(stack[u]), stack[u][i] = "project" PROVE FALSE
    BY DEF Projecting
<1>1. stack \in [Thread -> Seq(Stage)] /\ "project" \in Critical
      BY DEF TypeOK, Critical
<1>2. u = t /\ i = Len(stack[t])
      BY <1>1, AloneInCritical
<1>3. Top(t) = stack[t][Len(stack[t])]
      BY <1>1, TopIsFrame
<1> QED BY <1>2, <1>3

(* An event that is not on the page is being shown, or abandoned: a step    *)
(* that leaves file and page alone keeps that if it lets nobody go from     *)
(* between the two without abandoning the last event.                       *)
LEMMA UnshownStays ==
    ASSUME UnshownAreAbandoned, UNCHANGED <<lines, status>>, abandoned \subseteq abandoned',
           \/ \A u \in Thread : Projecting(u) => Projecting(u)'
           \/ Len(lines) \in abandoned'
    PROVE  UnshownAreAbandoned'
BY DEF UnshownAreAbandoned, Readable

(* Every step keeps it: a line is appended only when nobody is over         *)
(* status.json, and who replaces status.json shows all there is.            *)
LEMMA NextUnshown == CrashInv /\ UnshownAreAbandoned /\ [Next]_vars => UnshownAreAbandoned'
<1> SUFFICES ASSUME CrashInv, UnshownAreAbandoned, [Next]_vars PROVE UnshownAreAbandoned'
    OBVIOUS
<1> USE ThreadAssumption DEF CrashInv, file, recorders, faults
<1>a. TypeOK /\ stack \in [Thread -> Seq(Stage)] /\ LocksExclude /\ lines \in Seq(Nat) /\ Len(lines) \in Nat
      BY DEF TypeOK
<1>b. \A t \in Thread : t[1] \in Proc
      BY DEF Proc
<1>0. CASE UNCHANGED vars
      BY <1>0, UnshownStays DEF vars, Projecting
<1>1. ASSUME NEW p \in Proc, OpenLoads(p) \/ OpenMeasures(p) PROVE UnshownAreAbandoned'
      BY <1>1, UnshownStays DEF OpenLoads, OpenMeasures, Projecting
<1>2. ASSUME NEW t \in Thread, Emit(t) PROVE UnshownAreAbandoned'
  <2>1. Len(stack[t]) = 0 /\ \A u \in Thread \ {t} : stack'[u] = stack[u]
        BY <1>2, <1>a DEF Emit, Busy
  <2>2. \A u \in Thread : Projecting(u) => Projecting(u)'
        BY <2>1 DEF Projecting
  <2> QED BY <1>2, <2>2, UnshownStays DEF Emit
<1>3. ASSUME NEW t \in Thread, Signal(t) PROVE UnshownAreAbandoned'
      BY <1>3, <1>a, PushProjecting, UnshownStays DEF Signal
<1>4. ASSUME NEW t \in Thread, TakeRLock(t) \/ TakeFlock(t) \/ Synchronize(t) PROVE UnshownAreAbandoned'
  <2>1. PICK stage \in {"lock", "synchronize", "append"} :
            /\ Busy(t) /\ Top(t) # "project" /\ GoTo(t, stage)
            /\ UNCHANGED <<lines, status, abandoned>>
        BY <1>4 DEF TakeRLock, TakeFlock, Synchronize, At
  <2>2. stage \in Stage
        BY <2>1 DEF Stage, Critical
  <2>3. \A u \in Thread : Projecting(u) => Projecting(u)'
        BY <1>a, <2>1, <2>2, GoToProjecting
  <2> QED BY <2>1, <2>3, UnshownStays
<1>5. ASSUME NEW t \in Thread, Refuse(t) PROVE UnshownAreAbandoned'
  <2>1. Busy(t) /\ Top(t) # "project" /\ Pop(t) /\ UNCHANGED <<lines, status, abandoned>>
        BY <1>5 DEF Refuse, At
  <2>2. \A u \in Thread : Projecting(u) => Projecting(u)'
        BY <1>a, <2>1, PopProjecting
  <2> QED BY <2>1, <2>2, UnshownStays
<1>6. ASSUME NEW t \in Thread, Busy(t), Top(t) = "append", WriteLine(t[1]), UNCHANGED status,
             \/ UNCHANGED abandoned /\ Projecting(t)'
             \/ abandoned' = abandoned \union {Len(lines')}
      PROVE  UnshownAreAbandoned'
  <2>1. Len(lines') = Len(lines) + 1 /\ (Readable' => Readable)
        BY <1>6, <1>a, <1>b, NewLine
  <2>2. \A u \in Thread : ~Projecting(u)
        BY <1>6, <1>a, NobodyProjects DEF Critical
  <2>3. status \in Nat
        BY DEF TypeOK
  <2> SUFFICES ASSUME Readable', NEW n \in (status + 1)..Len(lines')
               PROVE  n \in abandoned' \/ (n = Len(lines') /\ \E u \in Thread : Projecting(u)')
      BY <1>6 DEF UnshownAreAbandoned
  <2>4. CASE n = Len(lines')
        BY <1>6, <2>4
  <2>5. CASE n # Len(lines')
    <3>1. n \in (status + 1)..Len(lines)
          BY <1>a, <2>1, <2>3, <2>5
    <3> QED BY <1>6, <2>1, <2>2, <3>1 DEF UnshownAreAbandoned
  <2> QED BY <2>4, <2>5
<1>7. ASSUME NEW t \in Thread, AppendLine(t) PROVE UnshownAreAbandoned'
  <2>1. Busy(t) /\ Top(t) = "append" /\ GoTo(t, "project") /\ "project" \in Stage
        BY <1>7 DEF AppendLine, At, Stage, Critical
  <2>2. Projecting(t)'
        BY <1>a, <2>1, GoToProjecting
  <2> QED BY <1>6, <1>7, <2>1, <2>2 DEF AppendLine
<1>8. ASSUME NEW t \in Thread, FailAppending(t) PROVE UnshownAreAbandoned'
  <2>1. Busy(t) /\ Top(t) = "append" /\ Pop(t) /\ UNCHANGED status
        BY <1>8 DEF FailAppending, At
  <2>2. CASE WriteLine(t[1]) /\ abandoned' = abandoned \union {Len(lines')}
        BY <1>6, <2>1, <2>2
  <2>3. CASE TearLine /\ UNCHANGED abandoned
    <3>1. \A u \in Thread : ~Projecting(u)
          BY <1>a, <2>1, NobodyProjects DEF Critical
    <3> QED BY <2>1, <2>3, <3>1, UnshownStays DEF TearLine
  <2> QED BY <1>8, <2>2, <2>3 DEF FailAppending
<1>9. ASSUME NEW t \in Thread, Project(t) PROVE UnshownAreAbandoned'
  <2>1. Len(stack[t]) \in 1..Len(stack[t]) /\ stack[t][Len(stack[t])] = "project"
        BY <1>9, <1>a, TopIsFrame DEF Project, At
  <2>2. Readable => status' = Len(lines)
        BY <1>9, <2>1 DEF Project, CriticalFramesAgree
  <2>3. UNCHANGED lines
        BY <1>9 DEF Project
  <2> QED BY <1>a, <2>2, <2>3 DEF UnshownAreAbandoned, Readable
<1>10. ASSUME NEW t \in Thread, FailProjecting(t) PROVE UnshownAreAbandoned'
  <2>1. UNCHANGED <<lines, status>> /\ abandoned' = abandoned \union {Len(lines)}
        BY <1>10 DEF FailProjecting
  <2> QED BY <2>1, UnshownStays
<1>11. ASSUME NEW p \in Proc, Die(p) PROVE UnshownAreAbandoned'
  <2>1. /\ UNCHANGED <<lines, status>> /\ abandoned \subseteq abandoned'
        /\ \A u \in Thread : stack'[u] = IF u[1] = p THEN <<>> ELSE stack[u]
        /\ (\E u \in Thread : u[1] = p /\ Projecting(u)) => Len(lines) \in abandoned'
        BY <1>11 DEF Die
  <2>2. CASE \E u \in Thread : u[1] = p /\ Projecting(u)
        BY <2>1, <2>2, UnshownStays
  <2>3. CASE \A u \in Thread : Projecting(u) => u[1] # p
    <3>1. \A u \in Thread : Projecting(u) => Projecting(u)'
          BY <2>1, <2>3 DEF Projecting
    <3> QED BY <2>1, <3>1, UnshownStays
  <2> QED BY <2>2, <2>3
<1> QED BY <1>0, <1>1, <1>2, <1>3, <1>4, <1>5, <1>7, <1>8, <1>9, <1>10, <1>11 DEF Next, EmitStep, Kill, KillWriting

(* However writers are killed, fail, tear lines and are interrupted, and    *)
(* whenever a client opens the journal: when no emit() holds the flock,     *)
(* status.json shows every event but those whose writer died or failed      *)
(* between the line and status.json.                                        *)
THEOREM StatusCurrent == Spec => []StatusIsCurrent
<1>1. Init => UnshownAreAbandoned
  <2> SUFFICES ASSUME Init PROVE UnshownAreAbandoned
      OBVIOUS
  <2>1. Len(lines) = 1 /\ status = 1
        BY DEF Init
  <2> QED BY <2>1 DEF UnshownAreAbandoned
<1>2. CrashInv /\ UnshownAreAbandoned /\ [Next]_vars => UnshownAreAbandoned'
      BY NextUnshown
<1>3. UnshownAreAbandoned => StatusIsCurrent
  <2> SUFFICES ASSUME UnshownAreAbandoned, FlockFree, Readable,
                      NEW n \in (status + 1)..Len(lines)
               PROVE  n \in abandoned
      BY DEF StatusIsCurrent
  <2>1. \A t \in Thread : ~Projecting(t)
        BY FreeMeansNoFrame DEF Projecting, Critical
  <2> QED BY <2>1 DEF UnshownAreAbandoned
<1> QED BY <1>1, <1>2, <1>3, CrashInvariant, PTL DEF Spec

(* A step that only moves frames, none of them over status.json. *)
LEMMA QuietStep ==
    ASSUME JournalInv, CrashInv', UNCHANGED <<file, status, recorders, torn>>,
           \A u \in Thread : Projecting(u)' <=> Projecting(u)
    PROVE  JournalInv'
<1> USE DEF JournalInv, file, recorders
<1>1. RecordersKeepUp'
      BY DEF RecordersKeepUp, Size
<1>2. WriterIsAhead'
      BY DEF WriterIsAhead, Size
<1>3. DamageIsTorn'
      BY DEF DamageIsTorn, Readable
<1> QED BY <1>1, <1>2, <1>3

(* With every recorder open, the initial states satisfy the invariant. *)
LEMMA InitJournalInv == Ready = Proc /\ Init => JournalInv
<1> SUFFICES ASSUME Ready = Proc, Init PROVE JournalInv
    OBVIOUS
<1>1. lines \in Seq(Nat) /\ Len(lines) = 1 /\ lines[1] = 1 /\ Size = <<1, "none">>
      BY DEF Init, Size
<1>2. RecordersKeepUp /\ WriterIsAhead /\ DamageIsTorn
      BY <1>1 DEF Init, RecordersKeepUp, WriterIsAhead, DamageIsTorn, Readable, Projecting
<1> QED BY <1>2, InitCrashInv DEF JournalInv

(* Every step keeps it, and none lowers event_seq of status.json. *)
LEMMA NextJournalInv == JournalInv /\ [Next]_vars => JournalInv' /\ status' >= status
<1> SUFFICES ASSUME JournalInv, [Next]_vars PROVE JournalInv' /\ status' >= status
    OBVIOUS
<1> USE ThreadAssumption, BoundAssumption DEF JournalInv, file, recorders, faults
<1>a. CrashInv'
      BY NextCrashInv
<1>b. TypeOK /\ TypeOK' /\ stack \in [Thread -> Seq(Stage)] /\ status \in Nat
      BY <1>a DEF CrashInv, TypeOK
<1>c. \A t \in Thread : t[1] \in Proc
      BY DEF Proc
<1>d. \A t \in Thread : Busy(t) => Len(stack[t]) \in 1..Len(stack[t]) /\ Top(t) = stack[t][Len(stack[t])]
      BY <1>b, TopIsFrame
<1>e. UNCHANGED status => status' >= status
      BY <1>b
<1>0. CASE UNCHANGED vars
  <2>1. \A u \in Thread : Projecting(u)' <=> Projecting(u)
        BY <1>0 DEF vars, Projecting
  <2> QED BY <1>0, <1>a, <1>e, <2>1, QuietStep DEF vars
<1>1. ASSUME NEW p \in Proc PROVE ~OpenLoads(p) /\ ~OpenMeasures(p)
      BY DEF OpenLoads, OpenMeasures, RecordersKeepUp
<1>3. ASSUME NEW t \in Thread, Emit(t) PROVE JournalInv' /\ status' >= status
  <2>1. \A u \in Thread : Projecting(u)' <=> Projecting(u)
    <3>1. Len(stack[t]) = 0 /\ stack'[t] = <<"enter">> /\ \A u \in Thread \ {t} : stack'[u] = stack[u]
          BY <1>3, <1>b DEF Emit, Busy
    <3>2. ~Projecting(t) /\ ~Projecting(t)'
          BY <3>1 DEF Projecting
    <3> QED BY <3>1, <3>2 DEF Projecting
  <2> QED BY <1>3, <1>a, <1>e, <2>1, QuietStep DEF Emit
<1>4. ASSUME NEW t \in Thread, Signal(t) PROVE JournalInv' /\ status' >= status
  <2>1. \A u \in Thread : Projecting(u)' <=> Projecting(u)
        BY <1>4, <1>b, PushProjecting DEF Signal
  <2> QED BY <1>4, <1>a, <1>e, <2>1, QuietStep DEF Signal
<1>5. ASSUME NEW t \in Thread, TakeRLock(t) PROVE JournalInv' /\ status' >= status
  <2>1. \A u \in Thread : Projecting(u)' <=> Projecting(u)
        BY <1>5, <1>b, GoToProjecting DEF TakeRLock, At, Stage
  <2> QED BY <1>5, <1>a, <1>e, <2>1, QuietStep DEF TakeRLock
<1>6. ASSUME NEW t \in Thread, TakeFlock(t) PROVE JournalInv' /\ status' >= status
  <2>1. \A u \in Thread : Projecting(u)' <=> Projecting(u)
        BY <1>6, <1>b, GoToProjecting DEF TakeFlock, At, Stage, Critical
  <2> QED BY <1>6, <1>a, <1>e, <2>1, QuietStep DEF TakeFlock
<1>8. ASSUME NEW t \in Thread, Refuse(t) PROVE JournalInv' /\ status' >= status
  <2>1. \A u \in Thread : Projecting(u)' <=> Projecting(u)
        BY <1>8, <1>b, PopProjecting DEF Refuse, At
  <2> QED BY <1>8, <1>a, <1>e, <2>1, QuietStep DEF Refuse
<1>7. ASSUME NEW t \in Thread, Synchronize(t) PROVE JournalInv' /\ status' >= status
  <2> DEFINE p == t[1]
  <2>1. At(t, "synchronize") /\ Busy(t) /\ Top(t) # "project" /\ p \in Proc /\ "append" \in Stage
        /\ UNCHANGED <<file, status, opened, faults>>
        BY <1>7, <1>c DEF Synchronize, At, Stage, Critical
  <2>2. GoTo(t, "append")
        BY <1>7 DEF Synchronize
  <2>3. \A u \in Thread : Projecting(u)' <=> Projecting(u)
        BY <1>b, <2>1, <2>2, GoToProjecting
  <2>4. CASE UNCHANGED recorders
        BY <1>7, <1>a, <1>e, <2>1, <2>3, <2>4, QuietStep
  <2>5. CASE /\ Readable
             /\ cache' = [cache EXCEPT ![p] = Loaded]
             /\ known' = [known EXCEPT ![p] = Size]
    <3>1. \A u \in Thread : ~Projecting(u)
      <4> SUFFICES ASSUME NEW u \in Thread, NEW i \in 1..Len(stack[u]), stack[u][i] = "project" PROVE FALSE
          BY DEF Projecting
      <4>1. u = t /\ i = Len(stack[t])
            BY <1>b, <2>1, AloneInCritical DEF CrashInv, At, Critical
      <4> QED BY <1>d, <2>1, <4>1
    <3>2. Loaded \in Nat /\ Len(lines) \in Nat /\ Len(lines) <= Loaded
          BY <1>b DEF Loaded, TypeOK
    <3>3. status <= Loaded
          BY <1>b, <2>5, <3>2 DEF CrashInv, StatusIsBacked
    <3>4. torn = 0 => Loaded = Len(lines)
          BY <3>2 DEF DamageIsTorn, Loaded
    <3>5. RecordersKeepUp'
      <4> SUFFICES ASSUME NEW q \in Proc
                   PROVE  /\ opened[q] \in {"open", "dead"}
                          /\ known'[q][1] <= Len(lines)
                          /\ known'[q][1] = Len(lines) => status <= cache'[q]
                          /\ known'[q] = Size /\ torn = 0 => cache'[q] = Len(lines)
          BY <2>1 DEF RecordersKeepUp, Size
      <4>1. CASE q = p
        <5>1. known'[q] = <<Len(lines), tail>> /\ cache'[q] = Loaded
              BY <1>b, <2>5, <4>1 DEF Size, TypeOK
        <5> QED BY <3>2, <3>3, <3>4, <5>1 DEF RecordersKeepUp
      <4>2. CASE q # p
            BY <1>b, <2>5, <4>2 DEF RecordersKeepUp, TypeOK
      <4> QED BY <4>1, <4>2
    <3>6. WriterIsAhead'
          BY <2>3, <3>1 DEF WriterIsAhead
    <3>7. DamageIsTorn'
          BY <2>1, <2>3 DEF DamageIsTorn, Readable
    <3> QED BY <1>a, <1>e, <2>1, <3>5, <3>6, <3>7
  <2> QED BY <1>7, <2>4, <2>5 DEF Synchronize
<1>f. ASSUME NEW t \in Thread, At(t, "append")
      PROVE  /\ \A u \in Thread : ~Projecting(u)
             /\ status <= cache[t[1]] /\ (torn = 0 => cache[t[1]] = Len(lines) /\ tail = "none" /\ Readable)
  <2>1. \A u \in Thread : ~Projecting(u)
        BY <1>b, <1>f, NobodyProjects DEF CrashInv, At, Critical
  <2>2. known[t[1]] = Size
        BY <1>d, <1>f DEF CrashInv, CriticalFramesAgree, At
  <2> QED BY <1>c, <2>1, <2>2 DEF RecordersKeepUp, DamageIsTorn, Size
<1>9. ASSUME NEW t \in Thread, AppendLine(t) PROVE JournalInv' /\ status' >= status
  <2> DEFINE p == t[1]
  <2>1. At(t, "append") /\ Busy(t) /\ Top(t) # "project" /\ p \in Proc /\ "project" \in Stage
        /\ GoTo(t, "project") /\ WriteLine(p) /\ UNCHANGED <<status, opened, faults>>
        BY <1>9, <1>c DEF AppendLine, At, Stage, Critical
  <2>2. /\ \A u \in Thread \ {t} : Projecting(u)' <=> Projecting(u)
        /\ \A u \in Thread : ~Projecting(u)
        BY <1>b, <1>f, <2>1, GoToProjecting
  <2>3. /\ Len(lines') = Len(lines) + 1 /\ Len(lines) \in Nat
        /\ torn = 0 => Readable'
        BY <1>b, <1>f, <2>1, NewLine
  <2>4. /\ cache'[p] = cache[p] + 1 /\ known'[p] = Size' /\ cache[p] \in Nat /\ tail' = "none"
        /\ \A q \in Proc \ {p} : known'[q] = known[q] /\ cache'[q] = cache[q] /\ known[q][1] \in Nat
        BY <1>9, <1>b, <2>1 DEF AppendLine, WriteLine, TypeOK, Size
  <2>5. RecordersKeepUp'
    <3> SUFFICES ASSUME NEW q \in Proc
                 PROVE  /\ opened[q] \in {"open", "dead"}
                        /\ known'[q][1] <= Len(lines')
                        /\ known'[q][1] = Len(lines') => status <= cache'[q]
                        /\ known'[q] = Size' /\ torn = 0 => cache'[q] = Len(lines')
        BY <2>1 DEF RecordersKeepUp
    <3>1. opened[q] \in {"open", "dead"} /\ known[q][1] <= Len(lines)
          BY DEF RecordersKeepUp
    <3>2. status <= cache[p] /\ (torn = 0 => cache[p] = Len(lines))
          BY <1>f, <2>1
    <3>3. CASE q = p
          BY <1>b, <2>3, <2>4, <3>1, <3>2, <3>3, SMTT(30) DEF Size
    <3>4. CASE q # p
          BY <2>3, <2>4, <3>1, <3>4 DEF Size
    <3> QED BY <3>3, <3>4
  <2>6. WriterIsAhead'
    <3>1. \A q \in Proc \ {p} : known'[q][1] < Len(lines')
          BY <2>3, <2>4 DEF RecordersKeepUp
    <3> QED BY <2>2, <2>4, <3>1 DEF WriterIsAhead
  <2>7. DamageIsTorn'
        BY <2>1, <2>3, <2>4 DEF DamageIsTorn
  <2> QED BY <1>a, <1>e, <2>1, <2>5, <2>6, <2>7
<1>14. ASSUME NEW t \in Thread, FailAppending(t) PROVE JournalInv' /\ status' >= status
  <2>1. At(t, "append") /\ Busy(t) /\ t[1] \in Proc /\ Pop(t) /\ UNCHANGED <<status, recorders>>
        BY <1>14, <1>c DEF FailAppending, At
  <2>2. \A u \in Thread : ~Projecting(u)'
        BY <1>b, <1>f, <2>1, PopProjecting
  <2>3. CASE WriteLine(t[1]) /\ UNCHANGED torn
    <3>1. /\ Len(lines') = Len(lines) + 1 /\ Len(lines) \in Nat
          /\ torn = 0 => Readable'
          BY <1>b, <1>f, <2>1, <2>3, NewLine
    <3>2. ASSUME NEW q \in Proc PROVE known[q][1] \in Nat /\ known[q][1] < Len(lines')
      <4>1. known[q][1] \in Nat /\ known[q][1] <= Len(lines)
            BY <1>b DEF RecordersKeepUp, TypeOK
      <4> QED BY <3>1, <4>1
    <3>3. RecordersKeepUp'
          BY <2>1, <3>1, <3>2 DEF RecordersKeepUp, Size
    <3>4. WriterIsAhead' /\ DamageIsTorn'
          BY <2>2, <2>3, <3>1 DEF WriterIsAhead, DamageIsTorn, WriteLine
    <3> QED BY <1>a, <1>e, <2>1, <3>3, <3>4
  <2>4. CASE TearLine
    <3>1. torn' # 0
          BY <1>b, <2>4 DEF TearLine, TypeOK
    <3>2. RecordersKeepUp'
          BY <2>1, <2>4, <3>1 DEF RecordersKeepUp, TearLine
    <3>3. WriterIsAhead' /\ DamageIsTorn'
          BY <2>2, <3>1 DEF WriterIsAhead, DamageIsTorn
    <3> QED BY <1>a, <1>e, <2>1, <3>2, <3>3
  <2> QED BY <1>14, <2>3, <2>4 DEF FailAppending
<1>10. ASSUME NEW t \in Thread, Project(t) PROVE JournalInv' /\ status' >= status
  <2> DEFINE p == t[1]
  <2>1. Busy(t) /\ Top(t) = "project" /\ p \in Proc /\ Pop(t) /\ status' = cache[p]
        /\ UNCHANGED <<file, recorders, faults>>
        BY <1>10, <1>c DEF Project, At
  <2>2. Projecting(t)
        BY <1>d, <2>1 DEF Projecting
  <2>3. known[p] = Size /\ \A q \in Proc \ {p} : known[q][1] < Len(lines)
        BY <2>2 DEF WriterIsAhead
  <2>4. cache[p] \in Nat /\ Len(lines) \in Nat /\ \A q \in Proc : known[q][1] \in Nat
        BY <1>b, <2>1 DEF TypeOK
  <2>5. status <= cache[p]
        BY <2>1, <2>3 DEF RecordersKeepUp, Size
  <2>6. RecordersKeepUp'
        BY <2>1, <2>3, <2>4 DEF RecordersKeepUp, Size
  <2>7. WriterIsAhead'
        BY <1>b, <2>1, PopProjecting DEF WriterIsAhead, Size
  <2>8. DamageIsTorn'
        BY <2>1 DEF DamageIsTorn, Readable
  <2> QED BY <1>a, <1>b, <2>1, <2>4, <2>5, <2>6, <2>7, <2>8
<1>15. ASSUME NEW t \in Thread, FailProjecting(t) PROVE JournalInv' /\ status' >= status
  <2>1. Busy(t) /\ Pop(t) /\ UNCHANGED <<file, status, recorders, torn>>
        BY <1>15 DEF FailProjecting, At
  <2>2. RecordersKeepUp' /\ DamageIsTorn'
        BY <2>1 DEF RecordersKeepUp, DamageIsTorn, Readable, Size
  <2>3. WriterIsAhead'
        BY <1>b, <2>1, PopProjecting DEF WriterIsAhead, Size
  <2> QED BY <1>a, <1>e, <2>1, <2>2, <2>3
<1>11. ASSUME NEW p \in Proc, Die(p),
              \/ tail' = tail /\ torn' = torn
              \/ torn' = torn + 1 /\ \A u \in Thread : ~Projecting(u)
       PROVE JournalInv' /\ status' >= status
  <2>1. UNCHANGED <<lines, status, cache, known>> /\ kills' = kills + 1 /\ opened' = [opened EXCEPT ![p] = "dead"]
        /\ \A u \in Thread : stack'[u] = IF u[1] = p THEN <<>> ELSE stack[u]
        BY <1>11 DEF Die
  <2>2. torn \in Nat /\ kills \in Nat
        BY <1>b DEF TypeOK
  <2>3. \A u \in Thread : Projecting(u)' => Projecting(u) /\ u[1] # p
        BY <2>1 DEF Projecting
  <2>4. torn' = 0 => torn = 0 /\ tail' = tail
        BY <1>11, <2>2
  <2>5. RecordersKeepUp'
    <3>1. \A q \in Proc : opened'[q] \in {"open", "dead"}
          BY <1>b, <2>1 DEF RecordersKeepUp, TypeOK
    <3> QED BY <2>1, <2>4, <3>1 DEF RecordersKeepUp, Size
  <2>6. DamageIsTorn'
        BY <1>11, <2>1, <2>2, <2>4 DEF DamageIsTorn, Readable
  <2>7. CASE tail' = tail
        BY <1>a, <1>e, <2>1, <2>3, <2>5, <2>6, <2>7 DEF WriterIsAhead, Size
  <2>8. CASE \A u \in Thread : ~Projecting(u)
        BY <1>a, <1>e, <2>1, <2>3, <2>5, <2>6, <2>8 DEF WriterIsAhead
  <2> QED BY <1>11, <2>7, <2>8
<1>12. ASSUME NEW p \in Proc, Kill(p) PROVE JournalInv' /\ status' >= status
      BY <1>11, <1>12 DEF Kill
<1>13. ASSUME NEW t \in Thread, KillWriting(t) PROVE JournalInv' /\ status' >= status
  <2>1. At(t, "append") /\ torn' = torn + 1 /\ Die(t[1])
        BY <1>13 DEF KillWriting, TearLine
  <2>2. \A u \in Thread : ~Projecting(u)
        BY <1>f, <2>1
  <2> QED BY <1>11, <1>c, <2>1, <2>2
<1> QED BY <1>0, <1>1, <1>3, <1>4, <1>5, <1>6, <1>7, <1>8, <1>9, <1>10, <1>12, <1>13, <1>14, <1>15 DEF Next, EmitStep

(* Every recorder open from the start: the inductive invariant of emit().   *)
THEOREM JournalInvariant == Ready = Proc => (Spec => []JournalInv)
<1>1. Ready = Proc /\ Init => JournalInv
      BY InitJournalInv
<1>2. JournalInv /\ [Next]_vars => JournalInv'
      BY NextJournalInv
<1> QED BY <1>1, <1>2, PTL DEF Spec

(* emit() of any number of processes and threads, whenever a signal or a    *)
(* kill interrupts one: as long as no write is cut short, the journal's     *)
(* events are numbered without a gap or a repeat and none is damaged.       *)
THEOREM JournalReplayable ==
    Ready = Proc => (Spec => [](torn = 0 => JournalIsReplayable))
<1>1. JournalInv => (torn = 0 => JournalIsReplayable)
      BY DEF JournalInv, DamageIsTorn, JournalIsReplayable
<1> QED BY <1>1, JournalInvariant, PTL

(* Whichever processes write status.json, it never shows an older state than *)
(* it has shown, torn writes included.                                       *)
THEOREM StatusMonotone == Ready = Proc => (Spec => StatusNeverGoesBack)
<1>1. JournalInv /\ [Next]_vars => [status' >= status]_vars
      BY NextJournalInv
<1> QED BY <1>1, JournalInvariant, PTL DEF Spec, StatusNeverGoesBack
-----------------------------------------------------------------------------
(* A step of Journal, as EventLog sees it. *)
LogStep == [Log!LogNext]_(Log!eventLog)

(* What leaves the journal, status.json and who is between them alone is no *)
(* step of the log.                                                         *)
LEMMA UnseenEmits ==
    ASSUME UNCHANGED <<lines, status>>, \A u \in Thread : Projecting(u)' <=> Projecting(u)
    PROVE  LogStep
BY DEF LogStep, Log!eventLog

(* The flock lets one emit() at a time be past it. *)
LEMMA ProjectsAlone ==
    ASSUME JournalInv, NEW t \in Thread, Busy(t), Top(t) \in Critical
    PROVE  \A u \in Thread : Projecting(u) => u = t /\ Top(t) = "project"
<1> SUFFICES ASSUME NEW u \in Thread, NEW i \in 1..Len(stack[u]), stack[u][i] = "project"
             PROVE  u = t /\ Top(t) = "project"
    BY DEF Projecting
<1>1. stack \in [Thread -> Seq(Stage)] /\ LocksExclude /\ "project" \in Critical
    BY DEF JournalInv, CrashInv, TypeOK, Critical
<1>2. Len(stack[t]) \in 1..Len(stack[t]) /\ Top(t) = stack[t][Len(stack[t])]
    BY <1>1, TopIsFrame
<1> QED BY <1>1, <1>2 DEF LocksExclude

(* A line that is written whole is the next event, and nobody is showing one. *)
LEMMA LinesAreNext ==
    ASSUME JournalInv, torn = 0, NEW t \in Thread, At(t, "append"), WriteLine(t[1])
    PROVE  /\ lines' = Append(lines, Len(lines) + 1)
           /\ \A u \in Thread : ~Projecting(u)
<1> USE DEF JournalInv
<1>1. TypeOK /\ stack \in [Thread -> Seq(Stage)] /\ t[1] \in Proc
    BY DEF CrashInv, TypeOK, Proc
<1>2. Busy(t) /\ Top(t) = "append" /\ "append" \in Critical
    BY DEF At, Critical
<1>3. \A u \in Thread : ~Projecting(u)
    BY <1>2, ProjectsAlone
<1>4. known[t[1]] = Size
  <2>1. Len(stack[t]) \in 1..Len(stack[t]) /\ Top(t) = stack[t][Len(stack[t])]
      BY <1>1, <1>2, TopIsFrame
  <2> QED BY <1>2, <2>1 DEF CrashInv, CriticalFramesAgree
<1>5. tail = "none" /\ cache[t[1]] = Len(lines)
    BY <1>1, <1>4 DEF DamageIsTorn, RecordersKeepUp
<1> QED BY <1>1, <1>3, <1>5, NewLine

(* A line that is appended is the next event, by the only writer there is.  *)
LEMMA LinesAreRecorded ==
    ASSUME JournalInv, torn = 0, NEW t \in Thread, AppendLine(t)
    PROVE  LogStep
<1>1. stack \in [Thread -> Seq(Stage)]
    BY DEF JournalInv, CrashInv, TypeOK
<1>2. At(t, "append") /\ Busy(t) /\ Top(t) = "append" /\ GoTo(t, "project") /\ UNCHANGED status
      /\ "project" \in Stage /\ WriteLine(t[1])
    BY DEF AppendLine, At, Stage, Critical
<1>3. lines' = Append(lines, Len(lines) + 1) /\ \A u \in Thread : ~Projecting(u)
    BY <1>2, LinesAreNext
<1>4. \A u \in Thread : Projecting(u)' <=> u = t
    BY <1>1, <1>2, <1>3, GoToProjecting
<1>5. {u \in Thread : Projecting(u)} = {} /\ {u \in Thread : Projecting(u)}' = {t}
    BY <1>3, <1>4
<1>6. Log!Record(t)
    BY <1>2, <1>3, <1>5 DEF Log!Record
<1> QED BY <1>6 DEF LogStep, Log!LogNext

(* A line whose writer fails at once is in the log, and its writer is gone. *)
LEMMA FailedLinesAreOmitted ==
    ASSUME JournalInv, torn = 0, NEW t \in Thread, FailAppending(t), torn' = 0
    PROVE  LogStep
<1>1. stack \in [Thread -> Seq(Stage)] /\ torn \in Nat
    BY DEF JournalInv, CrashInv, TypeOK
<1>2. At(t, "append") /\ Busy(t) /\ Pop(t) /\ UNCHANGED status /\ WriteLine(t[1])
    BY <1>1 DEF FailAppending, TearLine, At
<1>3. lines' = Append(lines, Len(lines) + 1) /\ \A u \in Thread : ~Projecting(u)
    BY <1>2, LinesAreNext
<1>4. \A u \in Thread : ~Projecting(u)'
    BY <1>1, <1>2, <1>3, PopProjecting
<1>5. {u \in Thread : Projecting(u)} = {} /\ {u \in Thread : Projecting(u)}' = {}
    BY <1>3, <1>4
<1>6. Log!Omit(t)
    BY <1>2, <1>3, <1>5 DEF Log!Omit
<1> QED BY <1>6 DEF LogStep, Log!LogNext

(* A writer that leaves status.json was the only one there. *)
LEMMA LastOneLeaves ==
    ASSUME JournalInv, NEW t \in Thread, At(t, "project"), Pop(t)
    PROVE  /\ {u \in Thread : Projecting(u)} = {t}
           /\ {u \in Thread : Projecting(u)}' = {}
<1> USE DEF JournalInv, At
<1>1. stack \in [Thread -> Seq(Stage)] /\ "project" \in Critical /\ LocksExclude
    BY DEF CrashInv, TypeOK, Critical
<1>2. Len(stack[t]) \in 1..Len(stack[t]) /\ Top(t) = stack[t][Len(stack[t])]
    BY <1>1, TopIsFrame
<1>3. \A u \in Thread : Projecting(u) <=> u = t
    BY <1>1, <1>2, ProjectsAlone DEF Projecting
<1>4. \A u \in Thread : \A i \in 1..Len(stack'[u]) : stack'[u][i] \notin Critical
    BY <1>1, PopLeavesNobody
<1>5. \A u \in Thread : ~Projecting(u)'
    BY <1>1, <1>4 DEF Projecting
<1> QED BY <1>3, <1>5

(* status.json is replaced with the state of the whole journal. *)
LEMMA PagesShowTheLog ==
    ASSUME JournalInv, torn = 0, NEW t \in Thread, Project(t)
    PROVE  LogStep
<1> USE DEF JournalInv
<1>1. stack \in [Thread -> Seq(Stage)]
    BY DEF CrashInv, TypeOK
<1>2. At(t, "project") /\ Pop(t) /\ status' = cache[t[1]] /\ UNCHANGED lines
    BY DEF Project, At, file
<1>3. Len(stack[t]) \in 1..Len(stack[t]) /\ Top(t) = stack[t][Len(stack[t])]
    BY <1>1, <1>2, TopIsFrame DEF At
<1>4. cache[t[1]] = Len(lines)
    BY <1>2, <1>3 DEF DamageIsTorn, CrashInv, CriticalFramesAgree, At
<1>5. {u \in Thread : Projecting(u)} = {t} /\ {u \in Thread : Projecting(u)}' = {}
    BY <1>2, LastOneLeaves
<1>6. Log!Show(t)
    BY <1>2, <1>4, <1>5 DEF Log!Show
<1> QED BY <1>6 DEF LogStep, Log!LogNext

(* A writer that cannot replace status.json has vanished from the log. *)
LEMMA FailedPagesVanish ==
    ASSUME JournalInv, NEW t \in Thread, FailProjecting(t)
    PROVE  LogStep
<1>1. At(t, "project") /\ Pop(t) /\ UNCHANGED <<lines, status>>
    BY DEF FailProjecting, file
<1>2. {u \in Thread : Projecting(u)} = {t} /\ {u \in Thread : Projecting(u)}' = {}
    BY <1>1, LastOneLeaves
<1>3. Log!Vanish(t)
    BY <1>1, <1>2 DEF Log!Vanish
<1> QED BY <1>3 DEF LogStep, Log!LogNext

(* A writer that is killed is gone, whether it had shown its event or not.  *)
LEMMA KilledWritersVanish ==
    ASSUME JournalInv, NEW p \in Proc, Kill(p)
    PROVE  LogStep
<1>1. UNCHANGED <<lines, status>> /\ \A u \in Thread : stack'[u] = IF u[1] = p THEN <<>> ELSE stack[u]
    BY DEF Kill, Die
<1>2. \A u \in Thread : Projecting(u)' <=> Projecting(u) /\ u[1] # p
    BY <1>1 DEF Projecting
<1>3. ASSUME NEW t \in Thread, Projecting(t), t[1] = p  PROVE LogStep
  <2>1. \A u \in Thread : Projecting(u) => u = t
      BY <1>3 DEF JournalInv, CrashInv, LocksExclude, Projecting, Critical
  <2>2. {u \in Thread : Projecting(u)} = {t} /\ {u \in Thread : Projecting(u)}' = {}
      BY <1>2, <1>3, <2>1
  <2>3. Log!Vanish(t)
      BY <1>1, <2>2 DEF Log!Vanish
  <2> QED BY <2>3 DEF LogStep, Log!LogNext
<1>4. CASE \A t \in Thread : Projecting(t) => t[1] # p
    BY <1>1, <1>2, <1>4, UnseenEmits
<1> QED BY <1>3, <1>4

(* Journal implements EventLog, when every recorder is open and no line is  *)
(* torn: however emit() calls of processes, threads and signal handlers     *)
(* interleave, fail and are killed, the journal grows by the next event,    *)
(* and status.json is replaced with all of it before the next one, or its   *)
(* writer has died or failed.                                               *)
THEOREM JournalKeepsTheLog == Ready = Proc /\ MaxTorn = 0 => (Spec => LogSpec)
<1> SUFFICES ASSUME Ready = Proc, MaxTorn = 0 PROVE Spec => LogSpec
    OBVIOUS
<1>1. Init => Log!LogInit /\ torn = 0
    BY DEF Init, Log!LogInit, Projecting
<1>2. JournalInv /\ torn = 0 /\ [Next]_vars => (torn = 0)' /\ [Log!LogNext]_(Log!eventLog)
  <2> SUFFICES ASSUME JournalInv, torn = 0, [Next]_vars PROVE torn' = 0 /\ LogStep
      BY DEF LogStep
  <2> USE DEF file, recorders, faults
  <2>a. stack \in [Thread -> Seq(Stage)]
      BY DEF JournalInv, CrashInv, TypeOK
  <2>b. ~TearLine
      BY DEF TearLine
  <2>1. CASE UNCHANGED vars
    <3>1. \A u \in Thread : Projecting(u)' <=> Projecting(u)
        BY <2>1 DEF vars, Projecting
    <3> QED BY <2>1, <3>1, UnseenEmits DEF vars
  <2>2. ASSUME NEW p \in Proc PROVE ~OpenLoads(p) /\ ~OpenMeasures(p)
      BY DEF OpenLoads, OpenMeasures, JournalInv, RecordersKeepUp
  <2>3. ASSUME NEW t \in Thread, Emit(t) PROVE torn' = 0 /\ LogStep
    <3>1. Len(stack[t]) = 0 /\ stack'[t] = <<"enter">> /\ \A u \in Thread \ {t} : stack'[u] = stack[u]
        BY <2>3, <2>a DEF Emit, Busy
    <3>2. ~Projecting(t) /\ ~Projecting(t)'
        BY <3>1 DEF Projecting
    <3>3. \A u \in Thread : Projecting(u)' <=> Projecting(u)
        BY <3>1, <3>2 DEF Projecting
    <3> QED BY <2>3, <3>3, UnseenEmits DEF Emit
  <2>4. ASSUME NEW t \in Thread, Signal(t) PROVE torn' = 0 /\ LogStep
    <3>1. \A u \in Thread : Projecting(u)' <=> Projecting(u)
        BY <2>4, <2>a, PushProjecting DEF Signal
    <3> QED BY <2>4, <3>1, UnseenEmits DEF Signal
  <2>5. ASSUME NEW t \in Thread, TakeRLock(t) \/ TakeFlock(t) PROVE torn' = 0 /\ LogStep
    <3>1. PICK stage \in {"lock", "synchronize"} : Busy(t) /\ Top(t) # "project" /\ GoTo(t, stage)
        BY <2>5 DEF TakeRLock, TakeFlock, At
    <3>2. stage \in Stage /\ stage # "project"
        BY <3>1 DEF Stage, Critical
    <3>3. \A u \in Thread : Projecting(u)' <=> Projecting(u)
        BY <2>a, <3>1, <3>2, GoToProjecting
    <3> QED BY <2>5, <3>3, UnseenEmits DEF TakeRLock, TakeFlock
  <2>6. ASSUME NEW t \in Thread, Synchronize(t) \/ Refuse(t) PROVE torn' = 0 /\ LogStep
    <3>1. Busy(t) /\ Top(t) # "project" /\ (GoTo(t, "append") \/ Pop(t)) /\ "append" \in Stage
        BY <2>6 DEF Synchronize, Refuse, At, Stage, Critical
    <3>2. \A u \in Thread : Projecting(u)' <=> Projecting(u)
        BY <2>a, <3>1, GoToProjecting, PopProjecting
    <3> QED BY <2>6, <3>2, UnseenEmits DEF Synchronize, Refuse
  <2>7. ASSUME NEW t \in Thread, AppendLine(t) PROVE torn' = 0 /\ LogStep
      BY <2>7, LinesAreRecorded DEF AppendLine
  <2>8. ASSUME NEW t \in Thread, Project(t) PROVE torn' = 0 /\ LogStep
      BY <2>8, PagesShowTheLog DEF Project
  <2>9. ASSUME NEW p \in Proc, Kill(p) PROVE torn' = 0 /\ LogStep
      BY <2>9, KilledWritersVanish DEF Kill
  <2>10. ASSUME NEW t \in Thread PROVE ~KillWriting(t)
      BY <2>b DEF KillWriting
  <2>11. ASSUME NEW t \in Thread, FailAppending(t) PROVE torn' = 0 /\ LogStep
    <3>1. torn' = 0
        BY <2>11, <2>b DEF FailAppending
    <3> QED BY <2>11, <3>1, FailedLinesAreOmitted
  <2>12. ASSUME NEW t \in Thread, FailProjecting(t) PROVE torn' = 0 /\ LogStep
      BY <2>12, FailedPagesVanish DEF FailProjecting
  <2> QED
      BY <2>1, <2>2, <2>3, <2>4, <2>5, <2>6, <2>7, <2>8, <2>9, <2>10, <2>11, <2>12 DEF Next, EmitStep
<1> QED BY <1>1, <1>2, JournalInvariant, PTL DEF Spec, LogSpec, Log!LogSpec
=============================================================================
