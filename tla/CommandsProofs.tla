--------------------------- MODULE CommandsProofs ---------------------------
(***************************************************************************)
(* Proofs about what clients ask of a run, for any number of requests,     *)
(* jobs and attempts, with a disk that may fail once and a worker that may *)
(* be killed at any step.                                                  *)
(***************************************************************************)
EXTENDS Commands, SequenceTheorems, TLAPS

(* A command file is from a client, and it is the last attempt's or an older one's. *)
LEMMA MailTypes ==
    ASSUME TypeOK, NEW k \in 1..Len(inbox)
    PROVE  inbox[k].from \in Client /\ inbox[k].n \in Nat /\ sends[inbox[k].from] \in Nat
<1>1. inbox \in Seq(Command) /\ sends \in [Client -> Nat]
      BY DEF TypeOK
<1>2. inbox[k] \in Command
      BY <1>1
<1>3. inbox[k].from \in Client /\ inbox[k].n \in Nat
      BY <1>2 DEF Command
<1> QED BY <1>1, <1>3

(* The initial states satisfy the invariant. *)
LEMMA InitCommandsInv == Init => CommandsInv
<1> SUFFICES ASSUME Init PROVE CommandsInv
    OBVIOUS
<1>1. TypeOK
  <2>1. inbox \in Seq(Command) /\ Len(inbox) = 0 /\ updates \in Seq(SUBSET Client) /\ updates = <<>>
        BY DEF Init
  <2>2. jobs \in [Job -> JobStatus] /\ answer \in [Job -> SUBSET Client]
        BY DEF Init, JobStatus
  <2>3. /\ client \in [Client -> Told \union {"idle", "send", "wait", "good", "bad"}]
        /\ expected \in [Client -> Nat] /\ sends \in [Client -> Nat] /\ applied \in [Client -> Nat]
        BY DEF Init
  <2>4. leaseOver \in BOOLEAN /\ stopEvent \in BOOLEAN /\ graceOver \in BOOLEAN
        BY DEF Init
  <2> QED BY <2>1, <2>2, <2>3, <2>4 DEF Init, TypeOK
<1>2. MailIsOrdered /\ FirstTries
      BY DEF Init, MailIsOrdered, FirstTries, Untouched
<1>3. RequestsCountOnce /\ UpdatesAdvance /\ AnswersSettle
      BY CommandAssumption DEF Init, RequestsCountOnce, UpdatesAdvance, AnswersSettle, Accepted
<1>4. TaskIsCarried /\ FinishAsksNothing
      BY DEF Init, TaskIsCarried, FinishAsksNothing
<1> QED BY <1>1, <1>2, <1>3, <1>4 DEF CommandsInv

(* A job that is neither completed nor was leaves every accepted answer.    *)
LEMMA NoneCompleted ==
    ASSUME AnswersSettle, UNCHANGED <<answer, client, applied>>,
           \A j \in Job : jobs'[j] = jobs[j] \/ (jobs[j] # "completed" /\ jobs'[j] # "completed")
    PROVE  AnswersSettle'
<1>1. \A j \in Job : jobs'[j] = "completed" <=> jobs[j] = "completed"
      OBVIOUS
<1>2. \A c \in Client : Kind[c] = "respond" => Answers[c] \in Job
      BY CommandAssumption
<1> QED BY <1>1, <1>2 DEF AnswersSettle, Accepted

(* A command file is written with the number of the attempt. *)
LEMMA WriteKeepsMail ==
    ASSUME TypeOK, MailIsOrdered, FirstTries, NEW c \in Client, WriteCommand(c)
    PROVE  TypeOK' /\ MailIsOrdered' /\ FirstTries'
<1> DEFINE file == [from |-> c, n |-> sends[c]]
<1>1. /\ client[c] = "send" /\ inbox' = Append(inbox, file) /\ client' = [client EXCEPT ![c] = "wait"]
      /\ UNCHANGED <<life, config, cognition, worker, listed, asking, controller, history, strays>>
      BY DEF WriteCommand, Tell
<1>2. file \in Command /\ file.from = c /\ file.n = sends[c] /\ sends[c] \in Nat /\ inbox \in Seq(Command)
      BY DEF Command, TypeOK
<1> HIDE DEF file
<1>3. /\ inbox' \in Seq(Command) /\ Len(inbox') = Len(inbox) + 1 /\ Len(inbox) \in Nat
      /\ inbox'[Len(inbox) + 1] = file /\ \A k \in 1..Len(inbox) : inbox'[k] = inbox[k]
      BY <1>1, <1>2, AppendProperties
<1>4. \A k \in 1..Len(inbox') : k \in 1..Len(inbox) \/ k = Len(inbox) + 1
      BY <1>3
<1>5. client' \in [Client -> Told \union {"idle", "send", "wait", "good", "bad"}]
      BY <1>1 DEF TypeOK
<1>6. client'[c] = "wait" /\ \A d \in Client \ {c} : client'[d] = client[d]
      BY <1>1 DEF TypeOK
<1>7. TypeOK'
  <2>1. listed \in 0..Len(inbox')
        BY <1>3 DEF TypeOK
  <2> QED BY <1>1, <1>3, <1>5, <2>1 DEF TypeOK, life, config, cognition, asking, controller, history
<1>8. ASSUME NEW k \in 1..Len(inbox), inbox[k].from = c PROVE inbox[k].n \in 1..sends[c] /\ inbox[k].n # sends[c]
  <2>1. inbox[k].n = sends[inbox[k].from] => client[inbox[k].from] \in {"wait", "timeout", "idle"}
        BY DEF MailIsOrdered
  <2>2. inbox[k].n \in 1..sends[inbox[k].from]
        BY DEF MailIsOrdered
  <2> QED BY <1>1, <1>8, <2>1, <2>2
<1>9. MailIsOrdered'
  <2>1. sends[c] \in 1..sends[c]
        BY <1>1, <1>2 DEF FirstTries
  <2>2. ASSUME NEW k \in 1..Len(inbox')
        PROVE  /\ inbox'[k].n \in 1..sends[inbox'[k].from]
               /\ inbox'[k].n = sends[inbox'[k].from] => client'[inbox'[k].from] \in {"wait", "timeout", "idle"}
    <3>1. CASE k \in 1..Len(inbox)
      <4>1. inbox'[k] = inbox[k] /\ inbox[k].from \in Client
            BY <1>3, <3>1, MailTypes
      <4>2. /\ inbox[k].n \in 1..sends[inbox[k].from]
            /\ inbox[k].n = sends[inbox[k].from] => client[inbox[k].from] \in {"wait", "timeout", "idle"}
            BY <3>1 DEF MailIsOrdered
      <4> QED BY <1>6, <4>1, <4>2
    <3>2. CASE k = Len(inbox) + 1
          BY <1>2, <1>3, <1>6, <2>1, <3>2
    <3> QED BY <1>4, <3>1, <3>2
  <2>3. ASSUME NEW k \in 1..Len(inbox'), NEW l \in 1..Len(inbox'),
               inbox'[k].from = inbox'[l].from, inbox'[k].n = inbox'[l].n
        PROVE  k = l
    <3>1. CASE k \in 1..Len(inbox) /\ l \in 1..Len(inbox)
          BY <1>3, <2>3, <3>1 DEF MailIsOrdered
    <3>2. CASE k = Len(inbox) + 1 /\ l \in 1..Len(inbox)
          BY <1>2, <1>3, <1>8, <2>3, <3>2
    <3>3. CASE k \in 1..Len(inbox) /\ l = Len(inbox) + 1
          BY <1>2, <1>3, <1>8, <2>3, <3>3
    <3> QED BY <1>4, <3>1, <3>2, <3>3
  <2> QED BY <1>1, <2>2, <2>3 DEF MailIsOrdered, asking
<1>10. FirstTries'
  <2>1. \A d \in Client : (\E k \in 1..Len(inbox') : inbox'[k].from = d) => d = c \/ \E k \in 1..Len(inbox) : inbox[k].from = d
        BY <1>2, <1>3, <1>4
  <2>2. UNCHANGED <<sends, applied, offered, torn>>
        BY <1>1 DEF asking, history
  <2> QED BY <1>1, <1>6, <2>1, <2>2 DEF FirstTries, Untouched
<1> QED BY <1>7, <1>9, <1>10

(* What an acknowledgement does to the mail: the first file is gone, and     *)
(* only its sender, who waits for that very attempt, may be told something.  *)
Answered(c, n) ==
    /\ inbox' \in Seq(Command) /\ Len(inbox') = Len(inbox) - 1
    /\ \A k \in 1..Len(inbox') : k + 1 \in 1..Len(inbox) /\ inbox'[k] = inbox[k + 1]
    /\ listed' \in 0..Len(inbox')
    /\ client' \in [Client -> Told \union {"idle", "send", "wait", "good", "bad"}]
    /\ \A d \in Client \ {c} : client'[d] = client[d]
    /\ client'[c] = client[c] \/ (client[c] = "wait" /\ sends[c] = n /\ client'[c] \in {"good", "bad"})
    /\ torn \subseteq torn' /\ torn' \subseteq torn \union {c}

(* That is all an acknowledgement does, and a good one is true but for the   *)
(* sender whose event the disk lost.                                        *)
LEMMA AcknowledgeAnswers ==
    ASSUME TypeOK, listed > 0, NEW good \in BOOLEAN, NEW whole \in BOOLEAN, Acknowledge(Head(inbox), good, whole)
    PROVE  /\ 1 \in 1..Len(inbox) /\ Head(inbox) = inbox[1]
           /\ Answered(inbox[1].from, inbox[1].n)
           /\ ~whole => inbox[1].from \in torn'
           /\ ~good /\ client[inbox[1].from] = "wait" => client'[inbox[1].from] # "good"
           /\ good /\ client[inbox[1].from] = "wait" /\ client'[inbox[1].from] = "bad" => inbox[1].from \in torn'
<1> DEFINE c == inbox[1].from
           n == inbox[1].n
<1>1. inbox \in Seq(Command) /\ Len(inbox) \in Nat /\ 1 \in 1..Len(inbox) /\ inbox # <<>> /\ listed \in 0..Len(inbox)
      BY DEF TypeOK
<1>2. Head(inbox) = inbox[1] /\ c \in Client /\ n \in Nat
      BY <1>1, MailTypes
<1>3. PICK written \in BOOLEAN :
        /\ client' = [client EXCEPT ![c] =
               IF @ = "wait" /\ sends[c] = n THEN (IF good /\ written THEN "good" ELSE "bad") ELSE @]
        /\ torn' = IF written /\ whole THEN torn ELSE torn \union {c}
      BY <1>2 DEF Acknowledge
<1>4. inbox' = Tail(inbox) /\ listed' = listed - 1
      BY DEF Acknowledge
<1>5. /\ inbox' \in Seq(Command) /\ Len(inbox') = Len(inbox) - 1
      /\ \A k \in 1..Len(inbox') : k + 1 \in 1..Len(inbox) /\ inbox'[k] = inbox[k + 1]
      BY <1>1, <1>4
<1>6. listed' \in 0..Len(inbox')
      BY <1>1, <1>4, <1>5
<1> HIDE DEF c, n
<1>7. client \in [Client -> Told \union {"idle", "send", "wait", "good", "bad"}]
      BY DEF TypeOK
<1>8. /\ client' \in [Client -> Told \union {"idle", "send", "wait", "good", "bad"}]
      /\ \A d \in Client \ {c} : client'[d] = client[d]
      /\ client'[c] = IF client[c] = "wait" /\ sends[c] = n THEN (IF good /\ written THEN "good" ELSE "bad") ELSE client[c]
      BY <1>2, <1>3, <1>7
<1>9. torn \subseteq torn' /\ torn' \subseteq torn \union {c}
      BY <1>3
<1>10. Answered(c, n)
      BY <1>5, <1>6, <1>8, <1>9 DEF Answered
<1>11. /\ ~whole => c \in torn'
       /\ ~good /\ client[c] = "wait" => client'[c] # "good"
       /\ good /\ client[c] = "wait" /\ client'[c] = "bad" /\ sends[c] = n => c \in torn'
      BY <1>3, <1>8
<1> QED BY <1>1, <1>2, <1>8, <1>10, <1>11 DEF c, n

(* Taking the first command keeps the mail in order, and what the first      *)
(* attempts mean, provided that a refusal leaves its sender untouched.       *)
LEMMA TakeKeepsMail ==
    ASSUME TypeOK, MailIsOrdered, FirstTries, 1 \in 1..Len(inbox),
           NEW c, NEW n, c = inbox[1].from, n = inbox[1].n, Answered(c, n), UNCHANGED sends,
           \A d \in Client \ {c} : applied'[d] = applied[d] /\ (d \in offered' <=> d \in offered),
           client[c] = "wait" /\ client'[c] = "bad" /\ c \notin torn' /\ Untouched(c) => Untouched(c)'
    PROVE  MailIsOrdered' /\ FirstTries'
<1>1. /\ c \in Client /\ n \in 1..sends[c] /\ sends[c] \in Nat /\ Len(inbox) \in Nat
      /\ n = sends[c] => client[c] \in {"wait", "timeout", "idle"}
      BY MailTypes DEF MailIsOrdered, TypeOK
<1>2. /\ Len(inbox') = Len(inbox) - 1
      /\ \A k \in 1..Len(inbox') : k + 1 \in 1..Len(inbox) /\ inbox'[k] = inbox[k + 1]
      BY DEF Answered
<1>3. \A d \in Client \ {c} : client'[d] = client[d]
      BY DEF Answered
<1>4. client'[c] = client[c] \/ (client[c] = "wait" /\ sends[c] = n /\ client'[c] \in {"good", "bad"})
      BY DEF Answered
<1>5. torn \subseteq torn' /\ torn' \subseteq torn \union {c}
      BY DEF Answered
<1>6. ASSUME NEW k \in 1..Len(inbox'), inbox'[k].from = c PROVE inbox'[k].n # n
  <2>1. k + 1 \in 1..Len(inbox) /\ inbox'[k] = inbox[k + 1] /\ k + 1 # 1
        BY <1>2
  <2> QED BY <1>6, <2>1 DEF MailIsOrdered
<1>7. MailIsOrdered'
  <2>1. ASSUME NEW k \in 1..Len(inbox')
        PROVE  /\ inbox'[k].n \in 1..sends[inbox'[k].from]
               /\ inbox'[k].n = sends[inbox'[k].from] => client'[inbox'[k].from] \in {"wait", "timeout", "idle"}
    <3>1. k + 1 \in 1..Len(inbox) /\ inbox'[k] = inbox[k + 1]
          BY <1>2
    <3>2. /\ inbox'[k].from \in Client /\ inbox'[k].n \in 1..sends[inbox'[k].from]
          /\ inbox'[k].n = sends[inbox'[k].from] => client[inbox'[k].from] \in {"wait", "timeout", "idle"}
          BY <3>1, MailTypes DEF MailIsOrdered
    <3>3. CASE inbox'[k].from = c
          BY <1>4, <1>6, <3>2, <3>3
    <3>4. CASE inbox'[k].from # c
          BY <1>3, <3>2, <3>4
    <3> QED BY <3>3, <3>4
  <2>2. ASSUME NEW k \in 1..Len(inbox'), NEW l \in 1..Len(inbox'),
               inbox'[k].from = inbox'[l].from, inbox'[k].n = inbox'[l].n
        PROVE  k = l
    <3>1. /\ k + 1 \in 1..Len(inbox) /\ inbox'[k] = inbox[k + 1]
          /\ l + 1 \in 1..Len(inbox) /\ inbox'[l] = inbox[l + 1]
          BY <1>2
    <3>2. k + 1 = l + 1
          BY <2>2, <3>1 DEF MailIsOrdered
    <3> QED BY <3>2
  <2> QED BY <2>1, <2>2 DEF MailIsOrdered
<1>8. FirstTries'
  <2>1. ASSUME NEW d \in Client, d # c
        PROVE  /\ sends'[d] = sends[d] /\ client'[d] = client[d] /\ (Untouched(d)' <=> Untouched(d))
               /\ (\E k \in 1..Len(inbox') : inbox'[k].from = d) => \E k \in 1..Len(inbox) : inbox[k].from = d
               /\ d \in torn <=> d \in torn'
        BY <1>2, <1>3, <1>5, <2>1 DEF Untouched
  <2>2. sends[c] # 0 /\ sends'[c] = sends[c]
        BY <1>1
  <2>3. ASSUME sends[c] = 1
        PROVE  /\ client'[c] # "send" /\ ~\E k \in 1..Len(inbox') : inbox'[k].from = c
               /\ client'[c] \in {"bad", "rejected"} /\ c \notin torn' => Untouched(c)'
    <3>1. n = 1 /\ client[c] \in {"wait", "timeout", "idle"}
          BY <1>1, <2>3
    <3>2. Untouched(c)
          BY <1>1, <2>3 DEF FirstTries
    <3>3. ASSUME NEW k \in 1..Len(inbox'), inbox'[k].from = c PROVE FALSE
      <4>1. inbox'[k].n \in 1..sends[c]
            BY <1>7, <3>3 DEF MailIsOrdered
      <4> QED BY <1>6, <2>3, <3>1, <3>3, <4>1
    <3> QED BY <1>4, <3>1, <3>2, <3>3
  <2>4. ASSUME NEW d \in Client
        PROVE  /\ sends'[d] = 0 => client'[d] = "idle" /\ Untouched(d)'
               /\ sends'[d] = 1 /\ client'[d] = "send" => Untouched(d)'
               /\ sends'[d] = 1 /\ (\E k \in 1..Len(inbox') : inbox'[k].from = d) => Untouched(d)'
               /\ sends'[d] = 1 /\ client'[d] \in {"bad", "rejected"} /\ d \notin torn' => Untouched(d)'
    <3>1. CASE d = c
          BY <2>2, <2>3, <3>1
    <3>2. CASE d # c
          BY <2>1, <3>2 DEF FirstTries
    <3> QED BY <3>1, <3>2
  <2> QED BY <2>4 DEF FirstTries
<1> QED BY <1>7, <1>8

(* A step that completes no job and accepts no answer leaves every answer.   *)
LEMMA AnswersUndisturbed ==
    ASSUME AnswersSettle, NEW c \in Client, NEW n, Answered(c, n), UNCHANGED answer,
           \A j \in Job : jobs'[j] = jobs[j] \/ (jobs[j] # "completed" /\ jobs'[j] # "completed"),
           \A d \in Client \ {c} : applied'[d] = applied[d],
           Kind[c] = "respond" => applied'[c] = applied[c] /\ (client[c] = "wait" => client'[c] # "good")
    PROVE  AnswersSettle'
<1>1. \A j \in Job : jobs'[j] = "completed" <=> jobs[j] = "completed"
      OBVIOUS
<1>2. ASSUME NEW d \in Client, Kind[d] = "respond"
      PROVE  /\ Answers[d] \in Job /\ applied'[d] = applied[d]
             /\ client'[d] \in {"good", "ok"} => client[d] \in {"good", "ok"}
  <2>1. Answers[d] \in Job
        BY <1>2, CommandAssumption
  <2>2. CASE d = c
        BY <1>2, <2>1, <2>2 DEF Answered
  <2>3. CASE d # c
        BY <2>1, <2>3 DEF Answered
  <2> QED BY <2>2, <2>3
<1> QED BY <1>1, <1>2 DEF AnswersSettle, Accepted

(* One command of the inbox: an update, an answer, a stop or a heartbeat.    *)
LEMMA ProcessKeepsInv == CommandsInv /\ ProcessCommand => CommandsInv'
<1> SUFFICES ASSUME CommandsInv, ProcessCommand PROVE CommandsInv'
    OBVIOUS
<1> DEFINE first == inbox[1]
<1> USE DEF CommandsInv, config, cognition, life
<1>1. worker = "commands" /\ listed > 0 /\ UNCHANGED <<worker, asking, kernelTask, engine, strays>>
      BY DEF ProcessCommand
<1>2. inbox \in Seq(Command) /\ 1 \in 1..Len(inbox) /\ Head(inbox) = first
      BY <1>1 DEF TypeOK
<1>3. PICK c \in Client, n \in Nat : c = first.from /\ n = first.n
      BY <1>2, MailTypes
<1>5. UNCHANGED <<expected, sends>>
      BY <1>1 DEF asking
<1>4. Update(first) \/ Complete(first) \/ Stop(first) \/ Heartbeat(first)
      BY <1>2 DEF ProcessCommand
<1>a. ASSUME NEW good \in BOOLEAN, NEW whole \in BOOLEAN, Acknowledge(first, good, whole)
      PROVE  /\ Answered(c, n)
             /\ ~whole => c \in torn'
             /\ ~good /\ client[c] = "wait" => client'[c] # "good"
             /\ good /\ client[c] = "wait" /\ client'[c] = "bad" => c \in torn'
      BY <1>1, <1>2, <1>3, <1>a, AcknowledgeAnswers
<1>b. ASSUME Refuse(first)
      PROVE  Answered(c, n) /\ UNCHANGED applied /\ (client[c] = "wait" => client'[c] # "good")
      BY <1>a, <1>b DEF Refuse
<1> HIDE DEF first
<1>c. ASSUME Answered(c, n) PROVE c \notin torn' => c \notin torn
      BY <1>c DEF Answered
<1>d. ASSUME Answered(c, n), TypeOK
      PROVE  /\ inbox' \in Seq(Command) /\ listed' \in 0..Len(inbox')
             /\ client' \in [Client -> Told \union {"idle", "send", "wait", "good", "bad"}] /\ torn' \subseteq Client
      BY <1>3, <1>d DEF Answered, TypeOK
<1>e. ASSUME Refuse(first), UNCHANGED <<life, config, updates, offered, answer>>, jobs' \in [Job -> JobStatus],
             \A j \in Job : jobs'[j] = jobs[j] \/ (jobs[j] # "completed" /\ jobs'[j] # "completed")
      PROVE  CommandsInv'
  <2>1. Answered(c, n) /\ UNCHANGED applied /\ (client[c] = "wait" => client'[c] # "good")
        BY <1>b, <1>e
  <2>2. TypeOK'
        BY <1>1, <1>5, <1>d, <1>e, <2>1 DEF TypeOK
  <2>3. MailIsOrdered' /\ FirstTries'
    <3>1. Untouched(c) => Untouched(c)'
          BY <1>e, <2>1 DEF Untouched
    <3>2. \A d \in Client \ {c} : applied'[d] = applied[d] /\ (d \in offered' <=> d \in offered)
          BY <1>e, <2>1
    <3> QED BY <1>2, <1>3, <1>5, <2>1, <3>1, <3>2, TakeKeepsMail
  <2>4. RequestsCountOnce' /\ UpdatesAdvance'
        BY <1>5, <1>e, <2>1 DEF RequestsCountOnce, UpdatesAdvance, Accepted
  <2>5. AnswersSettle'
        BY <1>3, <1>e, <2>1, AnswersUndisturbed
  <2>6. TaskIsCarried'
        BY <1>1, <1>e, <2>1 DEF TaskIsCarried, Answered
  <2>7. FinishAsksNothing'
        BY <1>1, <1>e DEF FinishAsksNothing
  <2> QED BY <2>2, <2>3, <2>4, <2>5, <2>6, <2>7
<1>g. ASSUME Kind[c] \in {"stop", "heartbeat"}, Acknowledge(first, TRUE, TRUE), applied' = [applied EXCEPT ![c] = @ + 1],
             UNCHANGED <<graceOver, config, cognition, updates, offered>>,
             status' = status \/ (status = "running" /\ status' = "stopping"),
             stopEvent' \in BOOLEAN, leaseOver' \in BOOLEAN
      PROVE  CommandsInv'
  <2>1. Answered(c, n) /\ (client[c] = "wait" /\ client'[c] = "bad" => c \in torn')
        BY <1>a, <1>g
  <2>2. applied' \in [Client -> Nat] /\ \A d \in Client \ {c} : applied'[d] = applied[d]
        BY <1>3, <1>g DEF TypeOK
  <2>3. TypeOK'
        BY <1>1, <1>5, <1>d, <1>g, <2>1, <2>2 DEF TypeOK, Over
  <2>4. MailIsOrdered' /\ FirstTries'
        BY <1>2, <1>3, <1>5, <1>g, <2>1, <2>2, TakeKeepsMail
  <2>5. \A d \in Client : Kind[d] \in {"update", "respond"} => d # c
        BY <1>g
  <2>6. RequestsCountOnce' /\ UpdatesAdvance'
        BY <1>5, <1>g, <2>2, <2>5 DEF RequestsCountOnce, UpdatesAdvance, Accepted
  <2>7. AnswersSettle'
    <3>1. Kind[c] # "respond" /\ UNCHANGED <<jobs, answer>>
          BY <1>g
    <3> QED BY <1>3, <2>1, <2>2, <3>1, AnswersUndisturbed
  <2>8. TaskIsCarried'
        BY <1>1, <1>g, <2>1 DEF TaskIsCarried, Answered
  <2>9. FinishAsksNothing'
        BY <1>1, <1>g DEF FinishAsksNothing
  <2> QED BY <2>3, <2>4, <2>6, <2>7, <2>8, <2>9
<1>6. CASE Update(first)
  <2>1. CASE VersionMatches(c) /\ status # "stopping"
    <3>1. PICK how \in Recording :
             /\ Applied(c, how) /\ Acknowledge(first, how = "whole", how = "whole")
             /\ IF how = "nothing" THEN UNCHANGED config ELSE task' = task \union {c} /\ version' = version + 1
          BY <1>3, <1>6, <2>1 DEF Update
    <3>2. /\ Kind[c] = "update" /\ expected[c] = version /\ UNCHANGED <<life, cognition>>
          /\ updates' = Append(updates, task \union {c}) /\ offered' = offered \union {c}
          BY <1>3, <1>6, <2>1 DEF Update, VersionMatches
    <3>3. Answered(c, n) /\ (how # "whole" => c \in torn')
          /\ (client[c] = "wait" /\ client'[c] = "bad" => c \in torn')
      <4>1. CASE how = "whole"
        <5>1. Acknowledge(first, TRUE, TRUE)
              BY <3>1, <4>1 DEF Acknowledge
        <5> QED BY <1>a, <4>1, <5>1
      <4>2. CASE how # "whole"
        <5>1. Acknowledge(first, FALSE, FALSE)
              BY <3>1, <4>2 DEF Acknowledge
        <5> QED BY <1>a, <4>2, <5>1
      <4> QED BY <4>1, <4>2
    <3>4. \/ how = "nothing" /\ applied' = applied /\ UNCHANGED config
          \/ /\ how # "nothing" /\ applied' = [applied EXCEPT ![c] = @ + 1]
             /\ task' = task \union {c} /\ version' = version + 1
      <4>1. CASE how = "nothing"
            BY <3>1, <4>1 DEF Applied
      <4>2. CASE how # "nothing"
            BY <3>1, <4>2 DEF Applied
      <4> QED BY <4>1, <4>2
    <3>5. ~Accepted(c) /\ applied[c] = 0
          BY <1>3, <3>2 DEF UpdatesAdvance, TypeOK, Accepted
    <3>6. updates' \in Seq(SUBSET Client) /\ updates' # <<>> /\ updates'[Len(updates')] = task \union {c}
      <4>1. updates \in Seq(SUBSET Client) /\ task \union {c} \in SUBSET Client
            BY <1>3 DEF TypeOK
      <4> QED BY <3>2, <4>1, AppendProperties
    <3>7. TypeOK'
      <4>1. /\ inbox' \in Seq(Command) /\ listed' \in 0..Len(inbox')
            /\ client' \in [Client -> Told \union {"idle", "send", "wait", "good", "bad"}] /\ torn' \subseteq Client
            BY <1>d, <3>3
      <4>2. applied' \in [Client -> Nat] /\ version' \in Nat \ {0} /\ task' \subseteq Client /\ offered' \subseteq Client
        <5>1. applied \in [Client -> Nat] /\ version \in Nat \ {0} /\ task \subseteq Client /\ offered \subseteq Client
              BY DEF TypeOK
        <5>2. offered' \subseteq Client
              BY <1>3, <3>2, <5>1
        <5> HIDE DEF CommandsInv
        <5> QED BY <1>3, <3>4, <5>1, <5>2
      <4>3. UNCHANGED <<status, leaseOver, stopEvent, graceOver, jobs, answer, worker, expected, sends, kernelTask, engine, strays>>
            BY <1>1, <1>5, <3>2
      <4> QED BY <3>6, <4>1, <4>2, <4>3 DEF TypeOK
    <3>8. MailIsOrdered' /\ FirstTries'
      <4>1. \A d \in Client \ {c} : applied'[d] = applied[d] /\ (d \in offered' <=> d \in offered)
            BY <1>3, <3>2, <3>4 DEF TypeOK
      <4> QED BY <1>2, <1>3, <3>3, <1>5, <4>1, TakeKeepsMail DEF first
    <3>9. \A d \in Client : /\ d # c => applied'[d] = applied[d]
                            /\ applied'[c] = applied[c] \/ (applied'[c] = 1 /\ version' = version + 1)
          BY <1>3, <3>4, <3>5 DEF TypeOK
    <3>10. version \in Nat /\ version' \in Nat /\ version' >= version /\ (applied' # applied => version' = version + 1)
           /\ expected \in [Client -> Nat]
          BY <3>4 DEF TypeOK
    <3>11. RequestsCountOnce' /\ UpdatesAdvance'
          BY <1>3, <1>5, <3>2, <3>5, <3>9, <3>10, SMTT(30) DEF RequestsCountOnce, UpdatesAdvance, Accepted
    <3>12. AnswersSettle'
      <4>1. /\ UNCHANGED <<jobs, answer>> /\ Kind[c] # "respond"
            /\ \A d \in Client \ {c} : applied'[d] = applied[d]
            BY <3>2, <3>9
      <4> QED BY <1>3, <3>3, <4>1, AnswersUndisturbed
    <3>13. TaskIsCarried'
      <4>1. torn' = {} => how = "whole"
            BY <3>3
      <4> QED BY <3>4, <3>6, <4>1 DEF TaskIsCarried
    <3>14. FinishAsksNothing'
          BY <1>1, <3>2 DEF FinishAsksNothing, Pending
    <3> QED BY <3>7, <3>8, <3>11, <3>12, <3>13, <3>14
  <2>2. CASE ~(VersionMatches(c) /\ status # "stopping")
    <3>1. Refuse(first) /\ UNCHANGED <<config, updates, offered, life, cognition>>
          BY <1>3, <1>6, <2>2 DEF Update
    <3> QED BY <1>e, <3>1 DEF TypeOK
  <2> QED BY <2>1, <2>2
<1>7. CASE Complete(first)
  <2> DEFINE j == Answers[c]
  <2>1. /\ Kind[c] = "respond" /\ j \in Job /\ UNCHANGED <<life, config, updates, offered>>
        /\ jobs \in [Job -> JobStatus] /\ answer \in [Job -> SUBSET Client] /\ applied \in [Client -> Nat]
        BY <1>3, <1>7, CommandAssumption DEF Complete, TypeOK
  <2>2. CASE Refuse(first) /\ UNCHANGED cognition
        BY <1>e, <2>1, <2>2
  <2>3. CASE jobs[j] = "late" /\ Refuse(first) /\ Settle(j, "expired") /\ UNCHANGED answer
    <3>1. /\ jobs' \in [Job -> JobStatus]
          /\ \A i \in Job : jobs'[i] = jobs[i] \/ (jobs[i] # "completed" /\ jobs'[i] # "completed")
          BY <2>1, <2>3 DEF Settle, JobStatus
    <3> QED BY <1>e, <2>1, <2>3, <3>1
  <2>4. ASSUME NEW how \in Recording, jobs[j] = "pending",
               Applied(c, how), Acknowledge(first, how = "whole", how = "whole"),
               IF how = "nothing" THEN UNCHANGED cognition
               ELSE Settle(j, "completed") /\ answer' = [answer EXCEPT ![j] = @ \union {c}]
        PROVE  CommandsInv'
    <3>1. Answered(c, n) /\ (how # "whole" => c \in torn' /\ (client[c] = "wait" => client'[c] # "good"))
          /\ (client[c] = "wait" /\ client'[c] = "bad" => c \in torn')
      <4>1. CASE how = "whole"
        <5>1. Acknowledge(first, TRUE, TRUE)
              BY <2>4, <4>1 DEF Acknowledge
        <5> QED BY <1>a, <4>1, <5>1
      <4>2. CASE how # "whole"
        <5>1. Acknowledge(first, FALSE, FALSE)
              BY <2>4, <4>2 DEF Acknowledge
        <5> QED BY <1>a, <4>2, <5>1
      <4> QED BY <4>1, <4>2
    <3>2. applied[c] = 0 /\ answer[j] = {} /\ client[c] \notin {"good", "ok"}
          BY <1>3, <2>1, <2>4 DEF AnswersSettle, Accepted
    <3>3. \/ how = "nothing" /\ applied' = applied /\ UNCHANGED cognition
          \/ /\ how # "nothing" /\ applied' = [applied EXCEPT ![c] = 1]
             /\ jobs' = [jobs EXCEPT ![j] = "completed"] /\ answer' = [answer EXCEPT ![j] = {c}]
      <4>1. CASE how = "nothing"
            BY <2>4, <4>1 DEF Applied
      <4>2. CASE how # "nothing"
        <5>1. applied' = [applied EXCEPT ![c] = @ + 1] /\ jobs' = [jobs EXCEPT ![j] = "completed"]
              /\ answer' = [answer EXCEPT ![j] = @ \union {c}]
              BY <2>4, <4>2 DEF Applied, Settle
        <5> QED BY <2>1, <3>2, <4>2, <5>1
      <4> QED BY <4>1, <4>2
    <3>4. \A d \in Client \ {c} : applied'[d] = applied[d]
          BY <1>3, <2>1, <3>3
    <3>5. TypeOK'
      <4>1. applied' \in [Client -> Nat] /\ jobs' \in [Job -> JobStatus] /\ answer' \in [Job -> SUBSET Client]
            BY <1>3, <2>1, <3>3 DEF JobStatus
      <4>2. UNCHANGED <<status, leaseOver, stopEvent, graceOver, version, task, worker, expected, sends,
                        kernelTask, engine, updates, offered, strays>>
            BY <1>1, <1>5, <2>1
      <4> QED BY <1>d, <3>1, <4>1, <4>2, ZenonT(60) DEF TypeOK
    <3>6. MailIsOrdered' /\ FirstTries'
          BY <1>2, <1>3, <1>5, <2>1, <3>1, <3>4, TakeKeepsMail
    <3>7. RequestsCountOnce' /\ UpdatesAdvance'
      <4>1. applied'[c] \in {0, 1}
            BY <1>3, <2>1, <3>2, <3>3
      <4> QED BY <1>3, <1>5, <2>1, <3>4, <4>1 DEF RequestsCountOnce, UpdatesAdvance, Accepted
    <3>8. AnswersSettle'
      <4>1. CASE how = "nothing"
        <5>1. applied' = applied /\ UNCHANGED <<jobs, answer>> /\ (client[c] = "wait" => client'[c] # "good")
              BY <3>1, <3>3, <4>1
        <5> QED BY <1>3, <2>1, <3>1, <3>4, <5>1, AnswersUndisturbed
      <4>2. CASE how # "nothing"
        <5>1. /\ jobs'[j] = "completed" /\ answer'[j] = {c}
              /\ \A i \in Job \ {j} : jobs'[i] = jobs[i] /\ answer'[i] = answer[i]
              BY <2>1, <3>3, <4>2
        <5>2. ASSUME NEW d \in Client, d # c, Kind[d] = "respond"
              PROVE  /\ Answers[d] \in Job /\ applied'[d] = applied[d] /\ client'[d] = client[d]
                     /\ Accepted(d) => jobs[Answers[d]] = "completed"
                     /\ client[d] \in {"good", "ok"} =>
                           jobs[Answers[d]] = "completed" /\ answer[Answers[d]] = {d}
              BY <3>1, <3>4, <5>2, CommandAssumption DEF AnswersSettle, Answered
        <5>3. \A i \in Job : jobs'[i] # "completed" => answer'[i] = {}
              BY <5>1 DEF AnswersSettle
        <5>4. ASSUME NEW d \in Client, Kind[d] = "respond"
              PROVE  /\ applied'[d] > 0 => jobs'[Answers[d]] = "completed"
                     /\ client'[d] \in {"good", "ok"} =>
                           jobs'[Answers[d]] = "completed" /\ answer'[Answers[d]] = {d}
          <6>1. CASE d = c
                BY <5>1, <6>1
          <6>2. CASE d # c /\ Answers[d] = j
                BY <2>4, <5>2, <5>4, <6>2 DEF Accepted
          <6>3. CASE d # c /\ Answers[d] # j
                BY <5>1, <5>2, <5>4, <6>3 DEF Accepted
          <6> QED BY <6>1, <6>2, <6>3
        <5> QED BY <5>3, <5>4 DEF AnswersSettle, Accepted
      <4> QED BY <4>1, <4>2
    <3>9. TaskIsCarried'
          BY <1>1, <2>1, <3>1 DEF TaskIsCarried, Answered
    <3>10. FinishAsksNothing'
          BY <1>1, <2>1 DEF FinishAsksNothing
    <3> QED BY <3>5, <3>6, <3>7, <3>8, <3>9, <3>10
  <2> QED BY <1>3, <1>7, <2>2, <2>3, <2>4 DEF Complete
<1>8. CASE Stop(first)
  <2>1. /\ Kind[c] \in {"stop", "heartbeat"} /\ Acknowledge(first, TRUE, TRUE)
        /\ applied' = [applied EXCEPT ![c] = @ + 1]
        /\ UNCHANGED <<leaseOver, graceOver, config, cognition, updates, offered>>
        /\ status' = status \/ (status = "running" /\ status' = "stopping")
        /\ stopEvent' \in BOOLEAN /\ leaseOver' \in BOOLEAN
        BY <1>3, <1>8 DEF Stop, AskToStop, Applied, TypeOK
  <2> QED BY <1>g, <2>1
<1>9. CASE Heartbeat(first)
  <2>1. /\ Kind[c] \in {"stop", "heartbeat"} /\ Acknowledge(first, TRUE, TRUE)
        /\ applied' = [applied EXCEPT ![c] = @ + 1]
        /\ UNCHANGED <<status, stopEvent, graceOver, config, cognition, updates, offered>>
        /\ stopEvent' \in BOOLEAN /\ leaseOver' \in BOOLEAN
        BY <1>3, <1>9 DEF Heartbeat, Applied, TypeOK
  <2> QED BY <1>g, <2>1
<1> QED BY <1>4, <1>6, <1>7, <1>8, <1>9

(* Every step of a client, of the coordinator, of the engine and of time    *)
(* keeps it.                                                                *)
LEMMA NextCommandsInv == CommandsInv /\ [Next]_vars => CommandsInv'
<1> SUFFICES ASSUME CommandsInv, [Next]_vars PROVE CommandsInv'
    OBVIOUS
<1> USE CommandAssumption DEF CommandsInv, TypeOK, MailIsOrdered, FirstTries, RequestsCountOnce, UpdatesAdvance,
       AnswersSettle, TaskIsCarried, FinishAsksNothing, Untouched, Accepted, Pending, JobStatus, Told, Over,
       life, config, cognition, mail, asking, controller, history
<1>0. CASE UNCHANGED vars
  <2>1. TypeOK' /\ AnswersSettle' /\ TaskIsCarried' /\ FinishAsksNothing'
      BY <1>0 DEF vars
  <2>2. MailIsOrdered' /\ FirstTries' /\ RequestsCountOnce' /\ UpdatesAdvance'
      BY <1>0 DEF vars
  <2> QED BY <2>1, <2>2
<1>1. ASSUME NEW c \in Client, CheckStatus(c) PROVE CommandsInv'
  <2> DEFINE r == Reply(c)
  <2>1. r \in {"over", "rejected", "inspected", "send"}
        BY DEF Reply
  <2>2. /\ client[c] = "idle" /\ client' = [client EXCEPT ![c] = r] /\ sends' = [sends EXCEPT ![c] = @ + 1]
        /\ expected' = [expected EXCEPT ![c] = IF Kind[c] = "update" /\ sends[c] = 0 THEN version ELSE @]
        /\ status' = status \/ (status \notin Over /\ status' = "failed")
        /\ UNCHANGED <<leaseOver, stopEvent, graceOver, config, cognition, worker, mail, controller, history, strays>>
        BY <1>1 DEF CheckStatus, Tell, Reply
  <2> HIDE DEF r
  <2>3. TypeOK'
        BY <2>1, <2>2
  <2>4. MailIsOrdered'
    <3>1. ASSUME NEW k \in 1..Len(inbox)
          PROVE  inbox[k].from = c => inbox[k].n \in 1..sends'[c] /\ inbox[k].n # sends'[c]
          BY <2>2, MailTypes
    <3>2. \A d \in Client \ {c} : client'[d] = client[d] /\ sends'[d] = sends[d]
          BY <2>2
    <3>3. \A k \in 1..Len(inbox) : inbox[k].from \in Client
          BY MailTypes
    <3> QED BY <2>2, <3>1, <3>2, <3>3, SMTT(30)
  <2>5. FirstTries'
        BY <2>1, <2>2
  <2>6. RequestsCountOnce' /\ UpdatesAdvance'
        BY <2>1, <2>2, SMTT(30)
  <2>7. AnswersSettle'
        BY <2>1, <2>2
  <2>8. TaskIsCarried' /\ FinishAsksNothing'
        BY <2>1, <2>2
  <2> QED BY <2>3, <2>4, <2>5, <2>6, <2>7, <2>8
<1>2. ASSUME NEW c \in Client, WriteCommand(c) PROVE CommandsInv'
  <2>1. TypeOK' /\ MailIsOrdered' /\ FirstTries'
        BY <1>2, WriteKeepsMail
  <2>2. RequestsCountOnce' /\ UpdatesAdvance' /\ AnswersSettle' /\ TaskIsCarried' /\ FinishAsksNothing'
        BY <1>2 DEF WriteCommand, Tell
  <2> QED BY <2>1, <2>2
<1>3. ASSUME NEW c \in Client, ReadAck(c) PROVE CommandsInv'
      BY <1>3, SMTT(30) DEF ReadAck, Tell
<1>4. ASSUME NEW c \in Client, AckTimesOut(c) PROVE CommandsInv'
      BY <1>4, SMTT(30) DEF AckTimesOut, Tell
<1>5. ASSUME NEW c \in Client, Repeat(c) PROVE CommandsInv'
      BY <1>5, SMTT(30) DEF Repeat, Tell
<1>6. ASSUME StartWorker PROVE CommandsInv'
      BY <1>6, SMTT(30) DEF StartWorker, BeginRound
<1>7. ASSUME ProcessCommand PROVE CommandsInv'
      BY <1>7, ProcessKeepsInv
<1>8. ASSUME CheckDeadlines PROVE CommandsInv'
  <2>1. /\ worker = "commands" /\ worker' = "result" /\ (stopEvent => stopEvent') /\ stopEvent' \in BOOLEAN
        /\ status' = status \/ (status = "running" /\ status' = "stopping")
        /\ UNCHANGED <<leaseOver, graceOver, config, answer, mail, client, asking, controller, history, strays>>
        BY <1>8 DEF CheckDeadlines, AskToStop
  <2>2. /\ jobs' \in [Job -> JobStatus]
        /\ \A j \in Job : jobs'[j] = jobs[j] \/ (jobs[j] = "late" /\ jobs'[j] = "expired")
        BY <1>8 DEF CheckDeadlines, ExpireDue
  <2>3. TypeOK'
        BY <2>1, <2>2
  <2>4. MailIsOrdered' /\ FirstTries'
        BY <2>1
  <2>4a. RequestsCountOnce' /\ UpdatesAdvance' /\ TaskIsCarried'
        BY <2>1
  <2>5. AnswersSettle'
        BY <2>1, <2>2, NoneCompleted
  <2>6. status' # "finished" /\ worker' = "result"
        BY <2>1
  <2>7. FinishAsksNothing'
        BY <2>1, <2>6
  <2> QED BY <2>3, <2>4, <2>4a, <2>5, <2>7
<1>9. ASSUME TakeResult PROVE CommandsInv'
  <2>1. /\ worker = "result"
        /\ \/ /\ worker' = "finish" /\ UNCHANGED listed /\ (engine = "returned" \/ graceOver)
              /\ jobs' = [j \in Job |-> IF Pending(j) THEN "cancelled" ELSE jobs[j]]
           \/ worker' = "commands" /\ listed' = Len(inbox) /\ UNCHANGED jobs
        /\ UNCHANGED <<life, config, answer, inbox, client, asking, controller, history, strays>>
        BY <1>9 DEF TakeResult, BeginRound
  <2>2. TypeOK'
        BY <2>1
  <2>3. MailIsOrdered' /\ FirstTries' /\ RequestsCountOnce' /\ UpdatesAdvance' /\ TaskIsCarried'
        BY <2>1
  <2>4. CASE jobs' = [j \in Job |-> IF Pending(j) THEN "cancelled" ELSE jobs[j]] /\ (engine = "returned" \/ graceOver)
    <3>1. \A j \in Job : jobs'[j] = IF Pending(j) THEN "cancelled" ELSE jobs[j]
          BY <2>4
    <3>2. AnswersSettle'
          BY <2>1, <3>1, NoneCompleted
    <3>3. \A j \in Job : ~Pending(j)'
          BY <3>1
    <3>4. FinishAsksNothing'
          BY <2>1, <2>4, <3>3
    <3> QED BY <2>2, <2>3, <3>2, <3>4
  <2>5. CASE worker' = "commands" /\ UNCHANGED jobs
    <3>1. status' # "finished"
          BY <2>1
    <3>2. AnswersSettle' /\ FinishAsksNothing'
          BY <2>1, <2>5, <3>1
    <3> QED BY <2>2, <2>3, <3>2
  <2> QED BY <2>1, <2>4, <2>5
<1>10. ASSUME FinishRun PROVE CommandsInv'
      BY <1>10, SMTT(30) DEF FinishRun
<1>11. ASSUME Kill PROVE CommandsInv'
      BY <1>11, SMTT(30) DEF Kill
<1>12. ASSUME NEW j \in Job, Request(j) PROVE CommandsInv'
      BY <1>12, SMTT(30) DEF Request, EngineMoves, Alive, Settle, NoteStray
<1>13. ASSUME DrainUpdates PROVE CommandsInv'
  <2> DEFINE last == updates[Len(updates)]
  <2>1. /\ updates # <<>> /\ updates' = <<>> /\ worker # "dead" /\ engine # "returned"
        /\ \/ engine = "over" /\ UNCHANGED <<kernelTask, engine>>
           \/ engine # "over" /\ kernelTask' = last /\ engine' = "running"
        /\ UNCHANGED <<life, config, cognition, worker, mail, client, asking, history, strays>>
        BY <1>13 DEF DrainUpdates, EngineMoves, Alive
  <2>2. last \in SUBSET Client /\ <<>> \in Seq(SUBSET Client)
        BY <2>1
  <2>3. TypeOK'
        BY <2>1, <2>2
  <2>4. MailIsOrdered' /\ FirstTries' /\ RequestsCountOnce' /\ UpdatesAdvance' /\ AnswersSettle'
        BY <2>1
  <2>5. FinishAsksNothing'
        BY <1>13, <2>1 DEF DrainUpdates
  <2>6. TaskIsCarried'
        BY <2>1
  <2> QED BY <2>3, <2>4, <2>5, <2>6
<1>14. ASSUME KernelStep PROVE CommandsInv'
  <2>1. /\ engine # "returned" /\ engine' \in {"running", "suspended", "over", "returned"}
        /\ engine = "over" => engine' = "returned"
        /\ UNCHANGED <<life, config, cognition, worker, mail, client, asking, history, strays, updates, kernelTask>>
        BY <1>14 DEF KernelStep, EngineMoves
  <2>2. TypeOK'
        BY <2>1
  <2>3. MailIsOrdered' /\ FirstTries' /\ RequestsCountOnce' /\ UpdatesAdvance' /\ AnswersSettle'
        BY <2>1
  <2>4. TaskIsCarried' /\ FinishAsksNothing'
        BY <2>1
  <2> QED BY <2>2, <2>3, <2>4
<1>15. ASSUME NEW j \in Job, DeadlinePasses(j) PROVE CommandsInv'
      BY <1>15, SMTT(30) DEF DeadlinePasses, Settle
<1>16. ASSUME LeaseElapses PROVE CommandsInv'
      BY <1>16, SMTT(30) DEF LeaseElapses
<1>17. ASSUME GraceElapses PROVE CommandsInv'
      BY <1>17, SMTT(30) DEF GraceElapses
<1> QED BY <1>0, <1>1, <1>2, <1>3, <1>4, <1>5, <1>6, <1>7, <1>8, <1>9, <1>10, <1>11, <1>12, <1>13, <1>14, <1>15, <1>16,
       <1>17 DEF Next, Send, Coordinate, Engine

(* Whatever clients repeat, whatever the disk fails and whenever the worker  *)
(* is killed: the inductive invariant of requests and their worker.          *)
THEOREM CommandsInvariant == Spec => []CommandsInv
<1>1. Init => CommandsInv
      BY InitCommandsInv
<1>2. CommandsInv /\ [Next]_vars => CommandsInv'
      BY NextCommandsInv
<1> QED BY <1>1, <1>2, PTL DEF Spec

(* The types, and a round that never runs past the end of the inbox. *)
THEOREM CommandTypes == Spec => []TypeOK
<1>1. CommandsInv => TypeOK
      BY DEF CommandsInv
<1> QED BY <1>1, CommandsInvariant, PTL

(* An update or an answer is recorded at most once however often its sender  *)
(* repeats it, and no two updates were accepted from the same version.       *)
THEOREM CountedOnce == Spec => []RequestsCountOnce
<1>1. CommandsInv => RequestsCountOnce
      BY DEF CommandsInv
<1> QED BY <1>1, CommandsInvariant, PTL

(* Who is told at the first attempt that the request was rejected can rely   *)
(* on it: neither the journal nor the controller has seen it or will.        *)
THEOREM RejectionsHold == Spec => []RejectedMeansUnchanged
<1>1. CommandsInv => RejectedMeansUnchanged
      BY DEF CommandsInv, FirstTries, Untouched, RejectedMeansUnchanged
<1> QED BY <1>1, CommandsInvariant, PTL

(* The kernel of a living worker works, or will work next, on the task that  *)
(* the journal records.                                                      *)
THEOREM TaskRecorded == Spec => []KernelTaskIsRecorded
<1>1. CommandsInv => KernelTaskIsRecorded
      BY DEF CommandsInv, TaskIsCarried, KernelTaskIsRecorded, Alive
<1> QED BY <1>1, CommandsInvariant, PTL

(* An answer whose sender was told ok is the one result of its job, for good. *)
THEOREM AnswersStand == Spec => []AcceptedAnswersStand
<1>1. CommandsInv => AcceptedAnswersStand
      BY DEF CommandsInv, AnswersSettle, AcceptedAnswersStand
<1> QED BY <1>1, CommandsInvariant, PTL

(* A run that its worker finished has no pending job but those an engine     *)
(* asked that had outlived the grace of a stop.                              *)
THEOREM FinishedRunsQuiet == Spec => []FinishedRunsAskNothing
<1>1. CommandsInv => FinishedRunsAskNothing
      BY DEF CommandsInv, FinishAsksNothing, FinishedRunsAskNothing
<1> QED BY <1>1, CommandsInvariant, PTL
-----------------------------------------------------------------------------
(* A step of Commands, as the book of questions sees it. *)
BookStep == [Book!BookNext]_(Book!questionBook)

(* The entry of a job in the book. *)
Entry(j) == IF Pending(j) THEN "open" ELSE jobs[j]
Entries == [j \in Job |-> Entry(j)]
Phase == CASE worker = "dead" -> "over" [] worker = "finish" -> "closing" [] OTHER -> "open"

(* The open questions are the jobs that nobody has answered, expired or      *)
(* cancelled, their deadline past or not.                                    *)
LEMMA OpenJobs ==
    ASSUME TypeOK
    PROVE  Book!Open = {j \in Job : Pending(j)}
<1>1. \A j \in Job : jobs[j] # "open"
    BY DEF TypeOK, JobStatus
<1> QED BY <1>1 DEF Book!Open

(* What changes no entry, no answer and no end of the run is not seen. *)
LEMMA UnseenJobs ==
    ASSUME \A j \in Job : Entry(j)' = Entry(j), UNCHANGED <<answer, strays, Phase>>,
           status' = "finished" <=> status = "finished"
    PROVE  BookStep
<1>1. Entries' = Entries
    BY DEF Entries
<1>2. UNCHANGED (status = "finished")
    OBVIOUS
<1> QED BY <1>1, <1>2 DEF BookStep, Book!questionBook, Entries, Entry, Phase

(* The jobs that somebody notices to be late, one or several, expire. *)
LEMMA LateJobsExpire ==
    ASSUME TypeOK, status # "finished", status' # "finished", Phase = "open",
           UNCHANGED <<answer, strays, Phase>>, jobs' \in [Job -> JobStatus],
           \A j \in Job : jobs'[j] = jobs[j] \/ (jobs[j] = "late" /\ jobs'[j] = "expired")
    PROVE  BookStep
<1>1. PICK due \in SUBSET Book!Open : due = {j \in Job : jobs[j] = "late" /\ jobs'[j] = "expired"}
  <2>1. {j \in Job : jobs[j] = "late" /\ jobs'[j] = "expired"} \subseteq Book!Open
      BY OpenJobs DEF Pending
  <2> QED BY <2>1
<1>2. Entries' = [j \in Job |-> IF j \in due THEN "expired" ELSE Entries[j]]
  <2>1. ASSUME NEW j \in Job
        PROVE  Entry(j)' = IF j \in due THEN "expired" ELSE Entry(j)
      BY <1>1 DEF Entry, Pending
  <2> QED BY <2>1 DEF Entries
<1>3. Book!Expire(due)
    BY <1>1, <1>2 DEF Book!Expire, Entries, Entry, Phase
<1> QED BY <1>3 DEF BookStep, Book!BookNext

(* A job that is completed was open, and holds the one answer it was given. *)
LEMMA JobsAreAnswered ==
    ASSUME TypeOK, AnswersSettle, status # "finished", status' # "finished",
           Phase = "open", UNCHANGED <<strays, Phase>>,
           NEW c \in Client, Kind[c] = "respond", jobs[Answers[c]] = "pending",
           jobs' = [jobs EXCEPT ![Answers[c]] = "completed"],
           answer' = [answer EXCEPT ![Answers[c]] = @ \union {c}]
    PROVE  BookStep
<1> DEFINE j == Answers[c]
<1>1. j \in Job
    BY CommandAssumption
<1>2. j \in Book!Open
    BY <1>1, OpenJobs DEF Pending
<1>3. Entries' = [Entries EXCEPT ![j] = "completed"]
  <2>1. ASSUME NEW i \in Job
        PROVE  Entry(i)' = IF i = j THEN "completed" ELSE Entry(i)
      BY <1>1 DEF Entry, Pending, TypeOK
  <2> QED BY <2>1 DEF Entries
<1>4. answer' = [answer EXCEPT ![j] = {c}]
  <2>1. answer[j] = {}
      BY <1>1 DEF AnswersSettle
  <2> QED BY <1>1, <2>1 DEF TypeOK
<1>5. Book!Accept(j, c)
    BY <1>1, <1>2, <1>3, <1>4 DEF Book!Accept, Entries, Entry, Phase
<1> QED BY <1>1, <1>5 DEF BookStep, Book!BookNext

(* Between the cancelling of what is open and the end of the run only strays *)
(* are asked, so that the book is closed with no other question open.        *)
LEMMA RunsFinishQuietly ==
    ASSUME CommandsInv, FinishRun
    PROVE  BookStep
<1>1. \A j \in Job : Pending(j) => j \in strays
    BY DEF CommandsInv, FinishAsksNothing, FinishRun
<1>2. Book!Open \subseteq strays
    BY <1>1, OpenJobs DEF CommandsInv
<1>3. worker = "finish" /\ worker' = "dead" /\ status' = "finished" /\ UNCHANGED <<jobs, answer, strays>>
    BY DEF FinishRun, cognition
<1>4. Phase = "closing" /\ Phase' = "over"
    BY <1>3 DEF Phase
<1>5. Book!Finish
    BY <1>2, <1>3, <1>4 DEF Book!Finish, Pending, Phase
<1> QED BY <1>5 DEF BookStep, Book!BookNext

(* A worker that is killed leaves the book as it is. *)
LEMMA KilledRunsKeepTheBook ==
    ASSUME CommandsInv, Kill
    PROVE  BookStep
<1>1. worker # "dead" /\ worker' = "dead" /\ UNCHANGED <<jobs, answer, strays, status>>
    BY DEF Kill, cognition, life
<1>2. Phase # "over" /\ Phase' = "over"
    BY <1>1 DEF Phase
<1>3. Book!Die
    BY <1>1, <1>2 DEF Book!Die, Pending, Phase
<1> QED BY <1>3 DEF BookStep, Book!BookNext

(* A job is new, its key is of no open one, and there is room for it. *)
LEMMA JobsAreAsked ==
    ASSUME CommandsInv, NEW j \in Job, Request(j)
    PROVE  BookStep
<1> USE DEF CommandsInv
<1>1. /\ jobs[j] = "none" /\ jobs' = [jobs EXCEPT ![j] = "pending"] /\ UNCHANGED <<status, answer, worker>>
      /\ worker # "dead" /\ strays' = IF worker = "finish" THEN strays \union {j} ELSE strays
    BY DEF Request, Settle, EngineMoves, Alive, NoteStray, life
<1>2. /\ \A other \in Book!Open : Dedupe[other] # Dedupe[j]
      /\ Cardinality(Book!Open) < MaxPending
    BY OpenJobs DEF Request
<1>3. Entries' = [Entries EXCEPT ![j] = "open"]
  <2>1. ASSUME NEW i \in Job
        PROVE  Entry(i)' = IF i = j THEN "open" ELSE Entry(i)
      BY <1>1 DEF Entry, Pending, TypeOK
  <2> QED BY <2>1 DEF Entries
<1>4. Entries[j] = "none"
    BY <1>1 DEF Entries, Entry, Pending
<1>5. Book!Cardinality(Book!Open) < MaxPending
    BY <1>2 DEF Cardinality, IsFiniteSet, Book!Cardinality, Book!IsFiniteSet
<1>6. Phase # "over" /\ UNCHANGED Phase /\ (Phase = "closing" <=> worker = "finish")
    BY <1>1 DEF Phase
<1>7. Book!Ask(j)
    BY <1>1, <1>2, <1>3, <1>4, <1>5, <1>6 DEF Book!Ask, Entries, Entry, Phase
<1> QED BY <1>7 DEF BookStep, Book!BookNext

(* All that is pending is cancelled when the engine has answered or given up. *)
LEMMA PendingJobsAreCancelled ==
    ASSUME CommandsInv, TakeResult
    PROVE  BookStep
<1> USE DEF CommandsInv
<1>1. UNCHANGED <<status, answer, strays>> /\ status # "finished" /\ worker = "result"
    BY DEF TakeResult, FinishAsksNothing, life
<1>2. CASE UNCHANGED jobs /\ worker' = "commands"
  <2>1. UNCHANGED Phase
      BY <1>1, <1>2 DEF Phase
  <2> QED BY <1>1, <1>2, <2>1, UnseenJobs DEF Entry, Pending
<1>3. CASE /\ jobs' = [j \in Job |-> IF Pending(j) THEN "cancelled" ELSE jobs[j]]
           /\ worker' = "finish"
  <2>1. ASSUME NEW j \in Job
        PROVE  Entry(j)' = IF j \in Book!Open THEN "cancelled" ELSE Entry(j)
      BY <1>3, OpenJobs DEF Entry, Pending
  <2>2. Entries' = [j \in Job |-> IF j \in Book!Open THEN "cancelled" ELSE Entries[j]]
      BY <2>1 DEF Entries
  <2>3. Phase = "open" /\ Phase' = "closing"
      BY <1>1, <1>3 DEF Phase
  <2>4. Book!Cancel
      BY <1>1, <2>2, <2>3 DEF Book!Cancel, Entries, Entry, Phase
  <2> QED BY <2>4 DEF BookStep, Book!BookNext
<1> QED BY <1>2, <1>3 DEF TakeResult, BeginRound

(* Of the commands only an answer touches the book: it is accepted, or it    *)
(* finds its question late, or nothing happens.                              *)
LEMMA CommandsKeepTheBook ==
    ASSUME CommandsInv, ProcessCommand
    PROVE  BookStep
<1> USE DEF CommandsInv
<1> DEFINE command == Head(inbox)
<1>1. worker = "commands" /\ status # "finished" /\ UNCHANGED <<worker, strays>>
    BY DEF ProcessCommand, FinishAsksNothing
<1>a. Phase = "open" /\ UNCHANGED Phase
    BY <1>1 DEF Phase
<1>2. Update(command) \/ Complete(command) \/ Stop(command) \/ Heartbeat(command)
    BY DEF ProcessCommand
<1>3. command.from \in Client
  <2>1. inbox \in Seq(Command) /\ listed > 0 /\ listed \in 0..Len(inbox)
      BY DEF TypeOK, ProcessCommand
  <2>2. 1 \in 1..Len(inbox) /\ command = inbox[1]
      BY <2>1
  <2> QED BY <2>2, MailTypes
<1> HIDE DEF command
<1>4. CASE Update(command) \/ Heartbeat(command)
  <2>1. UNCHANGED <<status, jobs, answer>>
      BY <1>4 DEF Update, Heartbeat, life, cognition
  <2> QED BY <1>1, <1>a, <2>1, UnseenJobs DEF Entry, Pending
<1>5. CASE Stop(command)
  <2>1. UNCHANGED <<jobs, answer>> /\ status' # "finished"
      BY <1>1, <1>5 DEF Stop, AskToStop, cognition
  <2> QED BY <1>1, <1>a, <2>1, UnseenJobs DEF Entry, Pending
<1>6. CASE Complete(command)
  <2> DEFINE c == command.from  j == Answers[c]
  <2>1. Kind[c] = "respond" /\ j \in Job /\ UNCHANGED status
      BY <1>3, <1>6, CommandAssumption DEF Complete, life
  <2>2. CASE UNCHANGED cognition
      BY <1>1, <1>a, <2>1, <2>2, UnseenJobs DEF Entry, Pending, cognition
  <2>3. CASE jobs[j] = "late" /\ Settle(j, "expired") /\ UNCHANGED answer
    <3>1. /\ jobs' \in [Job -> JobStatus]
          /\ \A i \in Job : jobs'[i] = jobs[i] \/ (jobs[i] = "late" /\ jobs'[i] = "expired")
        BY <2>1, <2>3 DEF Settle, TypeOK, JobStatus
    <3> QED BY <1>1, <1>a, <2>1, <2>3, <3>1, LateJobsExpire
  <2>4. CASE jobs[j] = "pending" /\ Settle(j, "completed") /\ answer' = [answer EXCEPT ![j] = @ \union {c}]
      BY <1>1, <1>a, <1>3, <2>1, <2>4, JobsAreAnswered DEF Settle
  <2> QED BY <1>6, <2>2, <2>3, <2>4 DEF Complete
<1> QED BY <1>2, <1>4, <1>5, <1>6

(* The run implements the book of questions: each is asked once and decided  *)
(* once, by one answer in time, by its deadline or by the end of the engine, *)
(* however commands, repeats, clocks and kills interleave; what an engine    *)
(* asks after the end is a stray that nobody decides.                        *)
THEOREM JobsKeepTheBook == Spec => BookSpec
<1>1. Init => Book!BookInit
  <2> SUFFICES ASSUME Init PROVE Book!BookInit
      OBVIOUS
  <2>1. Entries = [j \in Job |-> "none"]
      BY DEF Init, Entries, Entry, Pending
  <2> QED BY <2>1 DEF Init, Book!BookInit, Entries, Entry, Phase
<1>2. CommandsInv /\ [Next]_vars => [Book!BookNext]_(Book!questionBook)
  <2> SUFFICES ASSUME CommandsInv, [Next]_vars PROVE BookStep
      BY DEF BookStep
  <2> USE DEF life, config, cognition, controller
  <2>1. CASE UNCHANGED vars
      BY <2>1, UnseenJobs DEF vars, Entry, Pending, Phase
  <2>2. ASSUME NEW c \in Client, CheckStatus(c) PROVE BookStep
    <3>1. UNCHANGED <<jobs, answer, strays, worker>> /\ (status' = status \/ (status \notin Over /\ status' = "failed"))
        BY <2>2 DEF CheckStatus, Reply
    <3>2. status' = "finished" <=> status = "finished"
        BY <3>1 DEF Over
    <3> QED BY <3>1, <3>2, UnseenJobs DEF Entry, Pending, Phase
  <2>3. ASSUME NEW c \in Client, WriteCommand(c) \/ ReadAck(c) \/ AckTimesOut(c) \/ Repeat(c) PROVE BookStep
    <3>1. UNCHANGED <<status, jobs, answer, strays, worker>>
        BY <2>3 DEF WriteCommand, ReadAck, AckTimesOut, Repeat
    <3> QED BY <3>1, UnseenJobs DEF Entry, Pending, Phase
  <2>4. CASE StartWorker
    <3>1. /\ UNCHANGED <<jobs, answer, strays>> /\ status # "finished" /\ status' # "finished"
          /\ worker = "boot" /\ worker' = "commands"
        BY <2>4 DEF StartWorker, BeginRound
    <3> QED BY <3>1, UnseenJobs DEF Entry, Pending, Phase
  <2>5. CASE ProcessCommand
      BY <2>5, CommandsKeepTheBook
  <2>6. CASE CheckDeadlines
    <3>1. /\ UNCHANGED <<answer, strays>> /\ status # "finished" /\ status' # "finished"
          /\ worker = "commands" /\ worker' = "result"
        BY <2>6 DEF CheckDeadlines, AskToStop, CommandsInv, FinishAsksNothing
    <3>2. /\ jobs' \in [Job -> JobStatus]
          /\ \A j \in Job : jobs'[j] = jobs[j] \/ (jobs[j] = "late" /\ jobs'[j] = "expired")
        BY <2>6 DEF CheckDeadlines, ExpireDue, CommandsInv, TypeOK, JobStatus
    <3> QED BY <3>1, <3>2, LateJobsExpire DEF CommandsInv, Phase
  <2>7. CASE TakeResult
      BY <2>7, PendingJobsAreCancelled
  <2>8. CASE FinishRun
      BY <2>8, RunsFinishQuietly
  <2>12. CASE Kill
      BY <2>12, KilledRunsKeepTheBook
  <2>9. CASE DrainUpdates \/ KernelStep \/ LeaseElapses \/ GraceElapses
    <3>1. UNCHANGED <<status, jobs, answer, strays, worker>>
        BY <2>9 DEF DrainUpdates, KernelStep, LeaseElapses, GraceElapses
    <3> QED BY <3>1, UnseenJobs DEF Entry, Pending, Phase
  <2>10. ASSUME NEW j \in Job, Request(j) PROVE BookStep
      BY <2>10, JobsAreAsked
  <2>11. ASSUME NEW j \in Job, DeadlinePasses(j) PROVE BookStep
    <3>1. UNCHANGED <<status, answer, strays, worker>> /\ jobs[j] = "pending" /\ jobs' = [jobs EXCEPT ![j] = "late"]
        BY <2>11 DEF DeadlinePasses, Settle
    <3>2. ASSUME NEW i \in Job PROVE Entry(i)' = Entry(i)
        BY <3>1 DEF Entry, Pending, CommandsInv, TypeOK
    <3> QED BY <3>1, <3>2, UnseenJobs DEF Phase
  <2> QED
      BY <2>1, <2>2, <2>3, <2>4, <2>5, <2>6, <2>7, <2>8, <2>9, <2>10, <2>11, <2>12 DEF Next, Send, Coordinate, Engine
<1> QED
    BY <1>1, <1>2, CommandsInvariant, PTL DEF Spec, BookSpec, Book!BookSpec
=============================================================================
