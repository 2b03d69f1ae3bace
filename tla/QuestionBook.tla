---------------------------- MODULE QuestionBook ----------------------------
(***************************************************************************)
(* What a run's cognition promises its controller and its clients          *)
(* (docs/pi-integration.md and the checks of CognitionBroker in            *)
(* src/jev_loop/host/runtime.py), whatever clients repeat and workers die: *)
(* a question is asked once, and what becomes of it is decided once, by    *)
(* one answer of one of those it was put to, by its deadline, or by the    *)
(* end of the engine.  At most MaxPending are open at a time, no two with  *)
(* the same key.  When the book is closed all that is open is cancelled;   *)
(* what is asked after that is a stray: nobody decides it any more, and it *)
(* is all that a finished run may leave open.                              *)
(***************************************************************************)
EXTENDS Naturals, FiniteSets

CONSTANTS Question, Respondent, KeyOf, MayAnswer, MaxPending

VARIABLES
    book,      \* "none", "open", "completed", "expired" or "cancelled"
    answer,    \* whose answer a completed question holds
    strays,    \* the questions asked too late
    phase,     \* "open", "closing", then "over"
    finished   \* the run was finished by its worker

questionBook == <<book, answer, strays, phase, finished>>

BookInit ==
    /\ book = [q \in Question |-> "none"] /\ answer = [q \in Question |-> {}]
    /\ strays = {} /\ phase = "open" /\ finished = FALSE

Open == {q \in Question : book[q] = "open"}

Ask(q) ==
    /\ phase # "over" /\ book[q] = "none"
    /\ \A other \in Open : KeyOf[other] # KeyOf[q]
    /\ Cardinality(Open) < MaxPending
    /\ book' = [book EXCEPT ![q] = "open"]
    /\ strays' = IF phase = "closing" THEN strays \union {q} ELSE strays
    /\ UNCHANGED <<answer, phase, finished>>

Accept(q, who) ==
    /\ phase = "open" /\ q \in Open /\ who \in MayAnswer[q]
    /\ book' = [book EXCEPT ![q] = "completed"]
    /\ answer' = [answer EXCEPT ![q] = {who}]
    /\ UNCHANGED <<strays, phase, finished>>

Expire(due) ==
    /\ phase = "open" /\ due \subseteq Open
    /\ book' = [q \in Question |-> IF q \in due THEN "expired" ELSE book[q]]
    /\ UNCHANGED <<answer, strays, phase, finished>>

(* All that are open, at once. *)
Cancel ==
    /\ phase = "open" /\ phase' = "closing"
    /\ book' = [q \in Question |-> IF q \in Open THEN "cancelled" ELSE book[q]]
    /\ UNCHANGED <<answer, strays, finished>>

Finish ==
    /\ phase = "closing" /\ Open \subseteq strays
    /\ phase' = "over" /\ finished' = TRUE
    /\ UNCHANGED <<book, answer, strays>>

(* The worker is killed: what is open stays so. *)
Die ==
    /\ phase # "over" /\ phase' = "over"
    /\ UNCHANGED <<book, answer, strays, finished>>

BookNext ==
    \/ \E q \in Question : Ask(q) \/ \E who \in Respondent : Accept(q, who)
    \/ \E due \in SUBSET Open : Expire(due)
    \/ Cancel \/ Finish \/ Die

BookSpec == BookInit /\ [][BookNext]_questionBook
=============================================================================
