------------------------------ MODULE EventLog ------------------------------
(***************************************************************************)
(* What the journal of a run promises its readers, whoever writes it       *)
(* (src/jev_loop/host/store.py: "events.jsonl is authoritative", and       *)
(* status.json is its projection): a log of events numbered 1, 2, ... that *)
(* grows by one event at a time, and a page that shows how far the log     *)
(* had got.  Only one writer is between the log and the page, and it shows *)
(* all of the log, its own event being the last, unless it dies or fails   *)
(* first: the page then waits for the next event.                          *)
(***************************************************************************)
EXTENDS Naturals, Sequences

CONSTANT Writer

VARIABLES
    log,       \* the numbers of the events
    shown,     \* the last event that the page reflects
    showing    \* the writers that have an event in the log and not on the page yet

eventLog == <<log, shown, showing>>

(* The run was created: its first event is on the page. *)
LogInit == log = <<1>> /\ shown = 1 /\ showing = {}

Record(w) ==
    /\ showing = {}
    /\ log' = Append(log, Len(log) + 1) /\ showing' = {w}
    /\ UNCHANGED shown

Show(w) ==
    /\ showing = {w}
    /\ shown' = Len(log) /\ showing' = {}
    /\ UNCHANGED log

Vanish(w) ==
    /\ showing = {w} /\ showing' = {}
    /\ UNCHANGED <<log, shown>>

(* It may fail as soon as its event is in the log. *)
Omit(w) ==
    /\ showing = {}
    /\ log' = Append(log, Len(log) + 1)
    /\ UNCHANGED <<shown, showing>>

LogNext == \E w \in Writer : Record(w) \/ Show(w) \/ Vanish(w) \/ Omit(w)

LogSpec == LogInit /\ [][LogNext]_eventLog
=============================================================================
