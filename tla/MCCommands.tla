---------------------------- MODULE MCCommands ----------------------------
(***************************************************************************)
(* Two small instances of Commands for TLC.  Updates: two updates, of      *)
(* which one may be repeated, and a stop.  Cognition: two answers to one   *)
(* of two jobs with the same dedupe_key, and a heartbeat.                  *)
(***************************************************************************)
EXTENDS Commands, TLC

CONSTANTS u, v, r, q, s, h, j1, j2

Kinds == u :> "update" @@ v :> "update" @@ r :> "respond" @@ q :> "respond" @@
         s :> "stop" @@ h :> "heartbeat"

Updates == {u, v, s}
UpdateKind == [c \in Updates |-> Kinds[c]]
NoJobs == {}
NoAnswer == [c \in Updates |-> j1]
NoKey == [j \in NoJobs |-> "plan"]
UpdateSends == [c \in Updates |-> IF c = u THEN 2 ELSE 1]

Cognition == {r, q, h}
CognitionKind == [c \in Cognition |-> Kinds[c]]
Jobs == {j1, j2}
SameKey == [j \in Jobs |-> "plan"]
FirstJob == [c \in Cognition |-> j1]
CognitionSends == [c \in Cognition |-> 1]
===========================================================================
