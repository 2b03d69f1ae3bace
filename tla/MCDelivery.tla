---------------------------- MODULE MCDelivery ----------------------------
(***************************************************************************)
(* Small instances of Delivery for TLC: two sessions with a branch each;   *)
(* the agent's run is detached, the self-test's is not, and each asks one  *)
(* question.                                                               *)
(***************************************************************************)
EXTENDS Delivery, TLC

CONSTANTS main, other, ours, theirs, agent, probe, q1, q2

Branches == {main, other}
SessionsOf == main :> ours @@ other :> theirs
Runs == {agent, probe}
Owners == agent :> ours @@ probe :> ours
Jobs == {q1, q2}
Asks == q1 :> agent @@ q2 :> probe
===========================================================================
