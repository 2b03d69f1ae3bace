---------------------------- MODULE MCStartRun ----------------------------
(***************************************************************************)
(* Small instances of StartRun for TLC: two calls under one idempotency    *)
(* key and one under another, all after the same resource.                 *)
(***************************************************************************)
EXTENDS StartRun, TLC

CONSTANTS a, b, c, k1, k2, browser, camera

Calls == {a, b, c}
Keys == {k1, k2}
TwoResources == {browser, camera}
MortalCalls == {a, c}
CallKey == a :> k1 @@ b :> k1 @@ c :> k2
CallClaims == a :> {browser, camera} @@ b :> {browser, camera} @@ c :> {browser}
===========================================================================
