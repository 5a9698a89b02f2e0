----------------------------- MODULE MCDueQueue -----------------------------
(* Three pairs: a slow one that follows the feed (and is fast once there   *)
(* is a session), a fast one without a sweep schedule and a slow one.      *)
EXTENDS DueQueue, TLC

MCScanInterval == (0 :> 3) @@ (1 :> 1) @@ (2 :> 4)
=============================================================================
