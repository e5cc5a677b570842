------------------------------ MODULE LifecycleMC ------------------------------
(* Lifecycle on a small instance: two daemons, one of them slow, a start by     *)
(* hand in a network namespace, a command in need of a daemon, and a stop from  *)
(* the host or from a sandbox.                                                  *)
EXTENDS Lifecycle, TLC

CONSTANTS d1, d2, start, auto, stop

MCWhere == (start :> {"netns"}) @@ (auto :> {"host"}) @@ (stop :> {"host", "sandbox"})
===============================================================================
