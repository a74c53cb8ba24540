---------------------------- MODULE MCRunStream ----------------------------
(* Instances of RunStream for TLC: what may happen in a behaviour, and how often. *)
EXTENDS RunStream, TLC

Allow(data, fail, restart, drop, delete) ==
  [data |-> data, fail |-> fail, restart |-> restart, drop |-> drop, delete |-> delete]

Pair      == Allow(0, 0, 0, 1, 0)   \* two clients, a broken connection
Restarts  == Allow(2, 0, 2, 1, 0)   \* process deaths and a broken connection
Everything == Allow(1, 2, 1, 1, 1)  \* a bit of each
=============================================================================
