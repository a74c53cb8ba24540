------------------------------- MODULE RunFeed -------------------------------
(***************************************************************************)
(* What the event stream of one run promises, with no threads, queues,     *)
(* sockets or crashes in it: the run publishes events one after the other  *)
(* and every client is handed the same events, in order, each of them      *)
(* once.  RunStream implements it.                                         *)
(***************************************************************************)
EXTENDS Naturals, Sequences

CONSTANTS
  Clients,    (* the programs that follow the run                          *)
  Followers   (* those of them that come back after losing the connection  *)

VARIABLES
  log,   (* the kinds of the run's events, in the order they were published *)
  seen   (* seen[c]: how many of them client c has been handed              *)

vars == <<log, seen>>

Kinds == {"start", "data", "end", "error"}

Init ==
  /\ log = <<>>
  /\ seen = [c \in Clients |-> 0]

Publish ==
  /\ \E k \in Kinds : log' = Append(log, k)
  /\ UNCHANGED seen

Deliver(c) ==
  /\ seen[c] < Len(log)
  /\ seen' = [seen EXCEPT ![c] = @ + 1]
  /\ UNCHANGED log

Next == Publish \/ \E c \in Clients : Deliver(c)

(* The safety half of the promise. *)
Safe == Init /\ [][Next]_vars

(* A follower is handed the next event as long as there is one. *)
Spec == Safe /\ \A c \in Followers : WF_vars(Deliver(c))
==============================================================================
