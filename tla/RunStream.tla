------------------------------ MODULE RunStream ------------------------------
(***************************************************************************)
(* One run of the engine server, from the worker thread that emits its     *)
(* events to the clients that read them as server-sent events              *)
(* (service/app.py RunManager, service/events.py Tracer, service/store.py; *)
(* clients: service/client.py and site/src/studio/api.ts).                 *)
(*                                                                         *)
(* Three kinds of actors interleave: the pool thread that executes job(),  *)
(* the asyncio loop that runs stream() for each connection and the         *)
(* callbacks call_soon_threadsafe left for it, and the clients.  The code  *)
(* between two accesses to shared state is one step.                       *)
(*                                                                         *)
(* An event is represented by its position among the run's stored events:  *)
(* a single thread emits, so positions and the code's `seq` numbers are in *)
(* the same order.  Position 0 stands for "none yet" (the code's -1).      *)
(***************************************************************************)
EXTENDS Integers, Sequences

CONSTANTS
  Browsers,   (* EventSource clients: reconnect, resume from Last-Event-ID  *)
  Scripts,    (* service/client.py stream(): one request, no reconnect      *)
  Budget      (* Budget[b]: how often b may happen in a behaviour           *)

Bounded == {"data",      (* events the run's work emits                     *)
            "fail",      (* store statements that raise                     *)
            "restart",   (* server processes that die and are started again *)
            "drop",      (* connections that break                          *)
            "delete"}    (* DELETE /v1/runs/{run_id} requests               *)

ASSUME ClientAssumption == Browsers \cap Scripts = {}
ASSUME BudgetAssumption == Budget \in [Bounded -> Nat]

Clients == Browsers \cup Scripts

VARIABLES
  (* the SQLite file *)
  log,      (* history: the kinds of the events stored, in order           *)
  rows,     (* the events now in table events                              *)
  status,   (* the run's row in table runs                                 *)
  deleting, (* delete_run is between its two statements                    *)
  (* the worker thread in job() *)
  phase,    (* where job() is                                              *)
  step,     (* where emit() and sink() are                                 *)
  todo,     (* queues of the snapshot sink() has yet to notify             *)
  (* _Live, in the memory of the server *)
  known,    (* RunManager.live has the run                                 *)
  live,     (* the events 1..live are in state.events                      *)
  done,     (* state.done                                                  *)
  subs,     (* connections with a queue in state.queues                    *)
  (* the event loop *)
  pend,     (* pend[c]: put_nowait callbacks not yet run, for c's queue    *)
  queue,    (* queue[c]: c's asyncio.Queue                                 *)
  pc,       (* pc[c]: where c's stream() is                                *)
  batch,    (* batch[c]: replayed events not yet yielded                   *)
  last,     (* last[c]: stream()'s local `last`                            *)
  wire,     (* wire[c]: yielded, not yet read by the client                *)
  (* the clients *)
  client,   (* client[c]: what c's caller knows                            *)
  seen,     (* seen[c]: the events c handed to its caller                  *)
  (* the bounds *)
  budget    (* what is left of Budget                                      *)

storeVars  == <<log, rows, status, deleting>>
workerVars == <<phase, step, todo>>
loopVars   == <<subs, pend, queue, pc, batch, last, wire>>
clientVars == <<client, seen>>
vars == <<storeVars, workerVars, known, live, done, loopVars, clientVars, budget>>

------------------------------------------------------------------------------
Spend(b) == budget[b] > 0 /\ budget' = [budget EXCEPT ![b] = @ - 1]

(* run/end and run/error close a run. *)
Terminal(e) == log[e] \in {"end", "error"}

(* The operators named Mutant... are not part of the model: each is what    *)
(* the definition below it would be with a bug in it that a property of     *)
(* this module finds.                                                       *)

(* The phases of job() that emit: the event, and where job() goes on after *)
(* it was emitted or after its store statement raised.                     *)
Emits == [start |-> "start", work |-> "data", end |-> "end", error |-> "error"]

AfterEvent       == [start |-> "work", work |-> "work", end |-> "finish", error |-> "abort"]

MutantAfterFailure == [start |-> "dead", work |-> "work", end |-> "finish", error |-> "last"]
AfterFailure       == [start |-> "dead", work |-> "work", end |-> "error", error |-> "last"]

(* The status finish_run writes in the phases that call it. *)
Outcome       == [finish |-> "done", abort |-> "error"]

(* store.events(run_id, after) *)
MutantStored(c) == {e \in rows : known /\ e > last[c]}
Stored(c)       == {e \in rows : e > last[c]}

(* What a put_nowait callback scheduled for c makes of pend[c]. *)
Scheduled(c)       == Append(pend[c], live)

(* The event of c's replay that is sent next. *)
NextOf(c, e) == e \in batch[c] /\ \A f \in batch[c] : e <= f

(* An event taken from c's queue was not replayed before. *)
MutantFresh(c, e) == e >= last[c]
Fresh(c, e)       == e > last[c]

(* Where the end of a response without a terminal event leaves its client. *)
MutantAtResponseEnd(c) == "returned"
AtResponseEnd(c)       == IF c \in Browsers THEN "idle" ELSE "returned"

MutantLastSeen(c) == IF seen[c] = <<>> THEN 0 ELSE seen[c][1]
LastSeen(c)       == IF seen[c] = <<>> THEN 0 ELSE seen[c][Len(seen[c])]

Init ==
  /\ log = <<>> /\ rows = {} /\ status = "running" /\ deleting = FALSE
  /\ phase = "queued" /\ step = "store" /\ todo = {}
  /\ known = TRUE /\ live = 0 /\ done = FALSE /\ subs = {}
  /\ pend = [c \in Clients |-> <<>>]
  /\ queue = [c \in Clients |-> <<>>]
  /\ pc = [c \in Clients |-> "off"]
  /\ batch = [c \in Clients |-> {}]
  /\ last = [c \in Clients |-> 0]
  /\ wire = [c \in Clients |-> <<>>]
  /\ client = [c \in Clients |-> "idle"]
  /\ seen = [c \in Clients |-> <<>>]
  /\ budget = Budget

------------------------------------------------------------------------------
(* The worker: job(), Tracer.emit() and sink().                            *)

(* A pool thread picks the job up. *)
StartJob ==
  /\ phase = "queued"
  /\ phase' = "start"
  /\ UNCHANGED <<storeVars, step, todo, known, live, done, loopVars, clientVars, budget>>

(* emit() numbers the event and sink() stores it (one SQLite transaction). *)
StoreEvent ==
  /\ phase \in DOMAIN Emits /\ step = "store"
  /\ IF phase = "work" THEN Spend("data") ELSE UNCHANGED budget
  /\ log' = Append(log, Emits[phase])
  /\ rows' = rows \cup {Len(log) + 1}
  /\ step' = "append"
  /\ UNCHANGED <<status, deleting, phase, todo, known, live, done, loopVars, clientVars>>

(* add_event raises.  In the work the exception is the work's to handle or *)
(* to let out; the run/start event is emitted outside job()'s try, and a   *)
(* failing run/error leaves job() through its finally.                     *)
StoreEventFails ==
  /\ phase \in DOMAIN Emits /\ step = "store"
  /\ Spend("fail")
  /\ phase' = AfterFailure[phase]
  /\ UNCHANGED <<storeVars, step, todo, known, live, done, loopVars, clientVars>>

AppendEvent ==
  /\ step = "append"
  /\ live' = live + 1
  /\ step' = "snapshot"
  /\ UNCHANGED <<storeVars, phase, todo, known, done, loopVars, clientVars, budget>>

(* list(state.queues) *)
SnapshotQueues ==
  /\ step = "snapshot"
  /\ todo' = subs
  /\ step' = "notify"
  /\ UNCHANGED <<storeVars, phase, known, live, done, loopVars, clientVars, budget>>

(* call_soon_threadsafe(q.put_nowait, d) *)
Notify(c) ==
  /\ step = "notify" /\ c \in todo
  /\ pend' = [pend EXCEPT ![c] = Scheduled(c)]
  /\ todo' = todo \ {c}
  /\ UNCHANGED <<storeVars, phase, step, known, live, done, subs, queue, pc, batch, last,
                 wire, clientVars, budget>>

(* emit() returns to job(). *)
Emitted ==
  /\ phase \in DOMAIN Emits /\ step = "notify" /\ todo = {}
  /\ step' = "store"
  /\ phase' = AfterEvent[phase]
  /\ UNCHANGED <<storeVars, todo, known, live, done, loopVars, clientVars, budget>>

(* work(tracer) returns a summary or raises. *)
WorkEnds ==
  /\ phase = "work" /\ step = "store"
  /\ phase' \in {"end", "error"}
  /\ UNCHANGED <<storeVars, step, todo, known, live, done, loopVars, clientVars, budget>>

(* finish_run, "done" after run/end and "error" after run/error; its       *)
(* UPDATE matches nothing when the run's row is gone.                      *)
FinishRun ==
  /\ phase \in {"finish", "abort"}
  /\ status' = IF status = "deleted" THEN status ELSE Outcome[phase]
  /\ phase' = "last"
  /\ UNCHANGED <<log, rows, deleting, step, todo, known, live, done, loopVars, clientVars, budget>>

(* finish_run raises: inside the try the job goes on to its except clause. *)
FinishRunFails ==
  /\ phase \in {"finish", "abort"}
  /\ Spend("fail")
  /\ phase' = IF phase = "finish" THEN "error" ELSE "last"
  /\ UNCHANGED <<storeVars, step, todo, known, live, done, loopVars, clientVars>>

SetDone ==
  /\ phase = "last"
  /\ done' = TRUE
  /\ phase' = "stopped"
  /\ UNCHANGED <<storeVars, step, todo, known, live, loopVars, clientVars, budget>>

------------------------------------------------------------------------------
(* The event loop: put_nowait callbacks and stream(), for each connection. *)

(* c's queue is no longer in state.queues (stream()'s finally); what the   *)
(* worker or the loop still puts into it goes to an object nobody reads.   *)
Unsubscribe(c) ==
  /\ subs' = subs \ {c}
  /\ todo' = todo \ {c}
  /\ pend' = [pend EXCEPT ![c] = <<>>]
  /\ queue' = [queue EXCEPT ![c] = <<>>]

RunCallback(c) ==
  /\ pend[c] # <<>>
  /\ queue' = [queue EXCEPT ![c] = Append(@, Head(pend[c]))]
  /\ pend' = [pend EXCEPT ![c] = Tail(@)]
  /\ UNCHANGED <<storeVars, workerVars, known, live, done, subs, pc, batch, last, wire,
                 clientVars, budget>>

(* A run that is over, or that this process never ran, comes from the      *)
(* store; otherwise the connection gets a queue.                           *)
Begin(c) ==
  /\ pc[c] = "begin"
  /\ \/ /\ ~known \/ done
        /\ pc' = [pc EXCEPT ![c] = "drain"]
        /\ batch' = [batch EXCEPT ![c] = Stored(c)]
        /\ UNCHANGED subs
     \/ /\ known /\ ~done
        /\ pc' = [pc EXCEPT ![c] = "subscribed"]
        /\ subs' = subs \cup {c}
        /\ UNCHANGED batch
  /\ UNCHANGED <<storeVars, workerVars, known, live, done, pend, queue, last, wire,
                 clientVars, budget>>

(* list(state.events) *)
SnapshotEvents(c) ==
  /\ pc[c] = "subscribed"
  /\ batch' = [batch EXCEPT ![c] = {e \in 1..live : e > last[c]}]
  /\ pc' = [pc EXCEPT ![c] = "replay"]
  /\ UNCHANGED <<storeVars, workerVars, known, live, done, subs, pend, queue, last, wire,
                 clientVars, budget>>

(* yield, and `last` moves on. *)
Yield(c, e) ==
  /\ wire' = [wire EXCEPT ![c] = Append(@, e)]
  /\ last' = [last EXCEPT ![c] = e]

Replay(c) ==
  /\ pc[c] \in {"drain", "replay"}
  /\ \E e \in batch[c] :
       NextOf(c, e) /\ Yield(c, e) /\ batch' = [batch EXCEPT ![c] = @ \ {e}]
  /\ UNCHANGED <<storeVars, workerVars, known, live, done, subs, pend, queue, pc,
                 clientVars, budget>>

Replayed(c) ==
  /\ pc[c] \in {"drain", "replay"} /\ batch[c] = {}
  /\ pc' = [pc EXCEPT ![c] = IF pc[c] = "drain" THEN "ended" ELSE "check"]
  /\ UNCHANGED <<storeVars, workerVars, known, live, done, subs, pend, queue, batch, last,
                 wire, clientVars, budget>>

(* `if state.done and q.empty(): break` *)
Check(c) ==
  /\ pc[c] = "check"
  /\ \/ /\ done /\ queue[c] = <<>>
        /\ pc' = [pc EXCEPT ![c] = "ended"]
        /\ Unsubscribe(c)
     \/ /\ ~(done /\ queue[c] = <<>>)
        /\ pc' = [pc EXCEPT ![c] = "wait"]
        /\ UNCHANGED <<subs, todo, pend, queue>>
  /\ UNCHANGED <<storeVars, phase, step, known, live, done, batch, last, wire, clientVars, budget>>

(* q.get() returns: an event already replayed is skipped, the run's        *)
(* terminal event ends the response.                                       *)
Take(c) ==
  /\ pc[c] = "wait" /\ queue[c] # <<>>
  /\ LET e == Head(queue[c]) IN
       /\ IF Fresh(c, e) THEN Yield(c, e) ELSE UNCHANGED <<wire, last>>
       /\ \/ /\ Terminal(e)
             /\ pc' = [pc EXCEPT ![c] = "ended"]
             /\ Unsubscribe(c)
          \/ /\ ~Terminal(e)
             /\ pc' = [pc EXCEPT ![c] = "check"]
             /\ queue' = [queue EXCEPT ![c] = Tail(@)]
             /\ UNCHANGED <<subs, todo, pend>>
  /\ UNCHANGED <<storeVars, phase, step, known, live, done, batch, clientVars, budget>>

(* wait_for times out: a keepalive comment goes out. *)
Keepalive(c) ==
  /\ pc[c] = "wait" /\ queue[c] = <<>>
  /\ pc' = [pc EXCEPT ![c] = "check"]
  /\ UNCHANGED <<storeVars, workerVars, known, live, done, subs, pend, queue, batch, last,
                 wire, clientVars, budget>>

------------------------------------------------------------------------------
(* The clients and their connections.                                      *)

(* The connection is closed: Starlette closes the generator. *)
Close(c) ==
  /\ Unsubscribe(c)
  /\ pc' = [pc EXCEPT ![c] = "off"]
  /\ batch' = [batch EXCEPT ![c] = {}]
  /\ wire' = [wire EXCEPT ![c] = <<>>]

(* GET /v1/runs/{run_id}/events: 404 without the run's row, and a client   *)
(* that gets it gives up.  A browser sends the id of the last event it     *)
(* received; a script asks for everything, once.                           *)
Connect(c) ==
  /\ client[c] = "idle"
  /\ IF status = "deleted"
     THEN /\ client' = [client EXCEPT ![c] = "refused"]
          /\ UNCHANGED <<pc, last>>
     ELSE /\ client' = [client EXCEPT ![c] = "connected"]
          /\ pc' = [pc EXCEPT ![c] = "begin"]
          /\ last' = [last EXCEPT ![c] = LastSeen(c)]
  /\ UNCHANGED <<storeVars, workerVars, known, live, done, subs, pend, queue, batch, wire,
                 seen, budget>>

(* An event arrives: a browser skips what it has, both stop at the end.    *)
Receive(c) ==
  /\ wire[c] # <<>>
  /\ LET e == Head(wire[c]) IN
       /\ seen' = IF c \in Browsers /\ e <= LastSeen(c) THEN seen
                  ELSE [seen EXCEPT ![c] = Append(@, e)]
       /\ \/ /\ Terminal(e)
             /\ client' = [client EXCEPT ![c] = "complete"]
             /\ Close(c)
          \/ /\ ~Terminal(e)
             /\ wire' = [wire EXCEPT ![c] = Tail(@)]
             /\ UNCHANGED <<client, subs, todo, pend, queue, pc, batch>>
  /\ UNCHANGED <<storeVars, phase, step, known, live, done, last, budget>>

(* The response ended without a terminal event: a browser reconnects, a    *)
(* script's iterator simply finishes.                                      *)
ResponseEnds(c) ==
  /\ pc[c] = "ended" /\ wire[c] = <<>>
  /\ client' = [client EXCEPT ![c] = AtResponseEnd(c)]
  /\ pc' = [pc EXCEPT ![c] = "off"]
  /\ UNCHANGED <<storeVars, workerVars, known, live, done, subs, pend, queue, batch, last,
                 wire, seen, budget>>

(* The connection breaks; what is on the wire is lost. *)
Disconnected(c) == IF c \in Browsers THEN "idle" ELSE "failed"

Drop(c) ==
  /\ client[c] = "connected"
  /\ Spend("drop")
  /\ client' = [client EXCEPT ![c] = Disconnected(c)]
  /\ Close(c)
  /\ UNCHANGED <<storeVars, phase, step, known, live, done, last, seen>>

------------------------------------------------------------------------------
(* The server process dies and is started again: only the file is left,    *)
(* nobody resumes the job, every connection breaks.                        *)
Restart ==
  /\ Spend("restart")
  /\ phase' = "lost" /\ step' = "store" /\ todo' = {} /\ deleting' = FALSE
  /\ known' = FALSE /\ live' = 0 /\ done' = FALSE /\ subs' = {}
  /\ pend' = [c \in Clients |-> <<>>]
  /\ queue' = [c \in Clients |-> <<>>]
  /\ pc' = [c \in Clients |-> "off"]
  /\ batch' = [c \in Clients |-> {}]
  /\ wire' = [c \in Clients |-> <<>>]
  /\ client' = [c \in Clients |-> IF client[c] = "connected" THEN Disconnected(c) ELSE client[c]]
  /\ UNCHANGED <<log, rows, status, last, seen>>

(* delete_run: one transaction for the events, one for the run. *)
DeleteEvents ==
  /\ status # "deleted" /\ ~deleting
  /\ Spend("delete")
  /\ rows' = {}
  /\ deleting' = TRUE
  /\ UNCHANGED <<log, status, workerVars, known, live, done, loopVars, clientVars>>

DeleteRun ==
  /\ deleting
  /\ status' = "deleted"
  /\ deleting' = FALSE
  /\ UNCHANGED <<log, rows, workerVars, known, live, done, loopVars, clientVars, budget>>

------------------------------------------------------------------------------
Worker ==
  \/ StartJob \/ StoreEvent \/ AppendEvent \/ SnapshotQueues \/ Emitted
  \/ WorkEnds \/ FinishRun \/ SetDone
  \/ \E c \in Clients : Notify(c)

Stream(c) ==
  \/ Begin(c) \/ SnapshotEvents(c) \/ Replay(c) \/ Replayed(c)
  \/ Check(c) \/ Take(c) \/ Keepalive(c)

Delete == DeleteEvents \/ DeleteRun

Next ==
  \/ Worker \/ StoreEventFails \/ FinishRunFails \/ Restart \/ Delete
  \/ \E c \in Clients :
       RunCallback(c) \/ Stream(c) \/ Connect(c) \/ Receive(c) \/ ResponseEnds(c) \/ Drop(c)

Safe == Init /\ [][Next]_vars

(* Threads and the loop keep running, q.get() times out after 15 s, clients *)
(* read what arrives, and an EventSource reconnects (retry: 2000).  Nothing *)
(* makes a script connect, a store fail, a process die or a user delete.    *)
Fairness ==
  /\ WF_vars(Worker)
  /\ \A c \in Clients :
       /\ WF_vars(RunCallback(c)) /\ WF_vars(Stream(c))
       /\ WF_vars(Receive(c)) /\ WF_vars(ResponseEnds(c))
  /\ \A c \in Browsers : WF_vars(Connect(c))

Spec == Safe /\ Fairness

------------------------------------------------------------------------------
Untouched(b) == budget[b] = Budget[b]

StoreTypes ==
  /\ log \in Seq({"start", "data", "end", "error"})
  /\ rows \subseteq Nat
  /\ status \in {"running", "done", "error", "deleted"}
  /\ deleting \in BOOLEAN

WorkerTypes ==
  /\ phase \in {"queued", "start", "work", "end", "finish", "error", "abort", "last",
               "stopped", "dead", "lost"}
  /\ step \in {"store", "append", "snapshot", "notify"}
  /\ known \in BOOLEAN /\ done \in BOOLEAN
  /\ live \in Nat

QueueTypes ==
  /\ subs \subseteq Clients /\ todo \subseteq Clients
  /\ pend \in [Clients -> Seq(Nat)] /\ queue \in [Clients -> Seq(Nat)]

StreamTypes ==
  /\ pc \in [Clients -> {"off", "begin", "drain", "subscribed", "replay", "check", "wait", "ended"}]
  /\ batch \in [Clients -> SUBSET Nat]
  /\ last \in [Clients -> Nat]
  /\ wire \in [Clients -> Seq(Nat)]

ClientTypes ==
  /\ client \in [Clients -> {"idle", "connected", "complete", "refused", "returned", "failed"}]
  /\ seen \in [Clients -> Seq(Nat)]
  /\ budget \in [Bounded -> Nat]

(* The types of the variables. *)
TypeOK == StoreTypes /\ WorkerTypes /\ QueueTypes /\ StreamTypes /\ ClientTypes

(* A client of a run nobody deletes has been handed the run's first events, *)
(* each once, in order and with none missing, whatever broke in between:    *)
(* replay, live queue, reconnects and restarts join up without a seam, and  *)
(* nothing is handed out that the store does not hold (app.py:95-123).      *)
GapFree ==
  Untouched("delete") =>
    \A c \in Clients :
      /\ Len(seen[c]) <= Len(log)
      /\ \A i \in 1..Len(seen[c]) : seen[c][i] = i

(* Deleting a run under its readers can hide events from them but never     *)
(* repeats one or hands out an older one after a newer one.                 *)
InOrder == \A c \in Clients : \A i, j \in 1..Len(seen[c]) : i < j => seen[c][i] < seen[c][j]

(* A stream that is blocked on its empty queue while the worker is between  *)
(* events has yielded all there is: subscribing before copying the list     *)
(* leaves no moment in which an event reaches neither (app.py:101-105).     *)
NoMissedEvent ==
  \A c \in Clients :
    /\ pc[c] = "wait" /\ queue[c] = <<>> /\ pend[c] = <<>>
    /\ step \in {"store", "append"}
    => last[c] = live

(* The status of a run that is over agrees with the last event stored of it,*)
(* also when statements of the store fail on the way (app.py:80-88).        *)
StatusAgrees ==
  status \in {"done", "error"} =>
    /\ log # <<>>
    /\ log[Len(log)] = IF status = "done" THEN "end" ELSE "error"

(* Every browser gets to the end of the run, over any number of broken      *)
(* connections the bound allows, unless the process dies or the store fails *)
(* or somebody deletes the run.                                             *)
BrowserFinishes ==
  \A c \in Browsers :
    <>(\/ client[c] = "complete"
       \/ \E b \in {"fail", "restart", "delete"} : ~Untouched(b))

Feed == INSTANCE RunFeed WITH
  Followers <- Browsers, seen <- [c \in Clients |-> Len(seen[c])]

(* The clients see what the abstract feed lets them see ...                 *)
ImplementsSafeFeed == Feed!Safe

(* ... and a browser catches up with what is stored, restarts included.     *)
ImplementsFeed == Feed!Spec

------------------------------------------------------------------------------
(* The inductive invariant behind the safety properties.                   *)
(*                                                                         *)
(* An event travels  log -> live -> pend -> queue -> wire -> seen,  or is  *)
(* copied from the list or the store into batch on its way to wire.  The   *)
(* invariant says where on that way every event is.                        *)

(* No client holds an event beyond this one. *)
Horizon == IF known THEN live ELSE Len(log)

(* c's stream has its queue in state.queues. *)
Subscribed(c) == pc[c] \in {"subscribed", "replay", "check", "wait"}

(* The newest event has been appended but not yet put for c. *)
Owed(c) == c \in todo \/ (step = "snapshot" /\ c \in subs)

(* The newest event put for c, and the newest one c has taken of them. *)
Put(c)   == IF Owed(c) THEN live - 1 ELSE live
Taken(c) == Put(c) - Len(pend[c]) - Len(queue[c])

(* A budget is only ever spent. *)
BudgetInv == \A b \in Bounded : budget[b] <= Budget[b]

WorkerInv ==
  /\ step # "notify" => todo = {}
  /\ step # "store" => phase \in DOMAIN Emits
  /\ step \in {"snapshot", "notify"} => live >= 1
  /\ known => Len(log) = live + (IF step = "append" THEN 1 ELSE 0)
  /\ live <= Len(log)
  /\ known <=> phase # "lost"
  /\ done => phase \in {"stopped"}

LogInv ==
  /\ (step # "store" /\ phase \in {"end", "error"}) \/ phase \in {"finish", "abort"}
     => /\ log # <<>>
        /\ log[Len(log)] = IF phase \in {"end", "finish"} THEN "end" ELSE "error"
  /\ status \in {"done", "error"} => phase \in {"last", "stopped", "lost"}
  /\ StatusAgrees

SubsInv ==
  /\ todo \subseteq subs
  /\ \A c \in Clients :
       /\ c \in subs <=> Subscribed(c)
       /\ c \in subs => known
       /\ pc[c] \notin {"drain", "replay"} => batch[c] = {}
       /\ c \notin subs => pend[c] = <<>> /\ queue[c] = <<>>
       /\ pc[c] = "off" => wire[c] = <<>>
       /\ pc[c] = "off" <=> client[c] # "connected"

(* What waits in c's queue and callbacks are the newest events put for c,  *)
(* in order; and what came before them has been yielded or is in batch.    *)
Queued(c) ==
  /\ Taken(c) >= 0
  /\ \A i \in 1..Len(pend[c]) : pend[c][i] = Put(c) - Len(pend[c]) + i
  /\ \A i \in 1..Len(queue[c]) : queue[c][i] = Taken(c) + i
  /\ pc[c] # "subscribed" => \A e \in (last[c] + 1)..Taken(c) : e \in batch[c]

QueueInv == \A c \in subs : Queued(c)

BatchInv ==
  /\ rows \subseteq 1..Len(log)
  /\ \A c \in Clients : \A e \in batch[c] : last[c] < e /\ e <= Horizon

(* What c was handed and what is on the wire to it ascends to `last`.      *)
Ordered(c) ==
  /\ \A i \in 1..Len(seen[c]) : i <= seen[c][i] /\ seen[c][i] <= Horizon
  /\ \A i, j \in 1..Len(seen[c]) : i < j => seen[c][i] < seen[c][j]
  /\ \A i \in 1..Len(wire[c]) : Len(seen[c]) + i <= wire[c][i] /\ wire[c][i] <= last[c]
  /\ \A i, j \in 1..Len(wire[c]) : i < j => wire[c][i] < wire[c][j]
  /\ \A i \in 1..Len(seen[c]), j \in 1..Len(wire[c]) : seen[c][i] < wire[c][j]
  /\ pc[c] # "off" =>
       /\ Len(seen[c]) + Len(wire[c]) <= last[c] /\ last[c] <= Horizon
       /\ \A i \in 1..Len(seen[c]) : seen[c][i] <= last[c]

OrderInv == \A c \in Clients : Ordered(c)

(* As long as nobody deletes the run there are no holes either. *)
Seamless(c) ==
  /\ \A i \in 1..Len(seen[c]) : seen[c][i] = i
  /\ \A i \in 1..Len(wire[c]) : wire[c][i] = Len(seen[c]) + i
  /\ pc[c] # "off" => last[c] = Len(seen[c]) + Len(wire[c])
  /\ \A e \in batch[c] : \A f \in (last[c] + 1)..e : f \in batch[c]

SeamInv ==
  Untouched("delete") => rows = 1..Len(log) /\ \A c \in Clients : Seamless(c)

(* The inductive invariant of RunStream: what a stream has yielded, what is *)
(* queued for it and what is still to be put join up, for every client.     *)
IInv ==
  /\ TypeOK /\ BudgetInv /\ WorkerInv /\ LogInv /\ SubsInv /\ QueueInv /\ BatchInv /\ OrderInv /\ SeamInv
==============================================================================
