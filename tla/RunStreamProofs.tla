--------------------------- MODULE RunStreamProofs ---------------------------
(***************************************************************************)
(* Proofs about RunStream for any sets of clients and any budget: type     *)
(* correctness, the part of the inductive invariant that the worker thread *)
(* and the store keep, the part that makes replay and live queue join up,  *)
(* the safety properties that follow, and the refinement of RunFeed.       *)
(***************************************************************************)
EXTENDS RunStream, TLAPS

------------------------------------------------------------------------------
(* Facts about the data.                                                   *)

(* The phases of job() that emit, what they emit and what follows them. *)
LEMMA EmitsDomain == DOMAIN Emits = {"start", "work", "end", "error"}
  BY DEF Emits

LEMMA EmitsFacts ==
  ASSUME NEW p \in {"start", "work", "end", "error"}
  PROVE  /\ Emits[p] = IF p = "work" THEN "data" ELSE p
         /\ AfterEvent[p] = IF p = "end" THEN "finish" ELSE IF p = "error" THEN "abort" ELSE "work"
         /\ AfterFailure[p] = IF p = "start" THEN "dead" ELSE IF p = "end" THEN "error"
                              ELSE IF p = "error" THEN "last" ELSE "work"
  BY DEF Emits, AfterEvent, AfterFailure

(* The empty queue, and what appending, reading and dropping an element give. *)
LEMMA SeqFacts ==
  /\ <<>> \in Seq(Nat)
  /\ \A s \in Seq(Nat), e \in Nat : Append(s, e) \in Seq(Nat)
  /\ \A s \in Seq(Nat) : s # <<>> => Head(s) \in Nat /\ Tail(s) \in Seq(Nat)
  /\ \A s \in Seq(Nat) : s # <<>> => s[Len(s)] \in Nat
  OBVIOUS

------------------------------------------------------------------------------
(* Which actions touch which variables.                                    *)

LEMMA StoreFrame ==
  [Next]_vars => StoreEvent \/ FinishRun \/ Restart \/ DeleteEvents \/ DeleteRun \/ UNCHANGED storeVars
  BY DEF Next, vars, storeVars, Worker, Stream, Delete, StartJob, StoreEventFails, AppendEvent,
     SnapshotQueues, Notify, Emitted, WorkEnds, FinishRunFails, SetDone, RunCallback, Begin,
     SnapshotEvents, Replay, Replayed, Check, Take, Keepalive, Connect, Receive, ResponseEnds, Drop

LEMMA WorkerFrame ==
  [Next]_vars =>
    \/ StartJob \/ StoreEvent \/ StoreEventFails \/ AppendEvent \/ SnapshotQueues \/ Emitted
    \/ WorkEnds \/ FinishRun \/ FinishRunFails \/ SetDone \/ Restart
    \/ UNCHANGED <<phase, step, known, live, done>>
  BY DEF Next, vars, workerVars, Worker, Stream, Delete, Notify, RunCallback, Begin, SnapshotEvents,
     Replay, Replayed, Check, Take, Keepalive, Connect, Receive, ResponseEnds, Drop, DeleteEvents,
     DeleteRun

LEMMA QueueFrame ==
  [Next]_vars =>
    \/ UNCHANGED <<subs, todo, pend, queue>>
    \/ SnapshotQueues \/ Restart
    \/ \E c \in Clients :
         Notify(c) \/ RunCallback(c) \/ Begin(c) \/ Check(c) \/ Take(c) \/ Receive(c) \/ Drop(c)
  BY DEF Next, vars, workerVars, loopVars, Worker, Stream, Delete, StartJob, StoreEvent,
     StoreEventFails, AppendEvent, Emitted, WorkEnds, FinishRun, FinishRunFails, SetDone,
     DeleteEvents, DeleteRun, SnapshotEvents, Replay, Replayed, Keepalive, Connect, ResponseEnds

LEMMA StreamFrame ==
  [Next]_vars =>
    \/ UNCHANGED <<pc, batch, last, wire>>
    \/ Restart
    \/ \E c \in Clients :
         Stream(c) \/ Connect(c) \/ Receive(c) \/ ResponseEnds(c) \/ Drop(c)
  BY DEF Next, vars, loopVars, Worker, Delete, StartJob, StoreEvent, StoreEventFails, AppendEvent,
     SnapshotQueues, Notify, Emitted, WorkEnds, FinishRun, FinishRunFails, SetDone, RunCallback,
     DeleteEvents, DeleteRun

LEMMA ClientFrame ==
  [Next]_vars =>
    \/ UNCHANGED clientVars
    \/ Restart
    \/ \E c \in Clients : Connect(c) \/ Receive(c) \/ ResponseEnds(c) \/ Drop(c)
  BY DEF Next, vars, clientVars, Worker, Stream, Delete, StartJob, StoreEvent, StoreEventFails,
     AppendEvent, SnapshotQueues, Notify, Emitted, WorkEnds, FinishRun, FinishRunFails, SetDone,
     RunCallback, Begin, SnapshotEvents, Replay, Replayed, Check, Take, Keepalive, DeleteEvents,
     DeleteRun

LEMMA LogFrame ==
  [Next]_vars => StoreEvent \/ UNCHANGED log
  BY StoreFrame DEF storeVars, FinishRun, Restart, DeleteEvents, DeleteRun

LEMMA TodoFrame ==
  [Next]_vars => SnapshotQueues \/ todo' = {} \/ todo' \subseteq todo
  BY QueueFrame DEF Restart, Notify, RunCallback, Begin, Check, Take, Receive, Drop, Close,
     Unsubscribe, workerVars

LEMMA LoopFrame ==
  [Next]_vars =>
    \/ UNCHANGED <<loopVars, clientVars, todo, known>>
    \/ SnapshotQueues \/ Restart
    \/ \E c \in Clients :
         \/ Notify(c) \/ RunCallback(c) \/ Stream(c)
         \/ Connect(c) \/ Receive(c) \/ ResponseEnds(c) \/ Drop(c)
  BY DEF Next, vars, workerVars, loopVars, Worker, Delete, StartJob, StoreEvent, StoreEventFails,
     AppendEvent, Emitted, WorkEnds, FinishRun, FinishRunFails, SetDone, DeleteEvents, DeleteRun

LEMMA BudgetFrame ==
  [Next]_vars => UNCHANGED budget \/ (DeleteEvents /\ Spend("delete"))
                 \/ \E b \in Bounded \ {"delete"} : Spend(b)
  BY DEF Next, vars, Bounded, Worker, Stream, Delete, StartJob, StoreEvent, StoreEventFails,
     AppendEvent, SnapshotQueues, Notify, Emitted, WorkEnds, FinishRun, FinishRunFails, SetDone,
     RunCallback, Begin, SnapshotEvents, Replay, Replayed, Check, Take, Keepalive, Connect, Receive,
     ResponseEnds, Drop, Restart, DeleteEvents, DeleteRun

------------------------------------------------------------------------------
(* Type correctness.                                                       *)

LEMMA StoreTypesStep == TypeOK /\ [Next]_vars => StoreTypes'
<1> SUFFICES ASSUME TypeOK, [Next]_vars PROVE StoreTypes'
  OBVIOUS
<1> USE DEF TypeOK, StoreTypes
<1>1. CASE StoreEvent
  <2>1. Emits[phase] \in {"start", "data", "end", "error"}
    <3>1. phase \in {"start", "work", "end", "error"}
      BY <1>1, EmitsDomain DEF StoreEvent
    <3>2. QED
      BY <3>1 DEF Emits
  <2>2. log' \in Seq({"start", "data", "end", "error"})
    <3>1. log' = Append(log, Emits[phase])
      BY <1>1 DEF StoreEvent
    <3>2. QED
      BY <2>1, <3>1
  <2>3. rows' \subseteq Nat
    <3>1. rows' = rows \cup {Len(log) + 1}
      BY <1>1 DEF StoreEvent
    <3>2. Len(log) + 1 \in Nat
      OBVIOUS
    <3>3. QED
      BY <3>1, <3>2
  <2>4. UNCHANGED <<status, deleting>>
    BY <1>1 DEF StoreEvent
  <2>5. QED
    BY <2>2, <2>3, <2>4
<1>2. CASE FinishRun
  BY <1>2 DEF FinishRun, Outcome
<1>3. CASE Restart
  BY <1>3 DEF Restart
<1>4. CASE DeleteEvents
  BY <1>4 DEF DeleteEvents
<1>5. CASE DeleteRun
  BY <1>5 DEF DeleteRun
<1>6. CASE UNCHANGED storeVars
  BY <1>6 DEF storeVars
<1>7. QED
  BY <1>1, <1>2, <1>3, <1>4, <1>5, <1>6, StoreFrame

LEMMA WorkerTypesStep == TypeOK /\ [Next]_vars => WorkerTypes'
<1> SUFFICES ASSUME TypeOK, [Next]_vars PROVE WorkerTypes'
  OBVIOUS
<1> USE DEF TypeOK, WorkerTypes, workerVars
<1>1. CASE StartJob
  BY <1>1 DEF StartJob
<1>2. CASE StoreEvent
  BY <1>2 DEF StoreEvent
<1>3. CASE StoreEventFails
  BY <1>3, EmitsDomain, EmitsFacts DEF StoreEventFails
<1>4. CASE AppendEvent
  BY <1>4 DEF AppendEvent
<1>5. CASE SnapshotQueues
  BY <1>5 DEF SnapshotQueues
<1>6. CASE Emitted
  BY <1>6, EmitsDomain, EmitsFacts DEF Emitted
<1>7. CASE WorkEnds
  BY <1>7 DEF WorkEnds
<1>8. CASE FinishRun \/ FinishRunFails
  BY <1>8 DEF FinishRun, FinishRunFails
<1>9. CASE SetDone
  BY <1>9 DEF SetDone
<1>10. CASE Restart
  BY <1>10 DEF Restart
<1>11. CASE UNCHANGED <<phase, step, known, live, done>>
  BY <1>11
<1>12. QED
  BY <1>1, <1>2, <1>3, <1>4, <1>5, <1>6, <1>7, <1>8, <1>9, <1>10, <1>11, WorkerFrame

LEMMA QueueTypesStep == TypeOK /\ [Next]_vars => QueueTypes'
<1> SUFFICES ASSUME TypeOK, [Next]_vars PROVE QueueTypes'
  OBVIOUS
<1> USE SeqFacts DEF TypeOK, QueueTypes
<1>1. ASSUME NEW c \in Clients, Unsubscribe(c) PROVE QueueTypes'
  BY <1>1 DEF Unsubscribe
<1>2. CASE SnapshotQueues
  BY <1>2 DEF SnapshotQueues, loopVars
<1>3. CASE Restart
  BY <1>3 DEF Restart
<1>4. ASSUME NEW c \in Clients, Notify(c) PROVE QueueTypes'
  BY <1>4 DEF Notify, Scheduled, WorkerTypes
<1>5. ASSUME NEW c \in Clients, RunCallback(c) PROVE QueueTypes'
  <2>1. Append(queue[c], Head(pend[c])) \in Seq(Nat) /\ Tail(pend[c]) \in Seq(Nat)
    BY <1>5 DEF RunCallback
  <2>2. QED
    BY <1>5, <2>1 DEF RunCallback, workerVars
<1>6. ASSUME NEW c \in Clients, Begin(c) PROVE QueueTypes'
  BY <1>6 DEF Begin, workerVars
<1>7. ASSUME NEW c \in Clients, Check(c) PROVE QueueTypes'
  BY <1>7, <1>1 DEF Check
<1>8. ASSUME NEW c \in Clients, Take(c) PROVE QueueTypes'
  <2>1. CASE Unsubscribe(c)
    BY <2>1, <1>1
  <2>2. CASE ~Unsubscribe(c)
    <3>1. Tail(queue[c]) \in Seq(Nat)
      BY <1>8 DEF Take
    <3>2. queue' = [queue EXCEPT ![c] = Tail(@)] /\ UNCHANGED <<subs, todo, pend>>
      BY <1>8, <2>2 DEF Take
    <3>3. QED
      BY <3>1, <3>2
  <2>3. QED
    BY <2>1, <2>2
<1>9. ASSUME NEW c \in Clients, Receive(c) PROVE QueueTypes'
  BY <1>9, <1>1 DEF Receive, Close
<1>10. ASSUME NEW c \in Clients, Drop(c) PROVE QueueTypes'
  BY <1>10, <1>1 DEF Drop, Close
<1>11. QED
  BY <1>2, <1>3, <1>4, <1>5, <1>6, <1>7, <1>8, <1>9, <1>10, QueueFrame

LEMMA StreamTypesStep == TypeOK /\ [Next]_vars => StreamTypes'
<1> SUFFICES ASSUME TypeOK, [Next]_vars PROVE StreamTypes'
  OBVIOUS
<1> USE SeqFacts DEF TypeOK, StreamTypes
<1>1. CASE Restart
  BY <1>1 DEF Restart
<1>2. ASSUME NEW c \in Clients, NEW e \in Nat, Yield(c, e)
      PROVE  wire' \in [Clients -> Seq(Nat)] /\ last' \in [Clients -> Nat]
  BY <1>2 DEF Yield
<1>3. ASSUME NEW c \in Clients, Close(c)
      PROVE  /\ pc' \in [Clients -> {"off", "begin", "drain", "subscribed", "replay", "check", "wait", "ended"}]
             /\ batch' \in [Clients -> SUBSET Nat]
             /\ wire' \in [Clients -> Seq(Nat)]
  BY <1>3 DEF Close
<1>4. ASSUME NEW c \in Clients, Begin(c) PROVE StreamTypes'
  <2>1. Stored(c) \in SUBSET Nat
    BY DEF StoreTypes, Stored
  <2>2. batch' \in [Clients -> SUBSET Nat]
    BY <1>4, <2>1 DEF Begin
  <2>3. QED
    BY <1>4, <2>2 DEF Begin
<1>5. ASSUME NEW c \in Clients, SnapshotEvents(c) PROVE StreamTypes'
  <2>1. {e \in 1..live : e > last[c]} \in SUBSET Nat
    OBVIOUS
  <2>2. QED
    BY <1>5, <2>1 DEF SnapshotEvents
<1>6. ASSUME NEW c \in Clients, Replay(c) PROVE StreamTypes'
  <2>1. PICK e \in batch[c] : Yield(c, e) /\ batch' = [batch EXCEPT ![c] = @ \ {e}]
    BY <1>6 DEF Replay
  <2>2. QED
    BY <1>6, <1>2, <2>1 DEF Replay
<1>7. ASSUME NEW c \in Clients, Replayed(c) \/ Check(c) \/ Keepalive(c) \/ ResponseEnds(c)
      PROVE  StreamTypes'
  BY <1>7 DEF Replayed, Check, Keepalive, ResponseEnds
<1>8. ASSUME NEW c \in Clients, Take(c) PROVE StreamTypes'
  <2>1. Head(queue[c]) \in Nat
    BY <1>8 DEF Take, QueueTypes
  <2>2. wire' \in [Clients -> Seq(Nat)] /\ last' \in [Clients -> Nat]
    BY <1>8, <1>2, <2>1 DEF Take
  <2>3. QED
    BY <1>8, <2>2 DEF Take
<1>9. ASSUME NEW c \in Clients, Connect(c) PROVE StreamTypes'
  <2>1. LastSeen(c) \in Nat
    BY DEF LastSeen, ClientTypes
  <2>2. QED
    BY <1>9, <2>1 DEF Connect
<1>10. ASSUME NEW c \in Clients, Receive(c) PROVE StreamTypes'
  <2>1. CASE Close(c)
    BY <1>10, <1>3, <2>1 DEF Receive
  <2>2. CASE ~Close(c)
    <3>1. Tail(wire[c]) \in Seq(Nat)
      BY <1>10 DEF Receive
    <3>2. wire' = [wire EXCEPT ![c] = Tail(@)] /\ UNCHANGED <<pc, batch, last>>
      BY <1>10, <2>2 DEF Receive
    <3>3. QED
      BY <3>1, <3>2
  <2>3. QED
    BY <2>1, <2>2
<1>11. ASSUME NEW c \in Clients, Drop(c) PROVE StreamTypes'
  BY <1>11, <1>3 DEF Drop
<1>12. QED
  BY <1>1, <1>4, <1>5, <1>6, <1>7, <1>8, <1>9, <1>10, <1>11, StreamFrame DEF Stream

LEMMA ClientTypesStep == TypeOK /\ [Next]_vars => ClientTypes'
<1> SUFFICES ASSUME TypeOK, [Next]_vars PROVE ClientTypes'
  OBVIOUS
<1> USE SeqFacts DEF TypeOK, ClientTypes
<1>1. budget' \in [Bounded -> Nat]
  <2>1. UNCHANGED budget \/ \E b \in Bounded : Spend(b)
    BY BudgetFrame DEF Bounded
  <2>2. ASSUME NEW b \in Bounded, Spend(b) PROVE budget' \in [Bounded -> Nat]
    BY <2>2 DEF Spend
  <2>3. QED
    BY <2>1, <2>2
<1>2. CASE Restart
  BY <1>1, <1>2 DEF Restart, Disconnected
<1>3. ASSUME NEW c \in Clients, Connect(c) \/ ResponseEnds(c) \/ Drop(c) PROVE ClientTypes'
  BY <1>1, <1>3 DEF Connect, ResponseEnds, AtResponseEnd, Drop, Disconnected
<1>4. ASSUME NEW c \in Clients, Receive(c) PROVE ClientTypes'
  <2>1. Head(wire[c]) \in Nat
    BY <1>4 DEF Receive, StreamTypes
  <2>2. seen' \in [Clients -> Seq(Nat)]
    BY <1>4, <2>1 DEF Receive
  <2>3. QED
    BY <1>1, <1>4, <2>2 DEF Receive
<1>5. CASE UNCHANGED clientVars
  BY <1>1, <1>5 DEF clientVars
<1>6. QED
  BY <1>2, <1>3, <1>4, <1>5, ClientFrame

LEMMA TypeInit == Init => TypeOK
<1> SUFFICES ASSUME Init PROVE TypeOK
  OBVIOUS
<1>1. StoreTypes /\ WorkerTypes
  <2>1. deleting \in BOOLEAN /\ known \in BOOLEAN /\ done \in BOOLEAN
    BY DEF Init
  <2>2. log \in Seq({"start", "data", "end", "error"})
    BY DEF Init
  <2>3. QED
    BY <2>1, <2>2 DEF Init, StoreTypes, WorkerTypes
<1>2. QueueTypes /\ StreamTypes
  BY SeqFacts DEF Init, QueueTypes, StreamTypes
<1>3. ClientTypes
  BY SeqFacts, BudgetAssumption DEF Init, ClientTypes
<1>4. QED
  BY <1>1, <1>2, <1>3 DEF TypeOK

LEMMA TypeStep == TypeOK /\ [Next]_vars => TypeOK'
  BY StoreTypesStep, WorkerTypesStep, QueueTypesStep, StreamTypesStep, ClientTypesStep DEF TypeOK

(* Every state the server and its clients can reach is well typed. *)
THEOREM TypeCorrect == Safe => []TypeOK
  BY TypeInit, TypeStep, PTL DEF Safe

------------------------------------------------------------------------------
(* The inductive invariant, part by part.                                  *)

LEMMA InitInv == Init => IInv
<1> SUFFICES ASSUME Init PROVE IInv
  OBVIOUS
<1>1. BudgetInv
  BY BudgetAssumption DEF Init, BudgetInv
<1>2. WorkerInv /\ LogInv
  BY DEF Init, WorkerInv, LogInv, StatusAgrees
<1>3. SubsInv /\ QueueInv
  BY DEF Init, SubsInv, QueueInv, Subscribed
<1>4. BatchInv
  BY DEF Init, BatchInv
<1>5. OrderInv
  BY DEF Init, OrderInv, Ordered
<1>6. SeamInv
  BY DEF Init, SeamInv, Seamless
<1>7. QED
  BY <1>1, <1>2, <1>3, <1>4, <1>5, <1>6, TypeInit DEF IInv

LEMMA BudgetStep == TypeOK /\ BudgetInv /\ [Next]_vars => BudgetInv'
<1> SUFFICES ASSUME TypeOK, BudgetInv, [Next]_vars PROVE BudgetInv'
  OBVIOUS
<1> USE BudgetAssumption DEF TypeOK, ClientTypes, BudgetInv
<1>1. CASE UNCHANGED budget
  BY <1>1
<1>2. ASSUME NEW b \in Bounded, Spend(b) PROVE BudgetInv'
  BY <1>2 DEF Spend
<1>3. QED
  BY <1>1, <1>2, BudgetFrame DEF Bounded

LEMMA WorkerStep == TypeOK /\ WorkerInv /\ [Next]_vars => WorkerInv'
<1> SUFFICES ASSUME TypeOK, WorkerInv, [Next]_vars PROVE WorkerInv'
  OBVIOUS
<1> USE DEF WorkerInv, TypeOK, WorkerTypes, StoreTypes, workerVars
<1>1. CASE StartJob
  BY <1>1, EmitsDomain DEF StartJob, storeVars
<1>2. CASE StoreEvent
  BY <1>2, EmitsDomain DEF StoreEvent
<1>3. CASE StoreEventFails
  BY <1>3, EmitsDomain, EmitsFacts DEF StoreEventFails, storeVars
<1>4. CASE AppendEvent
  BY <1>4, EmitsDomain DEF AppendEvent, storeVars
<1>5. CASE SnapshotQueues
  BY <1>5, EmitsDomain DEF SnapshotQueues, storeVars
<1>6. CASE Emitted
  BY <1>6, EmitsDomain, EmitsFacts DEF Emitted, storeVars
<1>7. CASE WorkEnds
  BY <1>7, EmitsDomain DEF WorkEnds, storeVars
<1>8. CASE FinishRun \/ FinishRunFails
  <2>1. /\ phase \in {"finish", "abort"} /\ phase' \in {"last", "error"}
        /\ UNCHANGED <<log, step, todo, known, live, done>>
    BY <1>8 DEF FinishRun, FinishRunFails, storeVars
  <2>2. QED
    BY <2>1, EmitsDomain
<1>9. CASE SetDone
  <2>1. step = "store" /\ phase' = "stopped" /\ UNCHANGED <<log, step, todo, known, live>>
    BY <1>9, EmitsDomain DEF SetDone, storeVars
  <2>2. phase = "last"
    BY <1>9 DEF SetDone
  <2>3. QED
    BY <2>1, <2>2
<1>10. CASE Restart
  BY <1>10, EmitsDomain DEF Restart
<1>11. CASE UNCHANGED <<phase, step, known, live, done>>
  <2>1. UNCHANGED log
    BY <1>11, LogFrame DEF StoreEvent
  <2>2. todo' = {} \/ todo' \subseteq todo
    BY <1>11, TodoFrame DEF SnapshotQueues
  <2>3. QED
    BY <1>11, <2>1, <2>2
<1>12. QED
  BY <1>1, <1>2, <1>3, <1>4, <1>5, <1>6, <1>7, <1>8, <1>9, <1>10, <1>11, WorkerFrame

LEMMA LogStep == TypeOK /\ WorkerInv /\ LogInv /\ [Next]_vars => LogInv'
<1> SUFFICES ASSUME TypeOK, WorkerInv, LogInv, [Next]_vars PROVE LogInv'
  OBVIOUS
<1> USE DEF LogInv, StatusAgrees, WorkerInv, TypeOK, WorkerTypes, StoreTypes
<1>1. CASE StoreEvent
  <2>1. phase \in {"start", "work", "end", "error"} /\ UNCHANGED <<phase, status>> /\ step = "store"
    BY <1>1, EmitsDomain DEF StoreEvent
  <2>2. Emits[phase] \in {"start", "data", "end", "error"}
        /\ (phase \in {"end", "error"} => Emits[phase] = phase)
    BY <2>1 DEF Emits
  <2>3. log' = Append(log, Emits[phase])
    BY <1>1 DEF StoreEvent
  <2>4. log' # <<>> /\ log'[Len(log')] = Emits[phase]
    BY <2>2, <2>3
  <2>5. QED
    BY <2>1, <2>2, <2>4
<1>2. CASE FinishRun
  BY <1>2 DEF FinishRun, Outcome
<1>3. CASE ~StoreEvent /\ ~FinishRun
  <2>1. UNCHANGED log /\ (status' = status \/ status' = "deleted")
    BY <1>3, StoreFrame DEF storeVars, Restart, DeleteEvents, DeleteRun
  <2>2. CASE StartJob \/ WorkEnds
    BY <2>1, <2>2 DEF StartJob, WorkEnds
  <2>3. CASE StoreEventFails
    BY <2>1, <2>3, EmitsDomain, EmitsFacts DEF StoreEventFails
  <2>4. CASE AppendEvent \/ SnapshotQueues
    BY <2>1, <2>4 DEF AppendEvent, SnapshotQueues
  <2>5. CASE Emitted
    BY <2>1, <2>5, EmitsDomain, EmitsFacts DEF Emitted
  <2>6. CASE FinishRunFails
    <3>1. step = "store" /\ UNCHANGED <<log, status, step>> /\ phase' \in {"error", "last"}
      BY <2>1, <2>6, EmitsDomain DEF FinishRunFails, storeVars
    <3>2. status \notin {"done", "error"}
      BY <2>6 DEF FinishRunFails
    <3>3. QED
      BY <3>1, <3>2
  <2>9. CASE SetDone
    BY <2>1, <2>9 DEF SetDone
  <2>7. CASE Restart
    BY <2>1, <2>7 DEF Restart
  <2>8. CASE UNCHANGED <<phase, step, known, live, done>>
    BY <2>1, <2>8
  <2>10. QED
    BY <1>3, <2>2, <2>3, <2>4, <2>5, <2>6, <2>7, <2>8, <2>9, WorkerFrame
<1>4. QED
  BY <1>1, <1>2, <1>3

(* The status of a run that is over agrees with the last event stored of   *)
(* it, whatever statements of the store fail and whenever the process dies.*)
THEOREM StatusCorrect == Safe => []StatusAgrees
<1> DEFINE I == TypeOK /\ WorkerInv /\ LogInv
<1>1. Init => I
  BY InitInv DEF IInv
<1>2. I /\ [Next]_vars => I'
  BY TypeStep, WorkerStep, LogStep
<1>3. I => StatusAgrees
  BY DEF LogInv
<1>4. QED
  BY <1>1, <1>2, <1>3, PTL DEF Safe

------------------------------------------------------------------------------
(* Connections and their queues.                                           *)

(* Which connections have a queue, and what a closed one has not. *)
LEMMA SubsStep == TypeOK /\ WorkerInv /\ SubsInv /\ [Next]_vars => SubsInv'
<1> SUFFICES ASSUME TypeOK, WorkerInv, SubsInv, [Next]_vars PROVE SubsInv'
  OBVIOUS
<1> USE DEF SubsInv, Subscribed, TypeOK, QueueTypes, StreamTypes, ClientTypes, clientVars
<1>1. CASE UNCHANGED <<loopVars, clientVars, todo, known>>
  BY <1>1 DEF loopVars
<1>2. CASE SnapshotQueues
  BY <1>2 DEF SnapshotQueues, loopVars
<1>3. CASE Restart
  BY <1>3 DEF Restart, Disconnected
<1>4. ASSUME NEW c \in Clients, Notify(c) PROVE SubsInv'
  BY <1>4 DEF Notify, Scheduled
<1>5. ASSUME NEW c \in Clients, RunCallback(c) PROVE SubsInv'
  BY <1>5 DEF RunCallback, workerVars
<1>6. ASSUME NEW c \in Clients, Begin(c) PROVE SubsInv'
  BY <1>6 DEF Begin, workerVars
<1>7. ASSUME NEW c \in Clients, SnapshotEvents(c) PROVE SubsInv'
  BY <1>7 DEF SnapshotEvents, workerVars
<1>8. ASSUME NEW c \in Clients, Replay(c) PROVE SubsInv'
  BY <1>8 DEF Replay, Yield, workerVars
<1>9. ASSUME NEW c \in Clients, Replayed(c) PROVE SubsInv'
  BY <1>9 DEF Replayed, workerVars
<1>10. ASSUME NEW c \in Clients, Check(c) PROVE SubsInv'
  <2>1. CASE done /\ queue[c] = <<>>
    <3>1. /\ pc[c] = "check" /\ pc' = [pc EXCEPT ![c] = "ended"] /\ Unsubscribe(c)
          /\ UNCHANGED <<known, batch, wire, client>>
      BY <1>10, <2>1 DEF Check
    <3>2. QED
      BY <3>1 DEF Unsubscribe
  <2>2. CASE ~(done /\ queue[c] = <<>>)
    BY <1>10, <2>2 DEF Check
  <2>3. QED
    BY <2>1, <2>2
<1>11. ASSUME NEW c \in Clients, Take(c) PROVE SubsInv'
  <2>1. pc[c] = "wait" /\ UNCHANGED <<known, batch, client>>
    BY <1>11 DEF Take
  <2>2. wire' = wire \/ \E e : wire' = [wire EXCEPT ![c] = Append(@, e)]
    BY <1>11 DEF Take, Yield
  <2>3. CASE Terminal(Head(queue[c]))
    <3>1. pc' = [pc EXCEPT ![c] = "ended"] /\ Unsubscribe(c)
      BY <1>11, <2>3 DEF Take
    <3>2. QED
      BY <2>1, <2>2, <3>1 DEF Unsubscribe
  <2>4. CASE ~Terminal(Head(queue[c]))
    <3>1. /\ pc' = [pc EXCEPT ![c] = "check"] /\ queue' = [queue EXCEPT ![c] = Tail(@)]
          /\ UNCHANGED <<subs, todo, pend>>
      BY <1>11, <2>4 DEF Take
    <3>2. QED
      BY <2>1, <2>2, <3>1
  <2>5. QED
    BY <2>3, <2>4
<1>12. ASSUME NEW c \in Clients, Keepalive(c) PROVE SubsInv'
  BY <1>12 DEF Keepalive, workerVars
<1>13. ASSUME NEW c \in Clients, Connect(c) PROVE SubsInv'
  BY <1>13 DEF Connect, workerVars
<1>14. ASSUME NEW c \in Clients, Receive(c) PROVE SubsInv'
  <2>1. CASE Close(c)
    BY <1>14, <2>1 DEF Receive, Close, Unsubscribe
  <2>2. CASE ~Close(c)
    <3>1. /\ UNCHANGED <<subs, todo, pend, queue, pc, batch, known, client>>
          /\ wire[c] # <<>> /\ wire' = [wire EXCEPT ![c] = Tail(@)]
      BY <1>14, <2>2 DEF Receive
    <3>2. QED
      BY <3>1
  <2>3. QED
    BY <2>1, <2>2
<1>15. ASSUME NEW c \in Clients, ResponseEnds(c) PROVE SubsInv'
  BY <1>15 DEF ResponseEnds, AtResponseEnd, workerVars
<1>16. ASSUME NEW c \in Clients, Drop(c) PROVE SubsInv'
  BY <1>16 DEF Drop, Close, Unsubscribe, Disconnected
<1>17. QED
  BY <1>1, <1>2, <1>3, <1>4, <1>5, <1>6, <1>7, <1>8, <1>9, <1>10, <1>11, <1>12, <1>13, <1>14,
     <1>15, <1>16, LoopFrame DEF Stream

(* Client d, its connection and its queue are as they were. *)
Same(d) ==
  /\ pend'[d] = pend[d] /\ queue'[d] = queue[d]
  /\ pc'[d] = pc[d] /\ batch'[d] = batch[d] /\ last'[d] = last[d] /\ wire'[d] = wire[d]
  /\ client'[d] = client[d] /\ seen'[d] = seen[d]
  /\ d \in subs' <=> d \in subs
  /\ d \in todo' <=> d \in todo

(* A step of one connection or client leaves the others alone. *)
LEMMA Elsewhere ==
  ASSUME TypeOK, NEW c \in Clients, NEW d \in Clients \ {c},
         RunCallback(c) \/ Stream(c) \/ Connect(c) \/ Receive(c) \/ ResponseEnds(c) \/ Drop(c)
  PROVE  Same(d) /\ UNCHANGED <<log, status, deleting, rows, phase, step, known, live, done>>
<1> USE DEF TypeOK, QueueTypes, StreamTypes, ClientTypes, Same, workerVars, storeVars, clientVars
<1>1. CASE RunCallback(c)
  BY <1>1 DEF RunCallback
<1>2. CASE Begin(c)
  BY <1>2 DEF Begin
<1>3. CASE SnapshotEvents(c)
  BY <1>3 DEF SnapshotEvents
<1>4. CASE Replay(c)
  BY <1>4 DEF Replay, Yield
<1>5. CASE Replayed(c) \/ Keepalive(c)
  BY <1>5 DEF Replayed, Keepalive
<1>6. CASE Check(c)
  BY <1>6 DEF Check, Unsubscribe
<1>7. CASE Take(c)
  BY <1>7 DEF Take, Unsubscribe, Yield
<1>8. CASE Connect(c) \/ ResponseEnds(c)
  BY <1>8 DEF Connect, ResponseEnds
<1>9. CASE Receive(c)
  BY <1>9 DEF Receive, Close, Unsubscribe
<1>10. CASE Drop(c)
  BY <1>10 DEF Drop, Close, Unsubscribe
<1>11. QED
  BY <1>1, <1>2, <1>3, <1>4, <1>5, <1>6, <1>7, <1>8, <1>9, <1>10 DEF Stream

(* A queue whose callbacks, content and reader stay, and for which no more *)
(* nor less has been put, keeps its order.                                 *)
LEMMA QueuedFrame ==
  ASSUME NEW d, Queued(d), Put(d)' = Put(d), pend'[d] = pend[d], queue'[d] = queue[d],
         pc'[d] = pc[d], batch'[d] = batch[d], last'[d] = last[d]
  PROVE  Queued(d)'
  BY DEF Queued, Taken

(* What is put, queued and taken for a connection joins up with its replay. *)
LEMMA QueueStep == TypeOK /\ WorkerInv /\ SubsInv /\ BatchInv /\ QueueInv /\ [Next]_vars => QueueInv'
<1> SUFFICES ASSUME TypeOK, WorkerInv, SubsInv, BatchInv, QueueInv, [Next]_vars PROVE QueueInv'
  OBVIOUS
<1> USE DEF TypeOK, WorkerTypes, QueueTypes, StreamTypes
<1>f. ASSUME UNCHANGED <<loopVars>>, \A d \in subs : Put(d)' = Put(d) PROVE QueueInv'
  <2> SUFFICES ASSUME NEW d \in subs PROVE Queued(d)'
    BY <1>f DEF QueueInv, loopVars
  <2>1. QED
    BY <1>f, QueuedFrame DEF QueueInv, loopVars
<1>1. CASE UNCHANGED <<loopVars, todo, step, live>>
  BY <1>1, <1>f DEF Put, Owed, loopVars
<1>2. CASE StoreEvent
  BY <1>2, <1>f DEF StoreEvent, Put, Owed, loopVars
<1>3. CASE Emitted
  BY <1>3, <1>f DEF Emitted, Put, Owed, loopVars
<1>4. CASE AppendEvent
  BY <1>4, <1>f DEF AppendEvent, Put, Owed, loopVars, WorkerInv
<1>5. CASE SnapshotQueues
  BY <1>5, <1>f DEF SnapshotQueues, Put, Owed, loopVars
<1>6. CASE Restart
  BY <1>6 DEF Restart, QueueInv
<1>7. ASSUME NEW c \in Clients, Notify(c) PROVE QueueInv'
  <2> SUFFICES ASSUME NEW d \in subs PROVE Queued(d)'
    BY <1>7 DEF Notify, QueueInv
  <2>1. /\ step = "notify" /\ step' = "notify" /\ c \in todo /\ todo' = todo \ {c} /\ subs' = subs
        /\ pend' = [pend EXCEPT ![c] = Append(@, live)]
        /\ UNCHANGED <<live, queue, pc, batch, last>>
    BY <1>7 DEF Notify, Scheduled
  <2>2. CASE d # c
    BY <2>1, <2>2, QueuedFrame DEF QueueInv, Put, Owed, SubsInv
  <2>3. CASE d = c
    <3>1. Put(c) = live - 1 /\ Put(c)' = live
      BY <2>1 DEF Put, Owed
    <3>2. Len(pend'[c]) = Len(pend[c]) + 1 /\ queue'[c] = queue[c]
      BY <2>1
    <3>3. Taken(c)' = Taken(c)
      BY <3>1, <3>2 DEF Taken
    <3>4. ASSUME NEW i \in 1..Len(pend'[c]) PROVE pend'[c][i] = Put(c)' - Len(pend'[c]) + i
      <4>1. pend'[c] = Append(pend[c], live)
        BY <2>1
      <4>2. \A j \in 1..Len(pend[c]) : pend[c][j] = Put(c) - Len(pend[c]) + j
        BY <2>3 DEF QueueInv, Queued
      <4>3. CASE i <= Len(pend[c])
        <5>1. i \in 1..Len(pend[c]) /\ pend'[c][i] = pend[c][i]
          BY <4>1, <4>3
        <5>2. pend[c][i] = Put(c) - Len(pend[c]) + i
          BY <4>2, <5>1
        <5>3. live \in Nat /\ Len(pend[c]) \in Nat /\ i \in Nat
          BY <5>1
        <5>4. Put(c) - Len(pend[c]) + i = Put(c)' - Len(pend'[c]) + i
          BY <3>1, <3>2, <5>3
        <5>5. QED
          BY <5>1, <5>2, <5>4
      <4>4. CASE i = Len(pend[c]) + 1
        BY <3>1, <3>2, <4>1, <4>4
      <4>5. QED
        BY <3>2, <4>3, <4>4
    <3>5. QED
      BY <2>1, <2>3, <3>2, <3>3, <3>4 DEF QueueInv, Queued
  <2>4. QED
    BY <2>2, <2>3
<1>8. ASSUME NEW c \in Clients, NEW d \in Clients \ {c}, d \in subs',
             RunCallback(c) \/ Stream(c) \/ Connect(c) \/ Receive(c) \/ ResponseEnds(c) \/ Drop(c)
      PROVE  Queued(d)'
  <2>1. Same(d) /\ UNCHANGED <<step, live>>
    BY <1>8, Elsewhere
  <2>2. d \in subs /\ Put(d)' = Put(d)
    BY <1>8, <2>1 DEF Same, Put, Owed
  <2>3. QED
    BY <2>1, <2>2, QueuedFrame DEF Same, QueueInv
<1>9. ASSUME NEW c \in Clients, RunCallback(c), c \in subs PROVE Queued(c)'
  <2>1. /\ queue'[c] = Append(queue[c], Head(pend[c])) /\ pend'[c] = Tail(pend[c]) /\ pend[c] # <<>>
        /\ pc'[c] = pc[c] /\ batch'[c] = batch[c] /\ last'[c] = last[c]
    BY <1>9 DEF RunCallback, workerVars
  <2>2. Put(c)' = Put(c) /\ Put(c) \in Int
    BY <1>9 DEF RunCallback, workerVars, Put, Owed
  <2>3. Len(queue'[c]) = Len(queue[c]) + 1 /\ Len(pend'[c]) = Len(pend[c]) - 1
    BY <2>1
  <2>4. Taken(c)' = Taken(c)
    BY <2>2, <2>3 DEF Taken
  <2>5. Queued(c)
    BY <1>9 DEF QueueInv
  <2>6. ASSUME NEW i \in 1..Len(pend'[c]) PROVE pend'[c][i] = Put(c)' - Len(pend'[c]) + i
    <3>1. i + 1 \in 1..Len(pend[c]) /\ pend'[c][i] = pend[c][i + 1]
      BY <2>1, <2>3
    <3>2. pend[c][i + 1] = Put(c) - Len(pend[c]) + (i + 1)
      BY <2>5, <3>1 DEF Queued
    <3>3. Len(pend[c]) \in Nat /\ Len(pend'[c]) \in Nat /\ i \in Nat
      BY <2>1, <1>9
    <3>4. QED
      BY <2>2, <2>3, <3>1, <3>2, <3>3
  <2>7. ASSUME NEW i \in 1..Len(queue'[c]) PROVE queue'[c][i] = Taken(c)' + i
    <3>1. CASE i <= Len(queue[c])
      BY <2>1, <2>3, <2>4, <2>5, <3>1 DEF Queued
    <3>2. CASE i = Len(queue[c]) + 1
      <4>1. queue'[c][i] = pend[c][1] /\ 1 \in 1..Len(pend[c])
        BY <2>1, <3>2
      <4>2. pend[c][1] = Put(c) - Len(pend[c]) + 1
        BY <2>5, <4>1 DEF Queued
      <4>3. QED
        BY <2>2, <2>4, <3>2, <4>1, <4>2 DEF Taken
    <3>3. QED
      BY <2>3, <3>1, <3>2
  <2>8. QED
    BY <2>1, <2>4, <2>5, <2>6, <2>7 DEF Queued
<1>10. ASSUME NEW c \in Clients, Begin(c), c \in subs' PROVE Queued(c)'
  <2>1. /\ c \notin subs /\ pend'[c] = <<>> /\ queue'[c] = <<>> /\ c \notin todo'
        /\ UNCHANGED <<step, live>>
    BY <1>10 DEF Begin, SubsInv, Subscribed, workerVars
  <2>2. pc'[c] = "subscribed"
    BY <1>10, <2>1 DEF Begin
  <2>3. Put(c)' \in Nat
    BY <2>1 DEF Put, Owed, WorkerInv
  <2>4. QED
    BY <2>1, <2>2, <2>3 DEF Queued, Taken
<1>11. ASSUME NEW c \in Clients, SnapshotEvents(c), c \in subs PROVE Queued(c)'
  <2>1. /\ batch'[c] = {e \in 1..live : e > last[c]} /\ last'[c] = last[c]
        /\ UNCHANGED <<pend, queue, todo, subs, step, live>>
    BY <1>11 DEF SnapshotEvents, workerVars
  <2>2. Put(c)' = Put(c) /\ Taken(c)' = Taken(c)
    BY <2>1 DEF Put, Owed, Taken
  <2>3. Taken(c) <= live
    BY DEF Taken, Put
  <2>4. Taken(c) \in Int
    BY DEF Taken, Put
  <2>5. \A e \in (last'[c] + 1)..Taken(c)' : e \in batch'[c]
    BY <2>1, <2>2, <2>3, <2>4
  <2>6. QED
    BY <1>11, <2>1, <2>2, <2>5 DEF Queued, QueueInv
<1>12. ASSUME NEW c \in Clients, Replay(c), c \in subs PROVE Queued(c)'
  <2>1. PICK e \in batch[c] : NextOf(c, e) /\ Yield(c, e) /\ batch' = [batch EXCEPT ![c] = @ \ {e}]
    BY <1>12 DEF Replay
  <2>2. UNCHANGED <<pend, queue, todo, subs, step, live, pc>>
    BY <1>12 DEF Replay, workerVars
  <2>3. Put(c)' = Put(c) /\ Taken(c)' = Taken(c) /\ Taken(c) \in Int
    BY <2>2 DEF Put, Owed, Taken
  <2>4. last'[c] = e /\ batch'[c] = batch[c] \ {e} /\ e \in Nat /\ last[c] < e
    BY <2>1 DEF Yield, BatchInv
  <2>5. pc[c] # "subscribed"
    BY <1>12 DEF Replay
  <2>6. \A f \in (last[c] + 1)..Taken(c) : f \in batch[c]
    BY <1>12, <2>5 DEF QueueInv, Queued
  <2>7. \A f \in (last'[c] + 1)..Taken(c)' : f \in batch'[c]
    BY <2>3, <2>4, <2>6
  <2>8. QED
    BY <1>12, <2>2, <2>3, <2>7 DEF Queued, QueueInv
<1>13. ASSUME NEW c \in Clients, Replayed(c) \/ Keepalive(c), c \in subs PROVE Queued(c)'
  <2>1. UNCHANGED <<pend, queue, todo, subs, step, live, batch, last>> /\ pc[c] # "subscribed"
    BY <1>13 DEF Replayed, Keepalive, workerVars
  <2>2. Put(c)' = Put(c) /\ Taken(c)' = Taken(c)
    BY <2>1 DEF Put, Owed, Taken
  <2>3. QED
    BY <1>13, <2>1, <2>2 DEF Queued, QueueInv
<1>14. ASSUME NEW c \in Clients, Check(c), c \in subs' PROVE Queued(c)'
  <2>1. UNCHANGED <<pend, queue, todo, subs, step, live, batch, last>> /\ pc[c] # "subscribed"
    BY <1>14 DEF Check, Unsubscribe
  <2>2. Put(c)' = Put(c) /\ Taken(c)' = Taken(c)
    BY <2>1 DEF Put, Owed, Taken
  <2>3. QED
    BY <1>14, <2>1, <2>2 DEF Queued, QueueInv
<1>15. ASSUME NEW c \in Clients, Take(c), c \in subs' PROVE Queued(c)'
  <2>1. /\ pc[c] = "wait" /\ queue[c] # <<>> /\ queue' = [queue EXCEPT ![c] = Tail(@)]
        /\ UNCHANGED <<pend, todo, subs, step, live, batch>>
    BY <1>15 DEF Take, Unsubscribe
  <2>2. Queued(c) /\ batch[c] = {} /\ pc'[c] # "subscribed"
    BY <1>15, <2>1 DEF QueueInv, SubsInv, Take
  <2>3. Put(c)' = Put(c) /\ Taken(c)' = Taken(c) + 1 /\ Taken(c) \in Int
    BY <2>1 DEF Put, Owed, Taken
  <2>4. Head(queue[c]) = Taken(c) + 1
    BY <2>1, <2>2 DEF Queued
  <2>5. last'[c] >= Taken(c)'
    <3>1. IF Fresh(c, Head(queue[c])) THEN last'[c] = Head(queue[c]) ELSE last'[c] = last[c]
      BY <1>15 DEF Take, Yield
    <3>2. QED
      BY <2>3, <2>4, <3>1 DEF Fresh
  <2>6. ASSUME NEW i \in 1..Len(queue'[c]) PROVE queue'[c][i] = Taken(c)' + i
    <3>1. i + 1 \in 1..Len(queue[c]) /\ queue'[c][i] = queue[c][i + 1]
      BY <2>1
    <3>2. QED
      BY <2>2, <2>3, <3>1 DEF Queued
  <2>7. \A f \in (last'[c] + 1)..Taken(c)' : f \in batch'[c]
    <3>1. last'[c] \in Nat
      BY StreamTypesStep
    <3>2. QED
      BY <2>3, <2>5, <3>1
  <2>8. QED
    BY <2>1, <2>2, <2>3, <2>6, <2>7 DEF Queued
<1>16. ASSUME NEW c \in Clients, Connect(c) \/ ResponseEnds(c) \/ Drop(c) PROVE c \notin subs'
  BY <1>16 DEF Connect, ResponseEnds, Drop, Close, Unsubscribe, SubsInv, Subscribed
<1>17. ASSUME NEW c \in Clients, Receive(c), c \in subs' PROVE Queued(c)'
  <2>1. UNCHANGED <<pend, queue, todo, subs, step, live, batch, last, pc>>
    BY <1>17 DEF Receive, Close, Unsubscribe
  <2>2. QED
    BY <1>17, <2>1, QueuedFrame DEF QueueInv, Put, Owed
<1>18. ASSUME NEW c \in Clients,
              RunCallback(c) \/ Stream(c) \/ Connect(c) \/ Receive(c) \/ ResponseEnds(c) \/ Drop(c)
       PROVE  QueueInv'
  <2> SUFFICES ASSUME NEW d \in subs' PROVE Queued(d)'
    BY DEF QueueInv
  <2>1. d \in Clients
    BY QueueTypesStep
  <2>2. CASE d # c
    BY <1>8, <1>18, <2>1, <2>2
  <2>3. CASE d = c
    <3>1. ~Begin(c) => c \in subs
      BY <1>16, <1>18, <2>3 DEF Stream, RunCallback, SnapshotEvents, Replay, Replayed, Check, Take,
         Keepalive, Receive, Close, Unsubscribe, workerVars
    <3>2. QED
      BY <1>9, <1>10, <1>11, <1>12, <1>13, <1>14, <1>15, <1>16, <1>17, <1>18, <2>3, <3>1 DEF Stream
  <2>4. QED
    BY <2>2, <2>3
<1>19. QED
  <2>1. StoreEvent \/ Emitted \/ AppendEvent \/ SnapshotQueues \/ Restart \/ UNCHANGED <<step, live>>
    BY WorkerFrame DEF StartJob, StoreEventFails, WorkEnds, FinishRun, FinishRunFails, SetDone
  <2>2. QED
    BY <1>1, <1>2, <1>3, <1>4, <1>5, <1>6, <1>7, <1>18, <2>1, LoopFrame

------------------------------------------------------------------------------
(* What is replayed, sent and handed out.                                  *)

(* What the streams may hand out only grows, also when the process dies. *)
LEMMA HorizonStep ==
  TypeOK /\ WorkerInv /\ [Next]_vars => Horizon \in Nat /\ Horizon' \in Nat /\ Horizon <= Horizon'
<1> SUFFICES ASSUME TypeOK, WorkerInv, [Next]_vars
    PROVE  Horizon \in Nat /\ Horizon' \in Nat /\ Horizon <= Horizon'
  OBVIOUS
<1>1. /\ Len(log) \in Nat /\ Len(log') \in Nat /\ Len(log) <= Len(log')
      /\ live \in Nat /\ live' \in Nat
  <2>1. Len(log) \in Nat /\ Len(log) <= Len(log')
    BY LogFrame DEF TypeOK, StoreTypes, StoreEvent
  <2>2. live \in Nat /\ live' \in Nat /\ Len(log') \in Nat
    BY TypeStep DEF TypeOK, StoreTypes, WorkerTypes
  <2>3. QED
    BY <2>1, <2>2
<1>2. CASE Restart
  BY <1>1, <1>2 DEF Restart, Horizon, WorkerInv
<1>3. CASE AppendEvent
  BY <1>1, <1>3 DEF AppendEvent, Horizon
<1>4. CASE UNCHANGED <<known, live>>
  BY <1>1, <1>4 DEF Horizon
<1>5. QED
  BY <1>2, <1>3, <1>4, WorkerFrame DEF StartJob, StoreEvent, StoreEventFails, SnapshotQueues,
     Emitted, WorkEnds, FinishRun, FinishRunFails, SetDone

(* What a replay has left lies between `last` and the horizon. *)
LEMMA BatchStep == TypeOK /\ WorkerInv /\ SubsInv /\ BatchInv /\ [Next]_vars => BatchInv'
<1> SUFFICES ASSUME TypeOK, WorkerInv, SubsInv, BatchInv, [Next]_vars PROVE BatchInv'
  OBVIOUS
<1>1. rows' \subseteq 1..Len(log')
  <2>1. CASE StoreEvent
    <3>1. log' = Append(log, Emits[phase]) /\ rows' = rows \cup {Len(log) + 1}
      BY <2>1 DEF StoreEvent
    <3>2. Len(log') = Len(log) + 1
      <4>1. log \in Seq({"start", "data", "end", "error"})
        BY DEF TypeOK, StoreTypes
      <4>2. QED
        BY <3>1, <4>1
    <3>3. Len(log) \in Nat
      BY DEF TypeOK, StoreTypes
    <3>4. rows \subseteq 1..Len(log)
      BY DEF BatchInv
    <3>5. ASSUME NEW r \in rows' PROVE r \in 1..(Len(log) + 1)
      <4>1. r \in rows \/ r = Len(log) + 1
        BY <3>1
      <4>2. CASE r \in rows
        BY <3>3, <3>4, <4>2
      <4>3. QED
        BY <3>3, <4>1, <4>2
    <3>6. QED
      BY <3>2, <3>5
  <2>2. CASE ~StoreEvent
    BY <2>2, StoreFrame DEF BatchInv, storeVars, FinishRun, Restart, DeleteEvents, DeleteRun
  <2>3. QED
    BY <2>1, <2>2
<1>2. ASSUME NEW d \in Clients, batch'[d] = {} \/ (batch'[d] = batch[d] /\ last'[d] = last[d])
      PROVE  \A e \in batch'[d] : last'[d] < e /\ e <= Horizon'
  <2>1. batch[d] \subseteq Nat
    BY DEF TypeOK, StreamTypes
  <2>2. \A e \in batch[d] : last[d] < e /\ e <= Horizon
    BY DEF BatchInv
  <2>3. QED
    BY <1>2, <2>1, <2>2, HorizonStep
<1>3. ASSUME NEW d \in Clients PROVE \A e \in batch'[d] : last'[d] < e /\ e <= Horizon'
  <2>1. CASE UNCHANGED <<batch, last>> \/ Restart
    BY <1>2, <2>1 DEF Restart
  <2>2. ASSUME NEW c \in Clients, c # d,
               Stream(c) \/ Connect(c) \/ Receive(c) \/ ResponseEnds(c) \/ Drop(c)
        PROVE  batch'[d] = batch[d] /\ last'[d] = last[d]
    BY <2>2, Elsewhere DEF Same
  <2>3. CASE Begin(d)
    <3>1. last'[d] = last[d] /\ UNCHANGED <<log, live, known>>
      BY <2>3 DEF Begin, storeVars
    <3>2. CASE batch' = batch
      BY <1>2, <3>1, <3>2
    <3>3. CASE batch' # batch
      <4>1. (~known \/ done) /\ batch'[d] = Stored(d)
        BY <2>3, <3>3 DEF Begin, TypeOK, StreamTypes
      <4>2. Len(log) = Horizon'
        BY <3>1, <4>1, EmitsDomain DEF WorkerInv, Horizon, TypeOK, StoreTypes, WorkerTypes
      <4>3. \A e \in Stored(d) : last[d] < e /\ e <= Len(log)
        BY DEF Stored, BatchInv, TypeOK, StoreTypes, StreamTypes
      <4>4. QED
        BY <3>1, <4>1, <4>2, <4>3
    <3>4. QED
      BY <3>2, <3>3
  <2>4. CASE SnapshotEvents(d)
    <3>1. /\ batch'[d] = {e \in 1..live : e > last[d]} /\ last'[d] = last[d]
          /\ UNCHANGED <<log, live, known>>
      BY <2>4 DEF SnapshotEvents, storeVars, TypeOK, StreamTypes
    <3>2. known /\ live \in Nat /\ last[d] \in Nat
      BY <2>4 DEF SnapshotEvents, SubsInv, Subscribed, TypeOK, WorkerTypes, StreamTypes
    <3>3. QED
      BY <3>1, <3>2 DEF Horizon
  <2>5. CASE Replay(d)
    <3>1. PICK e \in batch[d] : NextOf(d, e) /\ Yield(d, e) /\ batch' = [batch EXCEPT ![d] = @ \ {e}]
      BY <2>5 DEF Replay
    <3>2. last'[d] = e /\ batch'[d] = batch[d] \ {e} /\ batch[d] \subseteq Nat
      BY <3>1 DEF Yield, TypeOK, StreamTypes
    <3>3. \A f \in batch'[d] : e < f /\ f <= Horizon
      BY <3>1, <3>2 DEF NextOf, BatchInv
    <3>4. QED
      BY <3>2, <3>3, HorizonStep
  <2>6. CASE Replayed(d) \/ Keepalive(d) \/ Check(d) \/ ResponseEnds(d)
    BY <1>2, <2>6 DEF Replayed, Keepalive, Check, ResponseEnds
  <2>7. CASE Take(d) \/ Connect(d)
    <3>1. batch'[d] = {}
      BY <2>7 DEF Take, Connect, SubsInv
    <3>2. QED
      BY <1>2, <3>1
  <2>8. CASE Receive(d)
    <3>1. batch'[d] = {} \/ (batch'[d] = batch[d] /\ last'[d] = last[d])
      BY <2>8 DEF Receive, Close, TypeOK, StreamTypes
    <3>2. QED
      BY <1>2, <3>1
  <2>9. CASE Drop(d)
    <3>1. batch'[d] = {}
      BY <2>9 DEF Drop, Close, TypeOK, StreamTypes
    <3>2. QED
      BY <1>2, <3>1
  <2>10. QED
    BY <1>2, <2>1, <2>2, <2>3, <2>4, <2>5, <2>6, <2>7, <2>8, <2>9, StreamFrame DEF Stream
<1>4. QED
  BY <1>1, <1>3 DEF BatchInv

(* What client d was handed and is sent stays in order while nothing of it *)
(* moves.                                                                  *)
LEMMA OrderedFrame ==
  ASSUME TypeOK, WorkerInv, [Next]_vars, NEW d \in Clients, Ordered(d), seen'[d] = seen[d],
         \/ wire'[d] = wire[d] /\ last'[d] = last[d] /\ (pc'[d] = "off" \/ pc[d] # "off")
         \/ wire'[d] = <<>> /\ pc'[d] = "off"
  PROVE  Ordered(d)'
<1> USE DEF TypeOK, StreamTypes, ClientTypes
<1>1. Horizon \in Nat /\ Horizon' \in Nat /\ Horizon <= Horizon'
  BY HorizonStep
<1>2. last[d] \in Nat /\ last'[d] \in Nat /\ seen[d] \in Seq(Nat) /\ wire[d] \in Seq(Nat)
  BY StreamTypesStep
<1>3. \A i \in 1..Len(seen[d]) : i <= seen[d][i] /\ seen[d][i] <= Horizon'
  BY <1>1, <1>2 DEF Ordered
<1>4. CASE wire'[d] = wire[d] /\ last'[d] = last[d] /\ (pc'[d] = "off" \/ pc[d] # "off")
  BY <1>1, <1>2, <1>3, <1>4 DEF Ordered
<1>5. CASE wire'[d] = <<>> /\ pc'[d] = "off"
  BY <1>1, <1>2, <1>3, <1>5 DEF Ordered
<1>6. QED
  BY <1>4, <1>5

(* An event later than all before is yielded. *)
LEMMA OrderedYield ==
  ASSUME TypeOK, WorkerInv, [Next]_vars, NEW d \in Clients, Ordered(d), seen'[d] = seen[d],
         NEW e \in Nat, Yield(d, e), last[d] < e, e <= Horizon, pc[d] # "off"
  PROVE  Ordered(d)'
<1> USE DEF TypeOK, StreamTypes, ClientTypes
<1>1. Horizon \in Nat /\ Horizon' \in Nat /\ Horizon <= Horizon'
  BY HorizonStep
<1>2. last[d] \in Nat /\ seen[d] \in Seq(Nat) /\ wire[d] \in Seq(Nat)
  OBVIOUS
<1>3. wire'[d] = Append(wire[d], e) /\ last'[d] = e
  BY DEF Yield
<1>4. /\ Len(wire'[d]) = Len(wire[d]) + 1
      /\ \A i \in 1..Len(wire[d]) : wire'[d][i] = wire[d][i]
      /\ wire'[d][Len(wire[d]) + 1] = e
  BY <1>2, <1>3
<1>5. Len(seen[d]) + Len(wire[d]) < e
  BY <1>2 DEF Ordered
<1>6. \A i \in 1..Len(seen[d]) : i <= seen[d][i] /\ seen[d][i] <= Horizon' /\ seen[d][i] < e
  BY <1>1, <1>2 DEF Ordered
<1>7. ASSUME NEW i \in 1..Len(wire'[d])
      PROVE  Len(seen[d]) + i <= wire'[d][i] /\ wire'[d][i] <= e
  <2>1. CASE i \in 1..Len(wire[d])
    <3>1. wire'[d][i] = wire[d][i] /\ wire[d][i] \in Nat
      BY <1>2, <1>4, <2>1
    <3>2. Len(seen[d]) + i <= wire[d][i] /\ wire[d][i] <= last[d]
      BY <2>1 DEF Ordered
    <3>3. QED
      BY <1>2, <3>1, <3>2
  <2>2. CASE i = Len(wire[d]) + 1
    BY <1>2, <1>4, <1>5, <2>2
  <2>3. QED
    BY <1>2, <1>4, <2>1, <2>2
<1>8. ASSUME NEW i \in 1..Len(wire'[d]), NEW j \in 1..Len(wire'[d]), i < j
      PROVE  wire'[d][i] < wire'[d][j]
  <2>1. i \in 1..Len(wire[d]) /\ wire'[d][i] = wire[d][i]
    BY <1>2, <1>4, <1>8
  <2>2. CASE j \in 1..Len(wire[d])
    BY <1>4, <1>8, <2>1, <2>2 DEF Ordered
  <2>3. CASE j = Len(wire[d]) + 1
    <3>1. wire[d][i] <= last[d] /\ wire[d][i] \in Nat
      BY <1>2, <2>1 DEF Ordered
    <3>2. QED
      BY <1>2, <1>4, <2>1, <2>3, <3>1
  <2>4. QED
    BY <1>2, <1>4, <2>2, <2>3
<1>9. ASSUME NEW i \in 1..Len(seen[d]), NEW j \in 1..Len(wire'[d])
      PROVE  seen[d][i] < wire'[d][j]
  <2>1. CASE j \in 1..Len(wire[d])
    BY <1>4, <2>1 DEF Ordered
  <2>2. CASE j = Len(wire[d]) + 1
    BY <1>4, <1>6, <2>2
  <2>3. QED
    BY <1>2, <1>4, <2>1, <2>2
<1>10. \A i, j \in 1..Len(seen[d]) : i < j => seen[d][i] < seen[d][j]
  BY DEF Ordered
<1>11. /\ Len(seen[d]) + Len(wire'[d]) <= e /\ e <= Horizon'
       /\ \A i \in 1..Len(seen[d]) : seen[d][i] <= e
  <2>1. Len(seen[d]) + Len(wire'[d]) <= e
    BY <1>2, <1>4, <1>5
  <2>2. \A i \in 1..Len(seen[d]) : seen[d][i] <= e
    BY <1>2, <1>6
  <2>3. QED
    BY <1>1, <2>1, <2>2
<1>12. QED
  BY <1>3, <1>6, <1>7, <1>8, <1>9, <1>10, <1>11 DEF Ordered

(* A client takes the first event on the wire. *)
LEMMA OrderedReceive ==
  ASSUME TypeOK, WorkerInv, SubsInv, [Next]_vars, NEW d \in Clients, Ordered(d), Receive(d)
  PROVE  Ordered(d)' /\ seen'[d] = Append(seen[d], Head(wire[d]))
<1> USE DEF TypeOK, StreamTypes, ClientTypes
<1>1. Horizon \in Nat /\ Horizon' \in Nat /\ Horizon <= Horizon'
  BY HorizonStep
<1>2. last[d] \in Nat /\ seen[d] \in Seq(Nat) /\ wire[d] \in Seq(Nat) /\ wire[d] # <<>> /\ last'[d] = last[d]
  BY DEF Receive
<1>3. PICK e \in Nat : e = Head(wire[d]) /\ e = wire[d][1] /\ 1 \in 1..Len(wire[d])
  <2>1. Head(wire[d]) \in Nat /\ Head(wire[d]) = wire[d][1] /\ 1 \in 1..Len(wire[d])
    BY <1>2
  <2>2. QED
    BY <2>1
<1>4. pc[d] # "off"
  BY <1>2 DEF SubsInv
<1>5. /\ \A i \in 1..Len(seen[d]) : seen[d][i] < e
      /\ Len(seen[d]) + 1 <= e /\ e <= last[d] /\ last[d] <= Horizon
  BY <1>3, <1>4 DEF Ordered
<1>6. seen'[d] = Append(seen[d], e)
  <2>1. ~(e <= LastSeen(d))
    <3>1. CASE seen[d] = <<>>
      BY <1>2, <1>5, <3>1 DEF LastSeen
    <3>2. CASE seen[d] # <<>>
      <4>1. Len(seen[d]) \in 1..Len(seen[d]) /\ seen[d][Len(seen[d])] \in Nat
        BY <1>2, <3>2
      <4>2. LastSeen(d) = seen[d][Len(seen[d])] /\ seen[d][Len(seen[d])] < e
        BY <1>5, <3>2, <4>1 DEF LastSeen
      <4>3. QED
        BY <4>1, <4>2
    <3>3. QED
      BY <3>1, <3>2
  <2>2. QED
    BY <1>3, <2>1 DEF Receive
<1>7. /\ Len(seen'[d]) = Len(seen[d]) + 1
      /\ \A i \in 1..Len(seen[d]) : seen'[d][i] = seen[d][i]
      /\ seen'[d][Len(seen[d]) + 1] = e
  BY <1>2, <1>3, <1>6
<1>8. ASSUME NEW i \in 1..Len(seen'[d])
      PROVE  i <= seen'[d][i] /\ seen'[d][i] <= Horizon' /\ seen'[d][i] <= e
  <2>1. CASE i \in 1..Len(seen[d])
    <3>1. i <= seen[d][i] /\ seen[d][i] <= Horizon /\ seen[d][i] < e /\ seen[d][i] \in Nat
      BY <1>2, <1>5, <2>1 DEF Ordered
    <3>2. seen[d][i] <= Horizon'
      BY <1>1, <3>1
    <3>3. QED
      BY <1>7, <2>1, <3>1, <3>2
  <2>2. CASE i = Len(seen[d]) + 1
    BY <1>1, <1>2, <1>3, <1>5, <1>7, <2>2
  <2>3. QED
    BY <1>2, <1>7, <2>1, <2>2
<1>9. ASSUME NEW i \in 1..Len(seen'[d]), NEW j \in 1..Len(seen'[d]), i < j
      PROVE  seen'[d][i] < seen'[d][j]
  <2>1. i \in 1..Len(seen[d]) /\ seen'[d][i] = seen[d][i]
    <3>1. Len(seen[d]) \in Nat /\ i \in 1..(Len(seen[d]) + 1) /\ j \in 1..(Len(seen[d]) + 1)
      BY <1>2, <1>7
    <3>2. i \in 1..Len(seen[d])
      BY <1>9, <3>1
    <3>3. QED
      BY <1>7, <3>2
  <2>2. CASE j \in 1..Len(seen[d])
    BY <1>7, <1>9, <2>1, <2>2 DEF Ordered
  <2>3. CASE j = Len(seen[d]) + 1
    BY <1>5, <1>7, <2>1, <2>3
  <2>4. QED
    BY <1>2, <1>7, <2>2, <2>3
<1>a. /\ \A i \in 1..Len(seen'[d]) : i <= seen'[d][i] /\ seen'[d][i] <= Horizon'
      /\ \A i, j \in 1..Len(seen'[d]) : i < j => seen'[d][i] < seen'[d][j]
  BY <1>8, <1>9
<1>10. wire'[d] = Tail(wire[d]) \/ (wire'[d] = <<>> /\ pc'[d] = "off")
  BY DEF Receive, Close
<1>11. pc'[d] = "off" \/ (wire'[d] = Tail(wire[d]) /\ pc'[d] = pc[d])
  BY DEF Receive, Close
<1>12. ASSUME wire'[d] = Tail(wire[d]) PROVE Ordered(d)'
  <2>1. /\ Len(wire'[d]) = Len(wire[d]) - 1
        /\ \A i \in 1..Len(wire'[d]) : i + 1 \in 1..Len(wire[d]) /\ wire'[d][i] = wire[d][i + 1]
    BY <1>2, <1>12
  <2>2. ASSUME NEW i \in 1..Len(wire'[d])
        PROVE  Len(seen'[d]) + i <= wire'[d][i] /\ wire'[d][i] <= last'[d]
    <3>1. /\ Len(seen[d]) + (i + 1) <= wire[d][i + 1] /\ wire[d][i + 1] <= last[d]
          /\ wire[d][i + 1] \in Nat
      BY <1>2, <2>1 DEF Ordered
    <3>2. Len(seen'[d]) + i = Len(seen[d]) + (i + 1)
      BY <1>2, <1>7, <2>1
    <3>3. QED
      BY <1>2, <2>1, <3>1, <3>2
  <2>3. ASSUME NEW i \in 1..Len(wire'[d]), NEW j \in 1..Len(wire'[d]), i < j
        PROVE  wire'[d][i] < wire'[d][j]
    <3>1. i + 1 < j + 1
      BY <2>3
    <3>2. QED
      BY <2>1, <3>1 DEF Ordered
  <2>4. ASSUME NEW i \in 1..Len(seen'[d]), NEW j \in 1..Len(wire'[d])
        PROVE  seen'[d][i] < wire'[d][j]
    <3>1. e < wire[d][j + 1] /\ wire[d][j + 1] \in Nat
      <4>1. j + 1 \in 1..Len(wire[d]) /\ 1 < j + 1
        BY <2>1
      <4>2. wire[d][1] < wire[d][j + 1]
        BY <1>3, <4>1 DEF Ordered
      <4>3. QED
        BY <1>2, <1>3, <4>1, <4>2
    <3>2. seen'[d][i] <= e /\ seen'[d][i] \in Nat
      <4>1. seen'[d] \in Seq(Nat)
        BY <1>2, <1>3, <1>6
      <4>2. QED
        BY <1>8, <4>1
    <3>3. wire'[d][j] = wire[d][j + 1]
      BY <2>1
    <3>4. e \in Nat
      BY <1>3
    <3>5. wire'[d][j] \in Nat /\ e < wire'[d][j]
      BY <3>1, <3>3
    <3>6. QED
      BY <3>2, <3>4, <3>5
  <2>5. /\ Len(seen'[d]) + Len(wire'[d]) <= last'[d] \/ pc'[d] = "off"
        /\ last'[d] <= Horizon'
        /\ \A i \in 1..Len(seen'[d]) : seen'[d][i] <= last'[d]
    <3>1. Len(seen[d]) + Len(wire[d]) <= last[d]
      BY <1>4 DEF Ordered
    <3>2. Len(seen'[d]) + Len(wire'[d]) <= last'[d]
      BY <1>2, <1>7, <2>1, <3>1
    <3>3. last'[d] <= Horizon'
      BY <1>1, <1>2, <1>5
    <3>4. ASSUME NEW i \in 1..Len(seen'[d]) PROVE seen'[d][i] <= last'[d]
      <4>1. seen'[d] \in Seq(Nat)
        BY <1>2, <1>3, <1>6
      <4>2. seen'[d][i] \in Nat /\ seen'[d][i] <= e
        BY <1>8, <4>1
      <4>3. QED
        BY <1>2, <1>5, <4>2
    <3>5. QED
      BY <3>2, <3>3, <3>4
  <2>6. /\ \A i \in 1..Len(wire'[d]) : Len(seen'[d]) + i <= wire'[d][i] /\ wire'[d][i] <= last'[d]
        /\ \A i, j \in 1..Len(wire'[d]) : i < j => wire'[d][i] < wire'[d][j]
        /\ \A i \in 1..Len(seen'[d]), j \in 1..Len(wire'[d]) : seen'[d][i] < wire'[d][j]
    BY <2>2, <2>3, <2>4
  <2>7. QED
    BY <1>a, <2>5, <2>6 DEF Ordered
<1>13. ASSUME wire'[d] = <<>> /\ pc'[d] = "off" PROVE Ordered(d)'
  <2>1. 1..Len(wire'[d]) = {}
    BY <1>13
  <2>2. QED
    BY <1>a, <1>13, <2>1 DEF Ordered
<1>14. QED
  BY <1>3, <1>6, <1>10, <1>12, <1>13

(* What heads c's queue is the first event put that c has not taken, and   *)
(* the replay left nothing of what came before it.                         *)
LEMMA QueueHead ==
  ASSUME TypeOK, WorkerInv, SubsInv, QueueInv, NEW c \in Clients, pc[c] = "wait", queue[c] # <<>>
  PROVE  /\ known /\ batch[c] = {}
         /\ Head(queue[c]) \in Nat /\ Head(queue[c]) <= live /\ Head(queue[c]) <= last[c] + 1
<1> USE DEF TypeOK, WorkerTypes, QueueTypes, StreamTypes
<1>1. c \in subs /\ known /\ batch[c] = {}
  BY DEF SubsInv, Subscribed
<1>2. Queued(c) /\ Taken(c) \in Int /\ Put(c) \in Int /\ Put(c) <= live
  BY <1>1 DEF QueueInv, Put, Taken
<1>3. 1 \in 1..Len(queue[c]) /\ Head(queue[c]) = queue[c][1] /\ Head(queue[c]) \in Nat
  OBVIOUS
<1>4. Head(queue[c]) = Taken(c) + 1
  BY <1>2, <1>3 DEF Queued
<1>5. Taken(c) + 1 <= live
  <2>1. Len(queue[c]) >= 1 /\ Len(pend[c]) \in Nat /\ Len(queue[c]) \in Nat
    BY <1>3
  <2>2. QED
    BY <1>2, <2>1 DEF Taken
<1>6. Taken(c) <= last[c]
  <2>1. \A e \in (last[c] + 1)..Taken(c) : e \in {}
    BY <1>1, <1>2 DEF Queued
  <2>2. last[c] \in Nat
    OBVIOUS
  <2>3. Taken(c) \notin (last[c] + 1)..Taken(c)
    BY <2>1
  <2>4. QED
    BY <1>2, <2>2, <2>3
<1>7. QED
  BY <1>1, <1>2, <1>3, <1>4, <1>5, <1>6

(* What each client was handed and is sent stays in order. *)
LEMMA OrderStep ==
  TypeOK /\ WorkerInv /\ SubsInv /\ QueueInv /\ BatchInv /\ OrderInv /\ [Next]_vars => OrderInv'
<1> SUFFICES ASSUME TypeOK, WorkerInv, SubsInv, QueueInv, BatchInv, OrderInv, [Next]_vars,
                    NEW d \in Clients
             PROVE  Ordered(d)'
  BY DEF OrderInv
<1>0. Ordered(d)
  BY DEF OrderInv
<1>1. CASE UNCHANGED <<pc, wire, last, seen>>
  BY <1>0, <1>1, OrderedFrame
<1>2. CASE Restart
  BY <1>0, <1>2, OrderedFrame DEF Restart
<1>3. ASSUME NEW c \in Clients, c # d,
             RunCallback(c) \/ Stream(c) \/ Connect(c) \/ Receive(c) \/ ResponseEnds(c) \/ Drop(c)
      PROVE  Ordered(d)'
  BY <1>0, <1>3, Elsewhere, OrderedFrame DEF Same
<1>4. CASE Begin(d) \/ SnapshotEvents(d) \/ Replayed(d) \/ Check(d) \/ Keepalive(d)
  <2>1. UNCHANGED <<wire, last, seen>> /\ pc[d] # "off"
    BY <1>4 DEF Begin, SnapshotEvents, Replayed, Check, Keepalive, clientVars
  <2>2. QED
    BY <1>0, <2>1, OrderedFrame
<1>5. CASE Replay(d)
  <2>1. PICK e \in batch[d] : Yield(d, e)
    BY <1>5 DEF Replay
  <2>2. e \in Nat /\ last[d] < e /\ e <= Horizon
    BY <2>1 DEF BatchInv, TypeOK, StreamTypes
  <2>3. seen' = seen /\ pc[d] # "off"
    BY <1>5 DEF Replay, clientVars
  <2>4. QED
    BY <1>0, <2>1, <2>2, <2>3, OrderedYield
<1>6. CASE Take(d)
  <2>1. pc[d] = "wait" /\ queue[d] # <<>> /\ seen' = seen
    BY <1>6 DEF Take, clientVars
  <2>2. CASE Fresh(d, Head(queue[d]))
    <3>1. Yield(d, Head(queue[d]))
      BY <1>6, <2>2 DEF Take
    <3>2. Head(queue[d]) \in Nat /\ last[d] < Head(queue[d]) /\ Head(queue[d]) <= Horizon
      <4>1. known /\ Head(queue[d]) \in Nat /\ Head(queue[d]) <= live
        BY <2>1, QueueHead
      <4>2. last[d] < Head(queue[d])
        BY <2>2, <4>1 DEF Fresh, TypeOK, StreamTypes
      <4>3. QED
        BY <4>1, <4>2 DEF Horizon
    <3>3. QED
      BY <1>0, <2>1, <3>1, <3>2, OrderedYield
  <2>3. CASE ~Fresh(d, Head(queue[d]))
    <3>1. UNCHANGED <<wire, last>>
      BY <1>6, <2>3 DEF Take
    <3>2. QED
      BY <1>0, <2>1, <3>1, OrderedFrame
  <2>4. QED
    BY <2>2, <2>3
<1>7. CASE Connect(d)
  <2>1. wire[d] = <<>> /\ wire'[d] = <<>> /\ seen'[d] = seen[d] /\ pc[d] = "off"
    BY <1>7 DEF Connect, SubsInv
  <2>2. CASE status = "deleted"
    <3>1. last' = last /\ pc' = pc
      BY <1>7, <2>2 DEF Connect
    <3>2. QED
      BY <1>0, <2>1, <3>1, OrderedFrame
  <2>3. CASE status # "deleted"
    <3>1. last'[d] = LastSeen(d)
      BY <1>7, <2>3 DEF Connect, TypeOK, StreamTypes
    <3>2. Horizon \in Nat /\ Horizon' \in Nat /\ Horizon <= Horizon'
      BY HorizonStep
    <3>3. seen[d] \in Seq(Nat)
      BY DEF TypeOK, ClientTypes
    <3>4. \A i \in 1..Len(seen[d]) : i <= seen[d][i] /\ seen[d][i] <= Horizon'
      BY <1>0, <3>2, <3>3 DEF Ordered
    <3>5. /\ Len(seen[d]) <= LastSeen(d) /\ LastSeen(d) <= Horizon'
          /\ \A i \in 1..Len(seen[d]) : seen[d][i] <= LastSeen(d)
      <4>1. CASE seen[d] = <<>>
        BY <3>2, <4>1 DEF LastSeen
      <4>2. CASE seen[d] # <<>>
        <5>1. LastSeen(d) = seen[d][Len(seen[d])] /\ Len(seen[d]) \in 1..Len(seen[d])
          BY <3>3, <4>2 DEF LastSeen
        <5>2. \A i \in 1..Len(seen[d]) : seen[d][i] <= LastSeen(d)
          <6> SUFFICES ASSUME NEW i \in 1..Len(seen[d]) PROVE seen[d][i] <= LastSeen(d)
            OBVIOUS
          <6>1. CASE i < Len(seen[d])
            <7>1. seen[d][i] < LastSeen(d) /\ seen[d][i] \in Nat /\ LastSeen(d) \in Nat
              BY <1>0, <3>3, <5>1, <6>1 DEF Ordered
            <7>2. QED
              BY <7>1
          <6>2. CASE i = Len(seen[d])
            BY <3>3, <5>1, <6>2
          <6>3. QED
            BY <3>3, <6>1, <6>2
        <5>3. QED
          BY <3>4, <5>1, <5>2
      <4>3. QED
        BY <4>1, <4>2
    <3>6. \A i, j \in 1..Len(seen[d]) : i < j => seen[d][i] < seen[d][j]
      BY <1>0 DEF Ordered
    <3>7. Len(wire'[d]) = 0 /\ 1..Len(wire'[d]) = {} /\ Len(seen[d]) + 0 = Len(seen[d])
      BY <2>1, <3>3
    <3>8. QED
      BY <2>1, <3>1, <3>4, <3>5, <3>6, <3>7 DEF Ordered
  <2>4. QED
    BY <2>2, <2>3
<1>8. CASE Receive(d)
  BY <1>0, <1>8, OrderedReceive
<1>9. CASE ResponseEnds(d)
  <2>1. UNCHANGED <<wire, last, seen>> /\ pc'[d] = "off"
    BY <1>9 DEF ResponseEnds, TypeOK, StreamTypes
  <2>2. QED
    BY <1>0, <2>1, OrderedFrame
<1>10. CASE Drop(d)
  <2>1. wire'[d] = <<>> /\ pc'[d] = "off" /\ seen' = seen
    BY <1>10 DEF Drop, Close, TypeOK, StreamTypes
  <2>2. QED
    BY <1>0, <2>1, OrderedFrame
<1>11. QED
  <2>1. CASE SnapshotQueues \/ \E c \in Clients : Notify(c) \/ RunCallback(c)
    BY <1>1, <2>1 DEF SnapshotQueues, Notify, RunCallback, loopVars, clientVars
  <2>2. CASE UNCHANGED <<loopVars, clientVars, todo, known>>
    BY <1>1, <2>2 DEF loopVars, clientVars
  <2>3. QED
    BY <1>2, <1>3, <1>4, <1>5, <1>6, <1>7, <1>8, <1>9, <1>10, <2>1, <2>2, LoopFrame DEF Stream

(* A step that leaves d's stream and what it was handed alone, or closes it. *)
LEMMA SeamlessFrame ==
  ASSUME NEW d \in Clients, Seamless(d), seen'[d] = seen[d],
         \/ /\ wire'[d] = wire[d] /\ last'[d] = last[d] /\ (pc'[d] = "off" \/ pc[d] # "off")
            /\ batch'[d] = batch[d]
         \/ wire'[d] = <<>> /\ pc'[d] = "off" /\ batch'[d] = {}
  PROVE  Seamless(d)'
<1>1. CASE wire'[d] = <<>> /\ pc'[d] = "off" /\ batch'[d] = {}
  <2>1. 1..Len(wire'[d]) = {}
    BY <1>1
  <2>2. QED
    BY <1>1, <2>1 DEF Seamless
<1>2. CASE ~(wire'[d] = <<>> /\ pc'[d] = "off" /\ batch'[d] = {})
  <2>1. UNCHANGED <<wire[d], last[d], batch[d]>> /\ (pc'[d] = "off" \/ pc[d] # "off")
    BY <1>2
  <2>2. /\ \A i \in 1..Len(seen'[d]) : seen'[d][i] = i
        /\ \A i \in 1..Len(wire'[d]) : wire'[d][i] = Len(seen'[d]) + i
    BY <2>1 DEF Seamless
  <2>3. \A e \in batch'[d] : \A f \in (last'[d] + 1)..e : f \in batch'[d]
    BY <2>1 DEF Seamless
  <2>4. pc'[d] # "off" => last'[d] = Len(seen'[d]) + Len(wire'[d])
    BY <2>1 DEF Seamless
  <2>5. QED
    BY <2>2, <2>3, <2>4 DEF Seamless
<1>3. QED
  BY <1>1, <1>2

(* A replayed or taken event is yielded: it is the one after the last. *)
LEMMA SeamlessYield ==
  ASSUME TypeOK, NEW d \in Clients, Seamless(d), seen'[d] = seen[d], pc[d] # "off",
         Yield(d, last[d] + 1), batch'[d] = batch[d] \ {last[d] + 1}
  PROVE  Seamless(d)'
<1> USE DEF TypeOK, StreamTypes, ClientTypes
<1>1. last[d] \in Nat /\ seen[d] \in Seq(Nat) /\ wire[d] \in Seq(Nat) /\ batch[d] \subseteq Nat
  OBVIOUS
<1>2. wire'[d] = Append(wire[d], last[d] + 1) /\ last'[d] = last[d] + 1
  BY DEF Yield
<1>3. last[d] = Len(seen[d]) + Len(wire[d])
  BY DEF Seamless
<1>4. ASSUME NEW i \in 1..Len(wire'[d]) PROVE wire'[d][i] = Len(seen[d]) + i
  <2>1. Len(wire'[d]) = Len(wire[d]) + 1
    BY <1>1, <1>2
  <2>2. CASE i \in 1..Len(wire[d])
    BY <1>1, <1>2, <2>2 DEF Seamless
  <2>3. CASE i = Len(wire[d]) + 1
    BY <1>1, <1>2, <1>3, <2>3
  <2>4. QED
    BY <1>1, <2>1, <2>2, <2>3
<1>5. last'[d] = Len(seen[d]) + Len(wire'[d])
  BY <1>1, <1>2, <1>3
<1>6. ASSUME NEW e \in batch'[d], NEW f \in (last'[d] + 1)..e PROVE f \in batch'[d]
  <2>1. e \in batch[d] /\ e \in Nat /\ f \in (last[d] + 1)..e /\ f # last[d] + 1
    BY <1>1, <1>2
  <2>2. QED
    BY <2>1 DEF Seamless
<1>7. QED
  BY <1>4, <1>5, <1>6 DEF Seamless

(* Without a deletion nothing is left out. *)
LEMMA SeamStep ==
  ASSUME TypeOK, BudgetInv, WorkerInv, SubsInv, QueueInv, BatchInv, OrderInv, SeamInv, [Next]_vars
  PROVE  SeamInv'
<1> SUFFICES ASSUME Untouched("delete")'
             PROVE  rows' = 1..Len(log') /\ \A d \in Clients : Seamless(d)'
  BY BudgetAssumption DEF SeamInv, Untouched
<1>1. Untouched("delete") /\ ~DeleteEvents
  <2>1. "delete" \in Bounded /\ budget \in [Bounded -> Nat] /\ Budget \in [Bounded -> Nat]
    BY BudgetAssumption DEF Bounded, TypeOK, ClientTypes
  <2>2. budget["delete"] <= Budget["delete"] /\ budget'["delete"] = Budget["delete"]
    BY <2>1 DEF BudgetInv, Untouched
  <2>3. ~Spend("delete")
    BY <2>1, <2>2 DEF Spend
  <2>4. UNCHANGED budget \/ \E b \in Bounded \ {"delete"} : Spend(b)
    BY <2>3, BudgetFrame
  <2>5. budget'["delete"] = budget["delete"]
    BY <2>1, <2>4 DEF Spend
  <2>6. QED
    BY <2>2, <2>3, <2>5 DEF Untouched, DeleteEvents
<1>2. rows = 1..Len(log) /\ \A d \in Clients : Seamless(d)
  BY <1>1 DEF SeamInv
<1>3. rows' = 1..Len(log')
  <2>1. Len(log) \in Nat
    BY DEF TypeOK, StoreTypes
  <2>2. CASE StoreEvent
    <3>1. log' = Append(log, Emits[phase]) /\ rows' = rows \cup {Len(log) + 1}
      BY <2>2 DEF StoreEvent
    <3>2. Len(log') = Len(log) + 1
      <4>1. log \in Seq({"start", "data", "end", "error"})
        BY DEF TypeOK, StoreTypes
      <4>2. QED
        BY <3>1, <4>1
    <3>3. 1..(Len(log) + 1) = 1..Len(log) \cup {Len(log) + 1}
      BY <2>1
    <3>4. QED
      BY <1>2, <3>1, <3>2, <3>3
  <2>3. CASE ~StoreEvent
    BY <1>1, <1>2, <2>3, StoreFrame DEF storeVars, FinishRun, Restart, DeleteRun
  <2>4. QED
    BY <2>2, <2>3
<1>4. ASSUME NEW d \in Clients PROVE Seamless(d)'
  <2> USE DEF TypeOK, StreamTypes, ClientTypes
  <2>0. Seamless(d) /\ Ordered(d)
    BY <1>2 DEF OrderInv
  <2>1. CASE UNCHANGED <<pc, batch, wire, last, seen>>
    BY <2>0, <2>1, SeamlessFrame
  <2>2. CASE Restart
    BY <2>0, <2>2, SeamlessFrame DEF Restart
  <2>3. ASSUME NEW c \in Clients, c # d,
               RunCallback(c) \/ Stream(c) \/ Connect(c) \/ Receive(c) \/ ResponseEnds(c) \/ Drop(c)
        PROVE  Seamless(d)'
    BY <2>0, <2>3, Elsewhere, SeamlessFrame DEF Same
  <2>4. ASSUME NEW n \in Nat, batch'[d] = {e \in 1..n : e > last[d]}, UNCHANGED <<wire, last, seen>>,
               pc[d] # "off"
        PROVE  Seamless(d)'
    <3>1. last[d] \in Nat
      OBVIOUS
    <3>2. ASSUME NEW e \in batch'[d], NEW f \in (last'[d] + 1)..e PROVE f \in batch'[d]
      BY <2>4, <3>1
    <3>3. QED
      BY <2>0, <2>4, <3>2 DEF Seamless
  <2>5. CASE Begin(d)
    <3>1. UNCHANGED <<wire, last, seen>> /\ pc[d] # "off"
      BY <2>5 DEF Begin, clientVars
    <3>2. batch' = batch \/ batch'[d] = {e \in 1..Len(log) : e > last[d]}
      BY <1>2, <2>5 DEF Begin, Stored
    <3>3. Len(log) \in Nat
      BY DEF StoreTypes
    <3>4. QED
      BY <2>0, <2>4, <3>1, <3>2, <3>3, SeamlessFrame
  <2>6. CASE SnapshotEvents(d)
    <3>1. /\ UNCHANGED <<wire, last, seen>> /\ pc[d] # "off"
          /\ batch'[d] = {e \in 1..live : e > last[d]}
      BY <2>6 DEF SnapshotEvents, clientVars
    <3>2. QED
      BY <2>4, <3>1 DEF WorkerTypes
  <2>7. CASE Replayed(d) \/ Check(d) \/ Keepalive(d)
    <3>1. UNCHANGED <<wire, last, seen, batch>> /\ pc[d] # "off"
      BY <2>7 DEF Replayed, Check, Keepalive, clientVars
    <3>2. QED
      BY <2>0, <3>1, SeamlessFrame
  <2>8. CASE Replay(d)
    <3>1. PICK e \in batch[d] : NextOf(d, e) /\ Yield(d, e) /\ batch' = [batch EXCEPT ![d] = @ \ {e}]
      BY <2>8 DEF Replay
    <3>2. e \in Nat /\ last[d] \in Nat /\ last[d] < e
      BY <3>1 DEF BatchInv
    <3>3. last[d] + 1 \in batch[d]
      BY <2>0, <3>1, <3>2 DEF Seamless
    <3>4. e = last[d] + 1
      BY <3>1, <3>2, <3>3 DEF NextOf
    <3>5. seen' = seen /\ pc[d] # "off"
      BY <2>8 DEF Replay, clientVars
    <3>6. QED
      BY <2>0, <3>1, <3>4, <3>5, SeamlessYield
  <2>9. CASE Take(d)
    <3>1. pc[d] = "wait" /\ queue[d] # <<>> /\ seen' = seen /\ batch' = batch
      BY <2>9 DEF Take, clientVars
    <3>2. batch[d] = {} /\ Head(queue[d]) \in Nat /\ Head(queue[d]) <= last[d] + 1 /\ last[d] \in Nat
      BY <3>1, QueueHead
    <3>3. CASE Fresh(d, Head(queue[d]))
      <4>1. Head(queue[d]) = last[d] + 1
        BY <3>2, <3>3 DEF Fresh
      <4>2. Yield(d, last[d] + 1)
        BY <2>9, <3>3, <4>1 DEF Take
      <4>3. batch'[d] = batch[d] \ {last[d] + 1}
        BY <3>1, <3>2
      <4>4. QED
        BY <2>0, <3>1, <4>2, <4>3, SeamlessYield
    <3>4. CASE ~Fresh(d, Head(queue[d]))
      <4>1. UNCHANGED <<wire, last>>
        BY <2>9, <3>4 DEF Take
      <4>2. QED
        BY <2>0, <3>1, <4>1, SeamlessFrame
    <3>5. QED
      BY <3>3, <3>4
  <2>10. CASE Connect(d)
    <3>1. wire[d] = <<>> /\ wire'[d] = <<>> /\ seen'[d] = seen[d] /\ batch'[d] = {} /\ batch[d] = {}
      BY <2>10 DEF Connect, SubsInv
    <3>2. (last' = last /\ pc' = pc) \/ last'[d] = LastSeen(d)
      BY <2>10 DEF Connect
    <3>3. LastSeen(d) = Len(seen[d])
      <4>1. CASE seen[d] = <<>>
        BY <4>1 DEF LastSeen
      <4>2. CASE seen[d] # <<>>
        <5>1. Len(seen[d]) \in 1..Len(seen[d])
          BY <4>2
        <5>2. QED
          BY <2>0, <4>2, <5>1 DEF LastSeen, Seamless
      <4>3. QED
        BY <4>1, <4>2
    <3>4. CASE last' = last /\ pc' = pc
      BY <2>0, <3>1, <3>4, SeamlessFrame
    <3>5. CASE last'[d] = LastSeen(d)
      <4>1. last'[d] = Len(seen'[d]) + Len(wire'[d])
        BY <3>1, <3>3, <3>5
      <4>2. \A i \in 1..Len(wire'[d]) : wire'[d][i] = Len(seen'[d]) + i
        BY <3>1
      <4>3. QED
        BY <2>0, <3>1, <4>1, <4>2 DEF Seamless
    <3>6. QED
      BY <3>2, <3>4, <3>5
  <2>11. CASE Receive(d)
    <3>1. seen'[d] = Append(seen[d], Head(wire[d])) /\ wire[d] # <<>> /\ last'[d] = last[d]
      BY <2>0, <2>11, OrderedReceive DEF Receive
    <3>2. pc[d] # "off" /\ last[d] = Len(seen[d]) + Len(wire[d])
      BY <2>0, <3>1 DEF SubsInv, Seamless
    <3>3. Head(wire[d]) = Len(seen[d]) + 1 /\ Head(wire[d]) \in Nat
      <4>1. Head(wire[d]) = wire[d][1] /\ 1 \in 1..Len(wire[d])
        BY <3>1
      <4>2. wire[d][1] = Len(seen[d]) + 1
        BY <2>0, <4>1 DEF Seamless
      <4>3. QED
        BY <4>1, <4>2
    <3>4. Len(seen'[d]) = Len(seen[d]) + 1
      BY <3>1, <3>3
    <3>5. ASSUME NEW i \in 1..Len(seen'[d]) PROVE seen'[d][i] = i
      <4>1. CASE i \in 1..Len(seen[d])
        BY <2>0, <3>1, <3>3, <4>1 DEF Seamless
      <4>2. CASE i = Len(seen[d]) + 1
        BY <3>1, <3>3, <4>2
      <4>3. QED
        BY <3>4, <4>1, <4>2
    <3>6. CASE wire'[d] = Tail(wire[d]) /\ batch'[d] = batch[d] /\ pc'[d] = pc[d]
      <4>1. /\ Len(wire'[d]) = Len(wire[d]) - 1
            /\ \A i \in 1..Len(wire'[d]) : i + 1 \in 1..Len(wire[d]) /\ wire'[d][i] = wire[d][i + 1]
        BY <3>1, <3>6
      <4>2. ASSUME NEW i \in 1..Len(wire'[d]) PROVE wire'[d][i] = Len(seen'[d]) + i
        <5>1. wire[d][i + 1] = Len(seen[d]) + (i + 1)
          BY <2>0, <4>1 DEF Seamless
        <5>2. QED
          BY <3>4, <4>1, <5>1
      <4>3. last'[d] = Len(seen'[d]) + Len(wire'[d])
        BY <3>1, <3>2, <3>4, <4>1
      <4>4. QED
        BY <2>0, <3>1, <3>5, <3>6, <4>2, <4>3 DEF Seamless
    <3>7. CASE wire'[d] = <<>> /\ batch'[d] = {} /\ pc'[d] = "off"
      <4>1. 1..Len(wire'[d]) = {}
        BY <3>7
      <4>2. QED
        BY <3>5, <3>7, <4>1 DEF Seamless
    <3>8. QED
      BY <2>11, <3>6, <3>7 DEF Receive, Close
  <2>12. CASE ResponseEnds(d)
    <3>1. UNCHANGED <<wire, last, seen, batch>> /\ pc'[d] = "off"
      BY <2>12 DEF ResponseEnds
    <3>2. QED
      BY <2>0, <3>1, SeamlessFrame
  <2>13. CASE Drop(d)
    <3>1. wire'[d] = <<>> /\ pc'[d] = "off" /\ batch'[d] = {} /\ seen' = seen
      BY <2>13 DEF Drop, Close
    <3>2. QED
      BY <2>0, <3>1, SeamlessFrame
  <2>14. QED
    <3>1. CASE SnapshotQueues \/ \E c \in Clients : Notify(c) \/ RunCallback(c)
      BY <2>1, <3>1 DEF SnapshotQueues, Notify, RunCallback, loopVars, clientVars
    <3>2. CASE UNCHANGED <<loopVars, clientVars, todo, known>>
      BY <2>1, <3>2 DEF loopVars, clientVars
    <3>3. QED
      BY <2>2, <2>3, <2>5, <2>6, <2>7, <2>8, <2>9, <2>10, <2>11, <2>12, <2>13, <3>1, <3>2, LoopFrame
         DEF Stream
<1>5. QED
  BY <1>3, <1>4

(* Every step keeps the whole invariant. *)
LEMMA InvStep == IInv /\ [Next]_vars => IInv'
  BY TypeStep, BudgetStep, WorkerStep, LogStep, SubsStep, QueueStep, BatchStep, OrderStep, SeamStep
     DEF IInv

(* The inductive invariant of RunStream holds in every reachable state. *)
THEOREM Invariance == Safe => []IInv
  BY InitInv, InvStep, PTL DEF Safe

------------------------------------------------------------------------------
(* The properties.                                                         *)

(* No client is handed more than the store holds. *)
LEMMA SeenBound ==
  ASSUME IInv, NEW c \in Clients
  PROVE  Len(seen[c]) <= Len(log) /\ Horizon <= Len(log)
<1> USE DEF IInv, TypeOK, ClientTypes, WorkerTypes, StoreTypes
<1>1. Horizon \in Nat /\ Len(log) \in Nat /\ Horizon <= Len(log)
  BY DEF Horizon, WorkerInv
<1>2. seen[c] \in Seq(Nat)
  OBVIOUS
<1>3. CASE seen[c] = <<>>
  BY <1>1, <1>3
<1>4. CASE seen[c] # <<>>
  <2>1. Len(seen[c]) \in 1..Len(seen[c]) /\ seen[c][Len(seen[c])] \in Nat
    BY <1>2, <1>4
  <2>2. Len(seen[c]) <= seen[c][Len(seen[c])] /\ seen[c][Len(seen[c])] <= Horizon
    BY <2>1 DEF OrderInv, Ordered
  <2>3. QED
    BY <1>1, <2>1, <2>2
<1>5. QED
  BY <1>3, <1>4

(* Replay, live queue, reconnects and restarts join up: a client of a run  *)
(* nobody deletes has its first events, each once and in order.            *)
THEOREM GapFreedom == Safe => []GapFree
<1>1. IInv => GapFree
  <2> SUFFICES ASSUME IInv, Untouched("delete"), NEW c \in Clients
               PROVE  Len(seen[c]) <= Len(log) /\ \A i \in 1..Len(seen[c]) : seen[c][i] = i
    BY DEF GapFree
  <2>1. QED
    BY SeenBound DEF IInv, SeamInv, Seamless
<1>2. QED
  BY <1>1, Invariance, PTL

(* Also when the run is deleted under its readers, nothing is handed out   *)
(* twice or after something newer.                                         *)
THEOREM Ordering == Safe => []InOrder
<1>1. IInv => InOrder
  BY DEF IInv, OrderInv, Ordered, InOrder
<1>2. QED
  BY <1>1, Invariance, PTL

(* A stream that waits while the worker is between events has sent all.    *)
THEOREM NothingMissed == Safe => []NoMissedEvent
<1>1. IInv => NoMissedEvent
  <2> SUFFICES ASSUME IInv, NEW c \in Clients, pc[c] = "wait", queue[c] = <<>>, pend[c] = <<>>,
                      step \in {"store", "append"}
               PROVE  last[c] = live
    BY DEF NoMissedEvent
  <2> USE DEF IInv, TypeOK, WorkerTypes, QueueTypes, StreamTypes
  <2>1. c \in subs /\ known /\ batch[c] = {}
    BY DEF SubsInv, Subscribed
  <2>2. Taken(c) = live
    BY DEF Taken, Put, Owed, WorkerInv
  <2>3. \A e \in (last[c] + 1)..live : e \in {}
    BY <2>1, <2>2 DEF QueueInv, Queued
  <2>4. last[c] <= live /\ last[c] \in Nat /\ live \in Nat
    BY <2>1 DEF OrderInv, Ordered, Horizon
  <2>5. live \notin (last[c] + 1)..live
    BY <2>3
  <2>6. QED
    BY <2>4, <2>5
<1>2. QED
  BY <1>1, Invariance, PTL

(* Every step of the server and its clients is a step of the abstract feed *)
(* or none: an event is published, or a client is handed its next one.     *)
THEOREM Refinement == Safe => ImplementsSafeFeed
<1>1. Init => Feed!Init
  BY DEF Init, Feed!Init
<1> DEFINE Bound == \A c \in Clients : Len(seen[c]) <= Len(log)
<1>b. IInv => Bound
  BY SeenBound
<1>2. IInv /\ Bound' /\ [Next]_vars => [Feed!Next]_Feed!vars
  <2> SUFFICES ASSUME IInv, Bound', [Next]_vars PROVE [Feed!Next]_Feed!vars
    OBVIOUS
  <2> USE DEF Feed!vars
  <2>1. CASE StoreEvent
    <3>1. Emits[phase] \in Feed!Kinds
      BY <2>1, EmitsDomain DEF StoreEvent, Emits, Feed!Kinds
    <3>2. log' = Append(log, Emits[phase]) /\ seen' = seen
      BY <2>1 DEF StoreEvent, clientVars
    <3>3. QED
      BY <3>1, <3>2 DEF Feed!Next, Feed!Publish
  <2>2. ASSUME NEW c \in Clients, Receive(c) PROVE [Feed!Next]_Feed!vars
    <3> USE DEF IInv, TypeOK, StoreTypes, ClientTypes
    <3>1. seen'[c] = Append(seen[c], Head(wire[c])) /\ wire[c] # <<>> /\ log' = log
      BY <2>2, OrderedReceive DEF OrderInv, Receive, storeVars
    <3>2. \A d \in Clients \ {c} : seen'[d] = seen[d]
      BY <2>2 DEF Receive
    <3>3. Len(seen'[c]) = Len(seen[c]) + 1 /\ Len(seen[c]) \in Nat
      BY <3>1 DEF StreamTypes
    <3>4. Len(seen'[c]) <= Len(log)
      BY <3>1
    <3>5. [d \in Clients |-> Len(seen'[d])] = [[d \in Clients |-> Len(seen[d])] EXCEPT ![c] = @ + 1]
      BY <3>2, <3>3
    <3>6. Feed!Deliver(c)
      <4>1. [d \in Clients |-> Len(seen[d])][c] < Len(log)
        BY <3>3, <3>4
      <4>2. QED
        BY <3>1, <3>5, <4>1 DEF Feed!Deliver
    <3>7. QED
      BY <3>6 DEF Feed!Next
  <2>3. CASE ~StoreEvent /\ UNCHANGED seen
    BY <2>3, LogFrame
  <2>4. QED
    <3>1. (\E c \in Clients : Receive(c)) \/ UNCHANGED seen
      BY ClientFrame DEF clientVars, Restart, Connect, ResponseEnds, Drop
    <3>2. QED
      BY <2>1, <2>2, <2>3, <3>1
<1> HIDE DEF Bound
<1>3. QED
  BY <1>1, <1>b, <1>2, Invariance, PTL DEF Safe, ImplementsSafeFeed, Feed!Safe
==============================================================================
