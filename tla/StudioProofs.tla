---------------------------- MODULE StudioProofs ----------------------------
(***************************************************************************)
(* What was deleted stays gone in Studio, for any collections, documents,  *)
(* threads, rankings and number of requests, whatever the interleaving of  *)
(* their transactions: TurnedAway is inductive for tasks of their shape.   *)
(* And what a run keeps of a pool is the best of the pool of its own       *)
(* collection, as OwnOK has it: the documents of a collection are listed   *)
(* once, so a ranking of them is injective, and the retriever a run works  *)
(* with is the one of the key it asked for.                                *)
(***************************************************************************)
EXTENDS Studio, FiniteSetTheorems, WellFoundedInduction, TLAPS

Fields == {"op", "cid", "k", "todo", "step", "pool", "fused", "got", "outcome", "stale"}

(* Every thread has a task, a record of these fields. *)
Shape ==
  /\ DOMAIN task = Threads
  /\ task = [t \in Threads |-> task[t]]
  /\ \A t \in Threads : DOMAIN task[t] = Fields /\ task[t] = [f \in Fields |-> task[t][f]]

Ops == {"none", "view", "audit", "run", "add", "upload", "delete"}

GoneOK == Shape /\ TurnedAway

(* TurnedAway, for one thread. *)
Turned(t) ==
  /\ task[t].stale \subseteq deleted
  /\ task[t].cid \in task[t].stale =>
       /\ task[t].step \in {"fetch", "check", "documents", "row", "answered"}
       /\ task[t].outcome # "ok" /\ task[t].got = <<>>

Tables == deleted \cap rows = {} /\ rows \cup deleted \subseteq spent

LEMMA GoneParts == GoneOK <=> Shape /\ Tables /\ \A t \in Threads : Turned(t)
  BY DEF GoneOK, TurnedAway, Turned, Tables

(* A task that its thread leaves alone, or that another thread works on. *)
LEMMA TurnedStays ==
  ASSUME NEW t, Turned(t), task'[t] = task[t], deleted \subseteq deleted'
  PROVE  Turned(t)'
  BY DEF Turned

(* A step of one thread, as far as its own task and its shape go. *)
LEMMA OneTask ==
  ASSUME Shape, NEW t \in Threads, NEW r, task' = [task EXCEPT ![t] = r],
         DOMAIN r = Fields, r = [f \in Fields |-> r[f]]
  PROVE  /\ Shape'
         /\ task'[t] = r
         /\ \A u \in Threads : u # t => task'[u] = task[u]
<1>1. /\ DOMAIN task' = Threads /\ task' = [u \in Threads |-> task'[u]]
      /\ task'[t] = r
      /\ \A u \in Threads : u # t => task'[u] = task[u]
  BY DEF Shape
<1> QED
  BY <1>1 DEF Shape

(* What a step of t leaves to show: tables, and its own task. *)
LEMMA StepOfOne ==
  ASSUME GoneOK, NEW t \in Threads, Shape', Tables', Turned(t)', deleted \subseteq deleted',
         \A u \in Threads : u # t => task'[u] = task[u]
  PROVE  GoneOK'
<1>1. ASSUME NEW u \in Threads PROVE Turned(u)'
  <2>1. CASE u = t
    BY <2>1
  <2>2. CASE u # t
    <3>1. Turned(u)
      BY GoneParts
    <3> QED
      BY <2>2, <3>1, TurnedStays
  <2> QED
    BY <2>1, <2>2
<1>2. TurnedAway'
  BY <1>1 DEF TurnedAway, Turned, Tables
<1> QED
  BY <1>2 DEF GoneOK

LEMMA GoesTo ==
  ASSUME Shape, NEW t \in Threads, NEW step, Goes(t, step)
  PROVE  /\ Shape' /\ \A u \in Threads : u # t => task'[u] = task[u]
         /\ task'[t] = [task[t] EXCEPT !.step = step]
         /\ task'[t].step = step /\ task'[t].cid = task[t].cid /\ task'[t].stale = task[t].stale
         /\ task'[t].outcome = task[t].outcome /\ task'[t].got = task[t].got
<1>1. DOMAIN task[t] = Fields /\ task[t] = [f \in Fields |-> task[t][f]]
  BY DEF Shape
<1>2. task' = [task EXCEPT ![t] = [task[t] EXCEPT !.step = step]]
  BY DEF Goes, Shape
<1>3. /\ DOMAIN [task[t] EXCEPT !.step = step] = Fields
      /\ [task[t] EXCEPT !.step = step] = [f \in Fields |-> [task[t] EXCEPT !.step = step][f]]
  BY <1>1 DEF Fields
<1>4. /\ Shape' /\ \A u \in Threads : u # t => task'[u] = task[u]
      /\ task'[t] = [task[t] EXCEPT !.step = step]
  BY <1>2, <1>3, OneTask
<1> QED
  BY <1>1, <1>4 DEF Fields

LEMMA AnswersWith ==
  ASSUME Shape, NEW t \in Threads, NEW outcome, Answers(t, outcome)
  PROVE  /\ Shape' /\ \A u \in Threads : u # t => task'[u] = task[u]
         /\ task'[t].step = "answered" /\ task'[t].cid = task[t].cid
         /\ task'[t].stale = task[t].stale
         /\ task'[t].outcome = outcome /\ task'[t].got = task[t].got
<1> DEFINE r == [task[t] EXCEPT !.step = "answered", !.outcome = outcome]
<1>1. DOMAIN task[t] = Fields /\ task[t] = [f \in Fields |-> task[t][f]]
  BY DEF Shape
<1>2. task' = [task EXCEPT ![t] = r]
  BY DEF Answers, Shape
<1>3. DOMAIN r = Fields /\ r = [f \in Fields |-> r[f]]
  BY <1>1 DEF Fields
<1>4. /\ Shape' /\ \A u \in Threads : u # t => task'[u] = task[u]
      /\ task'[t] = r
  BY <1>2, <1>3, OneTask
<1> QED
  BY <1>1, <1>4 DEF Fields

(* While t works on a collection whose deletion had been answered before it *)
(* asked, it is at none of the later steps.                                 *)
LEMMA NotLate ==
  ASSUME GoneOK, NEW t \in Threads,
         task[t].step \notin {"fetch", "check", "documents", "row", "answered"}
  PROVE  task[t].cid \notin task[t].stale
  BY GoneParts DEF Turned

(* A step that leaves the tables alone and the task on a collection that    *)
(* was not gone when it asked.                                              *)
LEMMA LateStep ==
  ASSUME GoneOK, NEW t \in Threads, task[t].cid \notin task[t].stale,
         Shape', \A u \in Threads : u # t => task'[u] = task[u],
         task'[t].cid = task[t].cid, task'[t].stale = task[t].stale,
         UNCHANGED <<rows, spent, deleted>>
  PROVE  GoneOK'
<1>1. Turned(t)' /\ Tables'
  BY GoneParts DEF Turned, Tables
<1> QED
  BY <1>1, StepOfOne

------------------------------------------------------------------------------
(* The requests, one after the other.                                       *)

LEMMA BeginStep ==
  ASSUME GoneOK, NEW t \in Threads, NEW op \in Ops, NEW c, NEW k, NEW todo,
         Range(todo) \cup spent \subseteq spent', Begin(t, op, c, k, todo)
  PROVE  GoneOK'
<1> DEFINE r == [Idle EXCEPT !.op = op, !.cid = c, !.k = k, !.todo = todo,
                             !.step = First(op), !.stale = deleted]
<1>1. Shape /\ task' = [task EXCEPT ![t] = r] /\ UNCHANGED <<rows, deleted>>
  BY DEF GoneOK, Begin
<1>2. DOMAIN r = Fields /\ r = [f \in Fields |-> r[f]]
  BY DEF Idle, Fields
<1>3. r.stale = deleted /\ r.step = First(op) /\ r.outcome = "none" /\ r.got = <<>>
  BY DEF Idle
<1>4. /\ Shape' /\ \A u \in Threads : u # t => task'[u] = task[u]
      /\ task'[t] = r
  BY <1>1, <1>2, OneTask
<1>5. First(op) \in {"documents", "fetch", "check"}
  BY DEF First, Ops
<1> HIDE DEF r
<1>6. Turned(t)'
  BY <1>1, <1>3, <1>4, <1>5 DEF Turned
<1>7. Tables'
  BY <1>1, GoneParts DEF Tables
<1> QED
  BY <1>1, <1>4, <1>6, <1>7, StepOfOne

LEMMA FetchStep ==
  ASSUME GoneOK, NEW t \in Threads, Fetch(t)
  PROVE  GoneOK'
<1>1. Shape /\ Tables /\ Turned(t) /\ UNCHANGED <<rows, spent, deleted>>
  BY GoneParts DEF Fetch, Store
<1>2. Tables'
  BY <1>1 DEF Tables
<1>3. CASE Goes(t, "check")
  <2>1. /\ Shape' /\ \A u \in Threads : u # t => task'[u] = task[u]
        /\ task'[t].step = "check" /\ task'[t].cid = task[t].cid /\ task'[t].stale = task[t].stale
        /\ task'[t].outcome = task[t].outcome /\ task'[t].got = task[t].got
    BY <1>1, <1>3, GoesTo
  <2>2. Turned(t)'
    BY <1>1, <2>1 DEF Turned
  <2> QED
    BY <1>1, <1>2, <2>1, <2>2, StepOfOne
<1>4. CASE Answers(t, "refused")
  <2>1. /\ Shape' /\ \A u \in Threads : u # t => task'[u] = task[u]
        /\ task'[t].step = "answered" /\ task'[t].cid = task[t].cid /\ task'[t].stale = task[t].stale
        /\ task'[t].outcome = "refused" /\ task'[t].got = task[t].got
    BY <1>1, <1>4, AnswersWith
  <2>2. Turned(t)'
    BY <1>1, <2>1 DEF Turned
  <2> QED
    BY <1>1, <1>2, <2>1, <2>2, StepOfOne
<1> QED
  BY <1>3, <1>4 DEF Fetch

(* The one place where a collection that is gone is noticed. *)
LEMMA CheckStep ==
  ASSUME GoneOK, NEW t \in Threads, Check(t)
  PROVE  GoneOK'
<1>1. Shape /\ Tables /\ Turned(t) /\ UNCHANGED <<rows, spent, deleted>>
  BY GoneParts DEF Check, Store
<1>2. Tables'
  BY <1>1 DEF Tables
<1>3. CASE task[t].cid \notin rows
  <2>1. Answers(t, "missing")
    BY <1>3 DEF Check
  <2>2. /\ Shape' /\ \A u \in Threads : u # t => task'[u] = task[u]
        /\ task'[t].step = "answered" /\ task'[t].cid = task[t].cid /\ task'[t].stale = task[t].stale
        /\ task'[t].outcome = "missing" /\ task'[t].got = task[t].got
    BY <1>1, <2>1, AnswersWith
  <2>3. Turned(t)'
    BY <1>1, <2>2 DEF Turned
  <2> QED
    BY <1>1, <1>2, <2>2, <2>3, StepOfOne
<1>4. CASE task[t].cid \in rows
  <2>1. PICK step : Goes(t, step)
    BY <1>4 DEF Check
  <2>2. task[t].cid \notin task[t].stale
    BY <1>1, <1>4 DEF Tables, Turned
  <2>3. /\ Shape' /\ \A u \in Threads : u # t => task'[u] = task[u]
        /\ task'[t].cid = task[t].cid /\ task'[t].stale = task[t].stale
    BY <1>1, <2>1, GoesTo
  <2> QED
    BY <1>1, <2>2, <2>3, LateStep
<1> QED
  BY <1>3, <1>4

LEMMA RefuseStep ==
  ASSUME GoneOK, NEW t \in Threads, Refuse(t)
  PROVE  GoneOK'
<1>1. Shape /\ Answers(t, "refused") /\ UNCHANGED <<rows, spent, deleted>> /\ task[t].step = "insert"
  BY DEF GoneOK, Refuse, Store, At
<1>2. /\ Shape' /\ \A u \in Threads : u # t => task'[u] = task[u]
      /\ task'[t].cid = task[t].cid /\ task'[t].stale = task[t].stale
  BY <1>1, AnswersWith
<1> QED
  BY <1>1, <1>2, NotLate, LateStep

LEMMA InsertStep ==
  ASSUME GoneOK, NEW t \in Threads, Insert(t)
  PROVE  GoneOK'
<1>1. /\ Shape /\ task' = [task EXCEPT ![t] = Inserted(t)]
      /\ UNCHANGED <<rows, spent, deleted>> /\ task[t].step = "insert"
  BY DEF GoneOK, Insert, At
<1>2. DOMAIN task[t] = Fields /\ task[t] = [f \in Fields |-> task[t][f]]
  BY <1>1 DEF Shape
<1>3. /\ DOMAIN Inserted(t) = Fields /\ Inserted(t) = [f \in Fields |-> Inserted(t)[f]]
      /\ Inserted(t).cid = task[t].cid /\ Inserted(t).stale = task[t].stale
  BY <1>2 DEF Inserted, Fields
<1>4. /\ Shape' /\ \A u \in Threads : u # t => task'[u] = task[u]
      /\ task'[t] = Inserted(t)
  BY <1>1, <1>3, OneTask
<1> QED
  BY <1>1, <1>3, <1>4, NotLate, LateStep

LEMMA ReadStep ==
  ASSUME GoneOK, NEW t \in Threads, Read(t)
  PROVE  GoneOK'
<1> DEFINE held == StoredPassages(task[t].cid)
           kept == [task[t] EXCEPT !.pool = held, !.step = "retriever"]
           shown == [task[t] EXCEPT !.pool = held, !.got = held, !.step = "answered", !.outcome = "ok"]
<1>1. Shape /\ UNCHANGED <<rows, spent, deleted>> /\ task[t].step = "read"
  BY DEF GoneOK, Read, Store
<1>2. DOMAIN task[t] = Fields /\ task[t] = [f \in Fields |-> task[t][f]]
  BY <1>1 DEF Shape
<1>3. \/ Answers(t, "refused")
      \/ task' = [task EXCEPT ![t] = kept]
      \/ task' = [task EXCEPT ![t] = shown]
  BY <1>1 DEF Read, Shape
<1>4. /\ DOMAIN kept = Fields /\ kept = [f \in Fields |-> kept[f]]
      /\ kept.cid = task[t].cid /\ kept.stale = task[t].stale
  <2> HIDE DEF held
  <2> QED
    BY <1>2 DEF Fields
<1>5. /\ DOMAIN shown = Fields /\ shown = [f \in Fields |-> shown[f]]
      /\ shown.cid = task[t].cid /\ shown.stale = task[t].stale
  <2> HIDE DEF held
  <2> QED
    BY <1>2 DEF Fields
<1> HIDE DEF kept, shown
<1>6. /\ Shape' /\ \A u \in Threads : u # t => task'[u] = task[u]
      /\ task'[t].cid = task[t].cid /\ task'[t].stale = task[t].stale
  <2>1. CASE Answers(t, "refused")
    BY <1>1, <2>1, AnswersWith
  <2>2. CASE task' = [task EXCEPT ![t] = kept]
    BY <1>1, <1>4, <2>2, OneTask
  <2>3. CASE task' = [task EXCEPT ![t] = shown]
    BY <1>1, <1>5, <2>3, OneTask
  <2> QED
    BY <1>3, <2>1, <2>2, <2>3
<1> QED
  BY <1>1, <1>6, NotLate, LateStep

LEMMA RetrieveStep ==
  ASSUME GoneOK, NEW t \in Threads, Retrieve(t) \/ SetTopK(t)
  PROVE  GoneOK'
<1>1. Shape /\ UNCHANGED <<rows, spent, deleted>> /\ task[t].step \in {"retriever", "top_k"}
  BY DEF GoneOK, Retrieve, SetTopK, At
<1>2. PICK step : Goes(t, step)
  BY DEF Retrieve, SetTopK
<1>3. /\ Shape' /\ \A u \in Threads : u # t => task'[u] = task[u]
      /\ task'[t].cid = task[t].cid /\ task'[t].stale = task[t].stale
  BY <1>1, <1>2, GoesTo
<1> QED
  BY <1>1, <1>3, NotLate, LateStep

LEMMA RankStep ==
  ASSUME GoneOK, NEW t \in Threads, Rank(t) \/ Cut(t)
  PROVE  GoneOK'
<1>1. Shape /\ UNCHANGED <<rows, spent, deleted>> /\ task[t].step \in {"rank", "cut"}
  BY DEF GoneOK, Rank, Cut, At, Store
<1>2. PICK v : \/ task' = [task EXCEPT ![t] = [task[t] EXCEPT !.step = "cut", !.fused = v]]
               \/ task' = [task EXCEPT ![t] = [task[t] EXCEPT !.step = "answered", !.outcome = "ok", !.got = v]]
  <2>1. CASE Rank(t)
    <3>1. PICK v : task' = [task EXCEPT ![t].step = "cut", ![t].fused = v]
      BY <2>1, Zenon DEF Rank
    <3> QED
      BY <1>1, <3>1 DEF Shape
  <2>2. CASE Cut(t)
    <3>1. PICK v : task' = [task EXCEPT ![t].step = "answered", ![t].outcome = "ok", ![t].got = v]
      BY <2>2, Zenon DEF Cut
    <3> QED
      BY <1>1, <3>1 DEF Shape
  <2> QED
    BY <2>1, <2>2
<1>3. DOMAIN task[t] = Fields /\ task[t] = [f \in Fields |-> task[t][f]]
  BY <1>1 DEF Shape
<1> DEFINE ranked == [task[t] EXCEPT !.step = "cut", !.fused = v]
           done == [task[t] EXCEPT !.step = "answered", !.outcome = "ok", !.got = v]
<1>4. /\ DOMAIN ranked = Fields /\ ranked = [f \in Fields |-> ranked[f]]
      /\ ranked.cid = task[t].cid /\ ranked.stale = task[t].stale
  BY <1>3 DEF Fields
<1>5. /\ DOMAIN done = Fields /\ done = [f \in Fields |-> done[f]]
      /\ done.cid = task[t].cid /\ done.stale = task[t].stale
  BY <1>3 DEF Fields
<1>6. task' = [task EXCEPT ![t] = ranked] \/ task' = [task EXCEPT ![t] = done]
  BY <1>2
<1> HIDE DEF ranked, done
<1>7. /\ Shape' /\ \A u \in Threads : u # t => task'[u] = task[u]
      /\ task'[t].cid = task[t].cid /\ task'[t].stale = task[t].stale
  <2>1. CASE task' = [task EXCEPT ![t] = ranked]
    BY <1>1, <1>4, <2>1, OneTask
  <2>2. CASE task' = [task EXCEPT ![t] = done]
    BY <1>1, <1>5, <2>2, OneTask
  <2> QED
    BY <1>6, <2>1, <2>2
<1> QED
  BY <1>1, <1>7, NotLate, LateStep

LEMMA DeleteDocumentsStep ==
  ASSUME GoneOK, NEW t \in Threads, DeleteDocuments(t)
  PROVE  GoneOK'
<1>1. Shape /\ Tables /\ Turned(t) /\ UNCHANGED <<rows, spent, deleted>> /\ Goes(t, "row")
  BY GoneParts DEF DeleteDocuments
<1>2. /\ Shape' /\ \A u \in Threads : u # t => task'[u] = task[u]
      /\ task'[t].step = "row" /\ task'[t].cid = task[t].cid /\ task'[t].stale = task[t].stale
      /\ task'[t].outcome = task[t].outcome /\ task'[t].got = task[t].got
  BY <1>1, GoesTo
<1>3. Tables' /\ Turned(t)'
  BY <1>1, <1>2 DEF Tables, Turned
<1> QED
  BY <1>1, <1>2, <1>3, StepOfOne

(* Only a deletion that found its row is a deletion: a second one, of what  *)
(* is gone, is turned away too.                                            *)
LEMMA DeleteRowStep ==
  ASSUME GoneOK, NEW t \in Threads, DeleteRow(t)
  PROVE  GoneOK'
<1>1. /\ Shape /\ Tables /\ Turned(t) /\ rows' = rows \ {task[t].cid} /\ spent' = spent
      /\ deleted' = deleted \cup ({task[t].cid} \cap rows)
      /\ Answers(t, IF task[t].cid \in rows THEN "ok" ELSE "missing")
  BY GoneParts DEF DeleteRow
<1>2. /\ Shape' /\ \A u \in Threads : u # t => task'[u] = task[u]
      /\ task'[t].step = "answered" /\ task'[t].cid = task[t].cid /\ task'[t].stale = task[t].stale
      /\ task'[t].outcome = (IF task[t].cid \in rows THEN "ok" ELSE "missing")
      /\ task'[t].got = task[t].got
  BY <1>1, AnswersWith
<1>3. Tables'
  BY <1>1 DEF Tables
<1>4. Turned(t)'
  BY <1>1, <1>2 DEF Tables, Turned
<1> QED
  BY <1>1, <1>2, <1>3, <1>4, StepOfOne

LEMMA CreateStep ==
  ASSUME GoneOK, NEW c, Create(c)
  PROVE  GoneOK'
<1>1. Shape' /\ Tables'
  BY GoneParts DEF Create, Tables, Shape
<1>2. ASSUME NEW t \in Threads PROVE Turned(t)'
  BY GoneParts DEF Create, Turned
<1>3. TurnedAway'
  BY <1>1, <1>2 DEF TurnedAway, Turned, Tables
<1> QED
  BY <1>1, <1>3 DEF GoneOK

(* TurnedAway is inductive: whatever threads, documents and rankings there  *)
(* are, a request for a collection whose deletion had been answered is      *)
(* turned away by get_collection() (app.py:356-379, orchestrator.py:344).   *)
THEOREM TurningAway == Spec => []TurnedAway
<1>1. Init => GoneOK
  <2> SUFFICES ASSUME Init PROVE GoneOK
    OBVIOUS
  <2>1. Shape
    BY DEF Init, Shape, Idle, Fields
  <2>2. TurnedAway
    BY DEF Init, TurnedAway, Idle
  <2> QED
    BY <2>1, <2>2 DEF GoneOK
<1>2. GoneOK /\ [Next]_vars => GoneOK'
  <2> SUFFICES ASSUME GoneOK, [Next]_vars PROVE GoneOK'
    OBVIOUS
  <2>1. ASSUME NEW c \in Collections, Create(c) PROVE GoneOK'
    BY <2>1, CreateStep
  <2>2. ASSUME NEW t \in Threads, Step(t) PROVE GoneOK'
    BY <2>2, FetchStep, CheckStep, RefuseStep, InsertStep, ReadStep, RetrieveStep, RankStep,
       DeleteDocumentsStep, DeleteRowStep DEF Step
  <2>3. ASSUME NEW t \in Threads, NEW c \in spent \cap Collections, Ask(t, c) PROVE GoneOK'
    <3>3. PICK op \in Ops : \E k, todo : Begin(t, op, c, k, todo)
      BY <2>3 DEF Ask, Ops
    <3>1. PICK k, todo : Begin(t, op, c, k, todo)
      BY <3>3
    <3>2. Range(todo) \cup spent \subseteq spent'
      BY <3>1 DEF Begin
    <3> QED
      BY <3>1, <3>2, BeginStep
  <2>4. CASE UNCHANGED vars
    BY <2>4 DEF vars, GoneOK, Shape, TurnedAway
  <2> QED
    BY <2>1, <2>2, <2>3, <2>4 DEF Next
<1>3. GoneOK => TurnedAway
  BY DEF GoneOK
<1> QED
  BY <1>1, <1>2, <1>3, PTL DEF Spec

(* Nothing asked of a collection after its deletion was answered is         *)
(* answered from its documents, although documents may be inserted into it  *)
(* later, by a request that was under way (app.py:356-379).                 *)
THEOREM Deletion == Spec => []DeletedIsGone
<1>1. TurnedAway => DeletedIsGone
  BY DEF TurnedAway, DeletedIsGone, Done
<1> QED
  BY <1>1, TurningAway, PTL
------------------------------------------------------------------------------
(* A finite set as a list, and the elements of a list at some positions.    *)

(* An order of the members of S, each of them up to itself.                 *)
Orders(order, S) ==
  /\ \A x, y \in S : <<x, y>> \in order \/ <<y, x>> \in order
  /\ \A x, y \in S : <<x, y>> \in order /\ <<y, x>> \in order => x = y
  /\ \A x, y, z \in S : <<x, y>> \in order /\ <<y, z>> \in order => <<x, z>> \in order

UpTo(x, S, order) == {y \in S : <<y, x>> \in order}

(* s lists the members of S, each of them once.                             *)
Lists(s, S) ==
  /\ IsFiniteSet(S) /\ Cardinality(S) \in Nat
  /\ s \in [1..Cardinality(S) -> S]
  /\ \A x \in S : \E n \in 1..Cardinality(S) : s[n] = x
  /\ \A m, n \in 1..Cardinality(S) : s[m] = s[n] => m = n

(* There are more members up to a later one.                                *)
LEMMA LaterHasMore ==
  ASSUME NEW S, IsFiniteSet(S), NEW order, Orders(order, S),
         NEW x \in S, NEW y \in S, x # y, <<x, y>> \in order
  PROVE  Cardinality(UpTo(x, S, order)) < Cardinality(UpTo(y, S, order))
<1>1. UpTo(x, S, order) \subseteq UpTo(y, S, order) /\ UpTo(y, S, order) \subseteq S
  BY DEF Orders, UpTo
<1>2. y \in UpTo(y, S, order) /\ y \notin UpTo(x, S, order)
  BY DEF Orders, UpTo
<1>3. IsFiniteSet(UpTo(y, S, order))
  BY <1>1, FS_Subset
<1>4. /\ IsFiniteSet(UpTo(x, S, order))
      /\ Cardinality(UpTo(x, S, order)) <= Cardinality(UpTo(y, S, order))
      /\ Cardinality(UpTo(y, S, order)) = Cardinality(UpTo(x, S, order)) => UpTo(y, S, order) = UpTo(x, S, order)
  BY <1>1, <1>3, FS_Subset
<1>5. Cardinality(UpTo(y, S, order)) \in Nat /\ Cardinality(UpTo(x, S, order)) \in Nat
  BY <1>3, <1>4, FS_CardinalityType
<1> QED
  BY <1>2, <1>4, <1>5

LEMMA ListedIs ==
  ASSUME NEW S, IsFiniteSet(S), NEW order, Orders(order, S)
  PROVE  Lists(Listed(S, order), S)
<1> DEFINE n == Cardinality(S)
           place == [x \in S |-> Cardinality(UpTo(x, S, order))]
<1>1. n \in Nat /\ IsFiniteSet(1..n) /\ Cardinality(1..n) = n
  <2>1. n \in Nat /\ n \in Int
    BY FS_CardinalityType
  <2>2. IsFiniteSet(1..n) /\ Cardinality(1..n) = IF 1 > n THEN 0 ELSE n - 1 + 1
    BY <2>1, FS_Interval
  <2> QED
    BY <2>1, <2>2
<1>2. ASSUME NEW x \in S PROVE place[x] \in 1..n
  <2>1. UpTo(x, S, order) \subseteq S /\ x \in UpTo(x, S, order)
    BY DEF Orders, UpTo
  <2>2. /\ IsFiniteSet(UpTo(x, S, order))
        /\ Cardinality(UpTo(x, S, order)) <= n
    BY <2>1, FS_Subset
  <2>3. Cardinality(UpTo(x, S, order)) \in Nat /\ Cardinality(UpTo(x, S, order)) # 0
    BY <2>1, <2>2, FS_CardinalityType, FS_EmptySet
  <2> HIDE DEF n
  <2> QED
    BY <1>1, <2>2, <2>3
<1>3. ASSUME NEW x \in S, NEW y \in S, x # y PROVE place[x] # place[y]
  <2>1. <<x, y>> \in order \/ <<y, x>> \in order
    BY DEF Orders
  <2>2. place[x] < place[y] \/ place[y] < place[x]
    BY <1>3, <2>1, LaterHasMore
  <2>3. place[x] \in Nat /\ place[y] \in Nat
    BY <1>1, <1>2
  <2> HIDE DEF place
  <2> QED
    BY <2>2, <2>3
<1>4. \A i \in 1..n : \E x \in S : place[x] = i
  <2>1. place \in Injection(S, 1..n)
    <3>1. place \in [S -> 1..n]
      BY <1>2
    <3> HIDE DEF place, n
    <3> QED
      BY <1>3, <3>1 DEF Injection, IsInjective
  <2> HIDE DEF place
  <2>2. place \in Surjection(S, 1..n)
    BY <1>1, <2>1, FS_Injection
  <2> QED
    BY <2>2 DEF Surjection
<1>5. Listed(S, order) = [i \in 1..n |-> CHOOSE x \in S : place[x] = i]
  <2>1. \A x \in S : place[x] = Cardinality({y \in S : <<y, x>> \in order})
    BY DEF UpTo
  <2> HIDE DEF place
  <2>2. ASSUME NEW i \in 1..n
        PROVE  (CHOOSE x \in S : place[x] = i) = CHOOSE x \in S : Cardinality({y \in S : <<y, x>> \in order}) = i
    BY <2>1
  <2> QED
    BY <2>2 DEF Listed
<1> HIDE DEF place
<1>6. ASSUME NEW i \in 1..n PROVE Listed(S, order)[i] \in S /\ place[Listed(S, order)[i]] = i
  BY <1>4, <1>5
<1>7. ASSUME NEW x \in S PROVE \E i \in 1..n : Listed(S, order)[i] = x
  BY <1>2, <1>3, <1>6
<1>8. ASSUME NEW i \in 1..n, NEW j \in 1..n, Listed(S, order)[i] = Listed(S, order)[j] PROVE i = j
  BY <1>6, <1>8
<1>9. Listed(S, order) \in [1..n -> S]
  BY <1>5, <1>6
<1> QED
  BY <1>1, <1>7, <1>8, <1>9 DEF Lists

(* Positions in their order.                                                *)
LEMMA InTurnIs ==
  ASSUME NEW n \in Nat, NEW I \in SUBSET (1..n)
  PROVE  Lists(InTurn(I), I)
<1> DEFINE order == {p \in I \X I : p[1] <= p[2]}
<1>1. I \subseteq Nat /\ \A x, y \in I : <<x, y>> \in order <=> x <= y
  OBVIOUS
<1>2. IsFiniteSet(I)
  <2>1. IsFiniteSet(1..n)
    <3>1. 1 \in Int /\ n \in Int
      OBVIOUS
    <3> QED
      BY <3>1, FS_Interval
  <2> QED
    BY <2>1, FS_Subset
<1> HIDE DEF order
<1>3. Orders(order, I)
  <2>1. \A x, y \in I : x <= y \/ y <= x
    BY <1>1
  <2>2. \A x, y \in I : x <= y /\ y <= x => x = y
    BY <1>1
  <2>3. \A x, y, z \in I : x <= y /\ y <= z => x <= z
    BY <1>1
  <2> QED
    BY <1>1, <2>1, <2>2, <2>3 DEF Orders
<1>4. Lists(Listed(I, order), I)
  BY <1>2, <1>3, ListedIs
<1> QED
  BY <1>4 DEF InTurn, order

(* What is kept of a list: the elements at these positions, each once.      *)
LEMMA KeepIs ==
  ASSUME NEW T, NEW s \in Seq(T), NEW I \in SUBSET DOMAIN s
  PROVE  /\ IsFiniteSet(I) /\ Cardinality(I) \in Nat
         /\ Keep(s, I) \in Seq(T) /\ Len(Keep(s, I)) = Cardinality(I)
         /\ Lists(InTurn(I), I)
         /\ \A n \in 1..Cardinality(I) : Keep(s, I)[n] = s[InTurn(I)[n]]
<1> DEFINE m == Len(s)
           b == InTurn(I)
           c == Cardinality(I)
<1>1. m \in Nat /\ DOMAIN s = 1..m /\ \A i \in 1..m : s[i] \in T
  OBVIOUS
<1> HIDE DEF m
<1>2. Lists(b, I)
  BY <1>1, InTurnIs
<1> HIDE DEF b
<1>3. IsFiniteSet(I) /\ c \in Nat /\ b \in [1..c -> I]
  BY <1>2 DEF Lists
<1> HIDE DEF c
<1>4. Keep(s, I) = [n \in 1..c |-> s[b[n]]]
  BY DEF Keep, b, c
<1>5. \A n \in 1..c : s[b[n]] \in T
  BY <1>1, <1>3
<1>6. Keep(s, I) \in [1..c -> T]
  BY <1>4, <1>5
<1>7. Keep(s, I) \in Seq(T) /\ Len(Keep(s, I)) = c
  BY <1>3, <1>6
<1> QED
  BY <1>2, <1>3, <1>4, <1>7 DEF b, c

------------------------------------------------------------------------------
(* The passages of a document, and those of a collection.                   *)

(* A set of numbers has a least one.                                        *)
LEMMA LeastBelow ==
  ASSUME NEW S \in SUBSET Nat, S # {}
  PROVE  \E m \in S : \A k \in S : m <= k
<1> DEFINE R == {p \in Nat \X Nat : p[1] < p[2]}
<1>1. IsWellFoundedOn(R, Nat)
  BY NatLessThanWellFounded DEF OpToRel
<1>2. PICK m \in S : \A k \in S : <<k, m>> \notin R
  BY <1>1, WFMin
<1>3. ASSUME NEW k \in S PROVE m <= k
  <2>1. <<k, m>> \in Nat \X Nat /\ ~(<<k, m>>[1] < <<k, m>>[2])
    BY <1>2
  <2> QED
    BY <2>1
<1> QED
  BY <1>3

(* Induction, for a set of numbers.                                         *)
LEMMA AllNumbers ==
  ASSUME NEW G, 0 \in G, \A n \in Nat : n \in G => n + 1 \in G
  PROVE  Nat \subseteq G
<1>1. SUFFICES ASSUME Nat \ G # {} PROVE FALSE
  OBVIOUS
<1>2. PICK m \in Nat \ G : \A k \in Nat \ G : m <= k
  BY <1>1, LeastBelow
<1>3. m # 0 /\ m - 1 \in Nat /\ m - 1 \in G
  BY <1>2
<1>4. (m - 1) + 1 \in G
  BY <1>3
<1> QED
  BY <1>2, <1>4

(* FlattenSeq(), piece after piece.                                         *)
Flattening(g, seqs, A) ==
  /\ g \in [0..Len(seqs) -> Seq(A)] /\ g[0] = <<>> /\ g[Len(seqs)] = FlattenSeq(seqs)
  /\ \A i \in 1..Len(seqs) : g[i] = g[i - 1] \o seqs[i]

(* The pieces can be put together one after the other.                      *)
LEMMA FlattenedSoFar ==
  ASSUME NEW A, NEW seqs \in Seq(Seq(A))
  PROVE  \E g : Flattening(g, seqs, A)
<1> DEFINE n == Len(seqs)
           Joined(f, i) == IF i = 1 THEN seqs[i] ELSE f[i-1] \o seqs[i]
           Upto(m) == m <= n => \E f : f = [i \in 1..m |-> Joined(f, i)]
           Good == {m \in Nat : Upto(m)}
<1>1. n \in Nat /\ DOMAIN seqs = 1..n /\ \A i \in 1..n : seqs[i] \in Seq(A)
  OBVIOUS
<1>2. Nat \subseteq Good
  <2>1. 0 \in Good
    <3>1. << >> = [i \in 1..0 |-> Joined(<< >>, i)]
      OBVIOUS
    <3> QED
      BY <3>1
  <2>2. ASSUME NEW m \in Nat, m \in Good PROVE m + 1 \in Good
    <3>1. SUFFICES ASSUME m + 1 <= n PROVE \E f : f = [i \in 1..(m + 1) |-> Joined(f, i)]
      <4> HIDE DEF Joined, n
      <4> QED
        OBVIOUS
    <3>2. PICK f : f = [i \in 1..m |-> Joined(f, i)]
      <4> HIDE DEF Joined, n
      <4> QED
        BY <2>2, <3>1, <1>1
    <3> DEFINE g == [i \in 1..(m + 1) |-> IF i = m + 1 THEN Joined(f, i) ELSE f[i]]
    <3>3. ASSUME NEW i \in 1..(m + 1) PROVE g[i] = Joined(g, i)
      <4>1. i = 1 \/ (i - 1 \in 1..m /\ i - 1 # m + 1 /\ i - 1 \in 1..(m + 1))
        OBVIOUS
      <4>2. i # 1 => g[i - 1] = f[i - 1]
        BY <4>1
      <4>3. g[i] = Joined(f, i)
        <5>1. i # m + 1 => i \in 1..m
          OBVIOUS
        <5> HIDE DEF Joined
        <5>2. i # m + 1 => f[i] = Joined(f, i)
          BY <3>2, <5>1
        <5> QED
          BY <5>2
      <4> HIDE DEF g
      <4> QED
        BY <4>2, <4>3
    <3>4. g = [i \in 1..(m + 1) |-> g[i]]
      OBVIOUS
    <3> HIDE DEF g, Joined
    <3>5. g = [i \in 1..(m + 1) |-> Joined(g, i)]
      BY <3>3, <3>4
    <3> QED
      BY <3>5
  <2> HIDE DEF Good
  <2> QED
    BY <2>1, <2>2, AllNumbers
<1>3. CASE n = 0
  <2> DEFINE g == [i \in 0..n |-> <<>>]
  <2>1. FlattenSeq(seqs) = <<>>
    BY <1>3 DEF FlattenSeq
  <2>2. g \in [0..n -> Seq(A)] /\ g[0] = <<>> /\ g[n] = <<>> /\ 1..n = {}
    BY <1>3
  <2> HIDE DEF g
  <2>3. Flattening(g, seqs, A)
    BY <2>1, <2>2 DEF Flattening
  <2> QED
    BY <2>3
<1>4. CASE n # 0
  <2>1. \E f : f = [i \in 1..n |-> Joined(f, i)]
    <3>1. n \in Good
      BY <1>1, <1>2
    <3> HIDE DEF Joined, n
    <3> QED
      BY <3>1, <1>1
  <2>2. PICK h : h = [i \in 1..n |-> Joined(h, i)] /\ FlattenSeq(seqs) = h[n]
    BY <2>1, <1>4 DEF FlattenSeq
  <2> DEFINE g == [i \in 0..n |-> IF i = 0 THEN <<>> ELSE h[i]]
  <2>3. ASSUME NEW m \in 1..n PROVE g[m] = g[m - 1] \o seqs[m]
    <3>1. h[m] = IF m = 1 THEN seqs[m] ELSE h[m - 1] \o seqs[m]
      BY <2>2
    <3>2. m \in 0..n /\ m # 0 /\ m - 1 \in 0..n /\ (m = 1 <=> m - 1 = 0)
      OBVIOUS
    <3>3. g[m] = h[m] /\ g[m - 1] = IF m = 1 THEN <<>> ELSE h[m - 1]
      BY <3>2
    <3>4. <<>> \o seqs[m] = seqs[m]
      BY <1>1
    <3> QED
      BY <3>1, <3>3, <3>4
  <2> DEFINE Fine == {m \in Nat : m \in 0..n => g[m] \in Seq(A)}
  <2>4. g[0] = <<>> /\ g[n] = FlattenSeq(seqs)
    BY <1>1, <1>4, <2>2
  <2>5. 0 \in Fine
    <3> HIDE DEF g
    <3>1. g[0] \in Seq(A)
      BY <2>4
    <3> QED
      BY <3>1
  <2>6. ASSUME NEW m \in Nat, m \in Fine PROVE m + 1 \in Fine
    <3> HIDE DEF g
    <3>1. SUFFICES ASSUME m + 1 \in 0..n PROVE g[m + 1] \in Seq(A)
      OBVIOUS
    <3>2. m + 1 \in 1..n /\ (m + 1) - 1 = m /\ m \in 0..n
      BY <3>1, <1>1
    <3>3. g[m + 1] = g[m] \o seqs[m + 1]
      BY <2>3, <3>2
    <3>4. g[m] \in Seq(A) /\ seqs[m + 1] \in Seq(A)
      BY <1>1, <2>6, <3>2
    <3> QED
      BY <3>3, <3>4
  <2>7. Nat \subseteq Fine
    <3> HIDE DEF Fine
    <3> QED
      BY <2>5, <2>6, AllNumbers
  <2>8. g = [i \in 0..n |-> g[i]]
    OBVIOUS
  <2>9. \A m \in 0..n : g[m] \in Seq(A)
    <3> HIDE DEF g, n
    <3> QED
      BY <1>1, <2>7
  <2> HIDE DEF g
  <2>10. g \in [0..n -> Seq(A)]
    BY <2>8, <2>9
  <2>11. Flattening(g, seqs, A)
    BY <2>3, <2>4, <2>10 DEF Flattening
  <2> QED
    BY <2>11
<1> QED
  BY <1>3, <1>4

(* What is put together of sequences is one, of the same elements.          *)
LEMMA FlattenIs ==
  ASSUME NEW A, NEW seqs \in Seq(Seq(A))
  PROVE  FlattenSeq(seqs) \in Seq(A)
<1>1. PICK g : Flattening(g, seqs, A)
  BY FlattenedSoFar
<1>2. Len(seqs) \in 0..Len(seqs)
  OBVIOUS
<1> QED
  BY <1>1, <1>2 DEF Flattening

(* What a paragraph is packed into is a list of chunks.                     *)
LEMMA PackedIs ==
  ASSUME NEW done \in Seq(Seq(Nat)), NEW n \in Nat
  PROVE  Packed(done, n) \in Seq(Seq(Nat))
<1>1. CASE done # <<>>
  <2>1. /\ Last(done) \in Seq(Nat) /\ Front(done) \in Seq(Seq(Nat))
    BY <1>1 DEF Last, Front
  <2>2. Append(Last(done), n) \in Seq(Nat) /\ <<n>> \in Seq(Nat)
    BY <2>1
  <2>3. <<Append(Last(done), n)>> \in Seq(Seq(Nat)) /\ Append(done, <<n>>) \in Seq(Seq(Nat))
    BY <2>2
  <2>4. Front(done) \o <<Append(Last(done), n)>> \in Seq(Seq(Nat))
    BY <2>1, <2>3
  <2> QED
    BY <2>3, <2>4 DEF Packed
<1>2. CASE done = <<>>
  BY <1>2 DEF Packed
<1> QED
  BY <1>1, <1>2

LEMMA PackIs ==
  ASSUME NEW sentences \in Seq(Nat)
  PROVE  Pack(sentences) \in Seq(Seq(Nat))
<1> DEFINE n == Len(sentences)
           Turn(f, i) == IF i = 0 THEN <<>> ELSE Packed(f[i - 1], sentences[i])
           Upto(m) == m <= n => \E f : f = [i \in 0..m |-> Turn(f, i)]
           Good == {m \in Nat : Upto(m)}
<1>1. n \in Nat /\ \A i \in 1..n : sentences[i] \in Nat
  OBVIOUS
<1>2. Nat \subseteq Good
  <2>1. 0 \in Good
    <3> DEFINE g == [i \in 0..0 |-> <<>>]
    <3>1. g = [i \in 0..0 |-> Turn(g, i)]
      OBVIOUS
    <3> QED
      BY <3>1
  <2>2. ASSUME NEW m \in Nat, m \in Good PROVE m + 1 \in Good
    <3>1. SUFFICES ASSUME m + 1 <= n PROVE \E f : f = [i \in 0..(m + 1) |-> Turn(f, i)]
      <4> HIDE DEF Turn, n
      <4> QED
        OBVIOUS
    <3>2. PICK f : f = [i \in 0..m |-> Turn(f, i)]
      <4> HIDE DEF Turn, n
      <4> QED
        BY <2>2, <3>1, <1>1
    <3> DEFINE g == [i \in 0..(m + 1) |-> IF i = m + 1 THEN Turn(f, i) ELSE f[i]]
    <3>3. ASSUME NEW i \in 0..(m + 1) PROVE g[i] = Turn(g, i)
      <4>1. i = 0 \/ (i - 1 \in 0..m /\ i - 1 # m + 1 /\ i - 1 \in 0..(m + 1))
        OBVIOUS
      <4>2. i # 0 => g[i - 1] = f[i - 1]
        BY <4>1
      <4>3. g[i] = Turn(f, i)
        <5>1. i # m + 1 => i \in 0..m
          OBVIOUS
        <5> HIDE DEF Turn
        <5>2. i # m + 1 => f[i] = Turn(f, i)
          BY <3>2, <5>1
        <5> QED
          BY <5>2
      <4> HIDE DEF g
      <4> QED
        BY <4>2, <4>3
    <3>4. g = [i \in 0..(m + 1) |-> g[i]]
      OBVIOUS
    <3> HIDE DEF g, Turn
    <3>5. g = [i \in 0..(m + 1) |-> Turn(g, i)]
      BY <3>3, <3>4
    <3> QED
      BY <3>5
  <2> HIDE DEF Good
  <2> QED
    BY <2>1, <2>2, AllNumbers
<1>3. \E f : f = [i \in 0..n |-> Turn(f, i)]
  <2>1. n \in Good
    BY <1>1, <1>2
  <2> HIDE DEF Turn, n
  <2> QED
    BY <2>1, <1>1
<1>4. PICK g : g = [i \in 0..n |-> Turn(g, i)] /\ Pack(sentences) = g[n]
  BY <1>3 DEF Pack
<1> DEFINE Fine == {m \in Nat : m <= n => g[m] \in Seq(Seq(Nat))}
<1>5. 0 \in Fine
  <2>1. g[0] = <<>> /\ <<>> \in Seq(Seq(Nat))
    BY <1>1, <1>4
  <2> HIDE DEF n, Turn
  <2> QED
    BY <2>1
<1>6. ASSUME NEW m \in Nat, m \in Fine PROVE m + 1 \in Fine
  <2>1. SUFFICES ASSUME m + 1 <= n PROVE g[m + 1] \in Seq(Seq(Nat))
    OBVIOUS
  <2>2. m + 1 \in 0..n /\ m + 1 # 0 /\ (m + 1) - 1 = m /\ m + 1 \in 1..n
    BY <1>1, <2>1
  <2>3. g[m + 1] = Packed(g[m], sentences[m + 1])
    BY <1>4, <2>2
  <2>4. g[m] \in Seq(Seq(Nat)) /\ sentences[m + 1] \in Nat
    BY <1>1, <1>6, <2>1, <2>2
  <2> QED
    BY <2>3, <2>4, PackedIs
<1>7. Nat \subseteq Fine
  <2> HIDE DEF Fine
  <2> QED
    BY <1>5, <1>6, AllNumbers
<1>8. n \in Fine
  BY <1>1, <1>7
<1> HIDE DEF n
<1> QED
  BY <1>4, <1>8

LEMMA ChunksAre ==
  ASSUME NEW text \in Seq(Seq(Nat))
  PROVE  Chunks(text) \in Seq(Seq(Nat))
<1> DEFINE pieces == [p \in DOMAIN text |-> Pack(text[p])]
           all == FlattenSeq(pieces)
           I == {n \in DOMAIN all : Words(all[n]) >= MinWords}
<1>1. \A p \in DOMAIN text : text[p] \in Seq(Nat)
  OBVIOUS
<1>2. \A p \in DOMAIN text : Pack(text[p]) \in Seq(Seq(Nat))
  BY <1>1, PackIs
<1>3. pieces \in Seq(Seq(Seq(Nat)))
  <2>1. PICK n \in Nat : DOMAIN text = 1..n
    OBVIOUS
  <2>2. pieces \in [1..n -> Seq(Seq(Nat))]
    BY <1>2, <2>1
  <2> HIDE DEF pieces
  <2> QED
    BY <2>2
<1> HIDE DEF pieces
<1>4. all \in Seq(Seq(Nat))
  BY <1>3, FlattenIs
<1> HIDE DEF all
<1>5. I \in SUBSET DOMAIN all
  OBVIOUS
<1>6. Chunks(text) = Keep(all, I)
  BY DEF Chunks, all, pieces
<1> HIDE DEF I
<1> QED
  BY <1>4, <1>5, <1>6, KeepIs

LEMMA PassagesAre ==
  ASSUME NEW d \in Documents
  PROVE  /\ PassagesOf(d) \in Seq(Passages)
         /\ \A i \in DOMAIN PassagesOf(d) : PassagesOf(d)[i] = <<d, i>>
<1>1. Texts[d] \in Seq(Seq(Nat))
  BY StudioAssumption DEF Documents
<1>2. Chunks(Texts[d]) \in Seq(Seq(Nat))
  BY <1>1, ChunksAre
<1>3. PICK n \in Nat : DOMAIN Chunks(Texts[d]) = 1..n
  BY <1>2
<1>4. PassagesOf(d) = [i \in 1..n |-> <<d, i>>]
  BY <1>3 DEF PassagesOf
<1>5. \A i \in 1..n : <<d, i>> \in Range(PassagesOf(d))
  BY <1>4 DEF Range
<1>6. \A i \in 1..n : <<d, i>> \in Passages
  BY <1>5 DEF Passages
<1> QED
  BY <1>4, <1>6

(* A list of lists, each without repetition and no two with an element in   *)
(* common, flattens to one without repetition.                              *)
Apart(seqs) ==
  \A i, j \in DOMAIN seqs : \A m \in DOMAIN seqs[i], n \in DOMAIN seqs[j] :
    seqs[i][m] = seqs[j][n] => i = j /\ m = n

LEMMA FlattenApart ==
  ASSUME NEW A, NEW seqs \in Seq(Seq(A)), Apart(seqs)
  PROVE  IsInjective(FlattenSeq(seqs))
<1> DEFINE n == Len(seqs)
<1>1. n \in Nat /\ DOMAIN seqs = 1..n /\ \A i \in 1..n : seqs[i] \in Seq(A)
  OBVIOUS
<1>2. PICK g : Flattening(g, seqs, A)
  BY FlattenedSoFar
<1>3. /\ g \in [0..n -> Seq(A)] /\ g[0] = <<>> /\ g[n] = FlattenSeq(seqs)
      /\ \A i \in 1..n : g[i] = g[i - 1] \o seqs[i]
  BY <1>2 DEF Flattening
<1> HIDE DEF n
<1> DEFINE From(m) == \A k \in DOMAIN g[m] : \E i \in 1..m : \E l \in DOMAIN seqs[i] : g[m][k] = seqs[i][l]
           Once(m) == \A k, l \in DOMAIN g[m] : g[m][k] = g[m][l] => k = l
           Good == {m \in Nat : m <= n => From(m) /\ Once(m)}
<1>4. 0 \in Good
  <2>1. DOMAIN g[0] = {}
    BY <1>3
  <2> QED
    BY <2>1
<1>5. ASSUME NEW m \in Nat, m \in Good PROVE m + 1 \in Good
  <2>1. SUFFICES ASSUME m + 1 <= n PROVE From(m + 1) /\ Once(m + 1)
    OBVIOUS
  <2>2. m + 1 \in 1..n /\ (m + 1) - 1 = m /\ m \in 0..n /\ m <= n
    BY <1>1, <2>1
  <2> DEFINE before == g[m]
             piece == seqs[m + 1]
  <2>3. before \in Seq(A) /\ piece \in Seq(A) /\ g[m + 1] = before \o piece
    BY <1>1, <1>3, <2>2
  <2>4. From(m) /\ Once(m)
    BY <1>5, <2>2
  <2>5. PICK b \in Nat, c \in Nat :
          /\ DOMAIN before = 1..b /\ DOMAIN piece = 1..c /\ DOMAIN g[m + 1] = 1..(b + c)
          /\ \A k \in 1..b : g[m + 1][k] = before[k]
          /\ \A k \in (b + 1)..(b + c) : k - b \in 1..c /\ g[m + 1][k] = piece[k - b]
    <3> DEFINE after == g[m + 1]
               b == Len(before)
               c == Len(piece)
    <3>1. after = before \o piece /\ after \in Seq(A)
      BY <2>3
    <3> HIDE DEF after, before, piece
    <3>2. b \in Nat /\ c \in Nat /\ DOMAIN before = 1..b /\ DOMAIN piece = 1..c
      BY <2>3
    <3>3. Len(after) = b + c /\ DOMAIN after = 1..(b + c)
      BY <2>3, <3>1
    <3>4. \A k \in 1..b : after[k] = before[k]
      BY <2>3, <3>1
    <3>5. \A k \in (b + 1)..(b + c) : k - b \in 1..c /\ after[k] = piece[k - b]
      BY <2>3, <3>1
    <3> HIDE DEF b, c
    <3> QED
      BY <3>2, <3>3, <3>4, <3>5 DEF after
  <2>6. \A k \in 1..b : \E i \in 1..m : \E l \in DOMAIN seqs[i] : before[k] = seqs[i][l]
    BY <2>4, <2>5
  <2>7. \A k, l \in 1..b : before[k] = before[l] => k = l
    BY <2>4, <2>5
  <2> HIDE DEF before
  <2>8. From(m + 1)
    <3>1. SUFFICES ASSUME NEW k \in 1..(b + c)
                   PROVE  \E i \in 1..(m + 1) : \E l \in DOMAIN seqs[i] : g[m + 1][k] = seqs[i][l]
      BY <2>5
    <3>2. CASE k \in 1..b
      <4>1. PICK i \in 1..m : \E l \in DOMAIN seqs[i] : before[k] = seqs[i][l]
        BY <2>6, <3>2
      <4>2. i \in 1..(m + 1) /\ g[m + 1][k] = before[k]
        BY <2>5, <3>2
      <4> QED
        BY <4>1, <4>2
    <3>3. CASE k \in (b + 1)..(b + c)
      <4>1. k - b \in DOMAIN seqs[m + 1] /\ g[m + 1][k] = seqs[m + 1][k - b] /\ m + 1 \in 1..(m + 1)
        BY <2>5, <3>3
      <4> QED
        BY <4>1
    <3>4. k \in 1..b \/ k \in (b + 1)..(b + c)
      BY <3>1
    <3> QED
      BY <3>2, <3>3, <3>4
  <2>9. Once(m + 1)
    <3>1. SUFFICES ASSUME NEW k \in 1..(b + c), NEW l \in 1..(b + c), k < l, g[m + 1][k] = g[m + 1][l] PROVE FALSE
      <4>1. \A k, l \in 1..(b + c) : k = l \/ k < l \/ l < k
        OBVIOUS
      <4> QED
        BY <2>5, <4>1
    <3>2. CASE l \in 1..b
      <4>1. k \in 1..b
        BY <3>1, <3>2
      <4>2. before[k] = before[l]
        BY <2>5, <3>1, <3>2, <4>1
      <4> QED
        BY <2>7, <3>1, <3>2, <4>1, <4>2
    <3>3. CASE k \in (b + 1)..(b + c)
      <4>1. l \in (b + 1)..(b + c)
        BY <3>1, <3>3
      <4>2. /\ k - b \in DOMAIN seqs[m + 1] /\ l - b \in DOMAIN seqs[m + 1]
            /\ seqs[m + 1][k - b] = seqs[m + 1][l - b] /\ m + 1 \in DOMAIN seqs
        BY <1>1, <2>2, <2>5, <3>1, <3>3, <4>1
      <4>3. k - b = l - b
        BY <4>2 DEF Apart
      <4> QED
        BY <3>1, <4>3
    <3>4. CASE k \in 1..b /\ l \in (b + 1)..(b + c)
      <4>1. PICK i \in 1..m : \E j \in DOMAIN seqs[i] : before[k] = seqs[i][j]
        BY <2>6, <3>4
      <4>2. PICK j \in DOMAIN seqs[i] : before[k] = seqs[i][j]
        BY <4>1
      <4>3. l - b \in DOMAIN seqs[m + 1] /\ seqs[i][j] = seqs[m + 1][l - b]
        BY <2>5, <3>1, <3>4, <4>2
      <4>4. i \in DOMAIN seqs /\ m + 1 \in DOMAIN seqs /\ i # m + 1
        BY <1>1, <2>2
      <4> QED
        BY <4>2, <4>3, <4>4 DEF Apart
    <3>5. l \in 1..b \/ k \in (b + 1)..(b + c) \/ (k \in 1..b /\ l \in (b + 1)..(b + c))
      BY <3>1
    <3> QED
      BY <3>2, <3>3, <3>4, <3>5
  <2> QED
    BY <2>8, <2>9
<1>6. Nat \subseteq Good
  <2> HIDE DEF Good
  <2> QED
    BY <1>4, <1>5, AllNumbers
<1>7. Once(n)
  BY <1>1, <1>6
<1> QED
  BY <1>3, <1>7 DEF IsInjective

LEMMA ElementOf == ASSUME NEW T, NEW s \in Seq(T), NEW i \in DOMAIN s PROVE s[i] \in T
  OBVIOUS

(* The documents of the store: no document is stored twice.                 *)
DocumentsOK ==
  /\ documents \in Seq([doc : Documents, cid : Collections])
  /\ \A i, j \in DOMAIN documents : documents[i].doc = documents[j].doc => i = j

LEMMA StoredIs ==
  ASSUME DocumentsOK, NEW c
  PROVE  StoredPassages(c) \in Seq(Passages) /\ IsInjective(StoredPassages(c))
<1> DEFINE piece(i) == IF documents[i].cid = c THEN PassagesOf(documents[i].doc) ELSE <<>>
           pieces == [i \in DOMAIN documents |-> piece(i)]
<1>1. PICK n \in Nat : DOMAIN documents = 1..n
  BY DEF DocumentsOK
<1>2. \A i \in 1..n : documents[i].doc \in Documents
  <2>1. \A i \in 1..n : documents[i] \in [doc : Documents, cid : Collections]
    BY <1>1, ElementOf DEF DocumentsOK
  <2>2. \A d \in [doc : Documents, cid : Collections] : d.doc \in Documents
    OBVIOUS
  <2> QED
    BY <2>1, <2>2
<1>3. ASSUME NEW i \in 1..n
      PROVE  pieces[i] \in Seq(Passages) /\ \A k \in DOMAIN pieces[i] : pieces[i][k] = <<documents[i].doc, k>>
  <2>1. pieces[i] = piece(i)
    BY <1>1
  <2>2. /\ PassagesOf(documents[i].doc) \in Seq(Passages)
        /\ \A k \in DOMAIN PassagesOf(documents[i].doc) : PassagesOf(documents[i].doc)[k] = <<documents[i].doc, k>>
    BY <1>2, PassagesAre
  <2>3. <<>> \in Seq(Passages) /\ DOMAIN <<>> = {}
    OBVIOUS
  <2> HIDE DEF pieces
  <2> QED
    BY <2>1, <2>2, <2>3
<1>4. pieces = [i \in 1..n |-> pieces[i]]
  BY <1>1
<1> HIDE DEF pieces
<1>5. pieces \in Seq(Seq(Passages))
  BY <1>3, <1>4
<1>6. Apart(pieces)
  <2>1. SUFFICES ASSUME NEW i \in 1..n, NEW j \in 1..n, NEW k \in DOMAIN pieces[i], NEW l \in DOMAIN pieces[j],
                        pieces[i][k] = pieces[j][l]
                 PROVE  i = j /\ k = l
    BY <1>4 DEF Apart
  <2>2. <<documents[i].doc, k>> = <<documents[j].doc, l>>
    BY <1>3, <2>1
  <2>3. documents[i].doc = documents[j].doc /\ k = l
    BY <2>2
  <2> QED
    BY <1>1, <2>3 DEF DocumentsOK
<1>7. StoredPassages(c) = FlattenSeq(pieces)
  BY DEF StoredPassages, pieces
<1> QED
  BY <1>5, <1>6, <1>7, FlattenIs, FlattenApart

------------------------------------------------------------------------------
(* The rankings of a pool, and what they are fused to.                      *)

(* Two things are two.                                                      *)
LEMMA TwoAre ==
  ASSUME NEW a, NEW b, a # b
  PROVE  IsFiniteSet({a, b}) /\ Cardinality({a, b}) = 2
<1>1. IsFiniteSet({a}) /\ Cardinality({a}) = 1
  BY FS_Singleton
<1>2. /\ IsFiniteSet({a} \cup {b})
      /\ Cardinality({a} \cup {b}) = IF b \in {a} THEN Cardinality({a}) ELSE Cardinality({a}) + 1
  BY <1>1, FS_AddElement
<1>3. {a} \cup {b} = {a, b} /\ b \notin {a}
  OBVIOUS
<1> QED
  BY <1>1, <1>2, <1>3

LEMMA PassagesFinite == IsFiniteSet(Passages)
<1>1. Rankings \in Seq(Seq(Passages)) /\ Rankings # <<>>
  BY RankingsAssumption
<1>2. 1 \in DOMAIN Rankings
  BY <1>1
<1>3. Rankings[1] \in Seq(Passages) /\ Rankings[1] \in Range(Rankings)
  BY <1>1, <1>2, ElementOf DEF Range
<1>4. Range(Rankings[1]) = Passages
  BY <1>3, RankingsAssumption
<1> DEFINE s == Rankings[1]
           n == Len(s)
<1>5. n \in Nat /\ n \in Int /\ 1 \in Int /\ DOMAIN s = 1..n
  BY <1>3
<1>6. s \in Surjection(1..n, Passages)
  <2> HIDE DEF n, s
  <2>1. s \in [1..n -> Passages]
    BY <1>3, <1>5, ElementOf DEF s
  <2> QED
    BY <1>4, <1>5, <2>1 DEF Surjection, Range, s
<1>7. IsFiniteSet(1..n)
  BY <1>5, FS_Interval
<1> HIDE DEF n, s
<1> QED
  BY <1>6, <1>7, FS_Surjection

LEMMA MinOf == ASSUME NEW a \in Nat, NEW b \in Nat PROVE Min({a, b}) = IF a <= b THEN a ELSE b
<1> DEFINE m == IF a <= b THEN a ELSE b
<1>1. m \in {a, b} /\ \A y \in {a, b} : m <= y
  OBVIOUS
<1>2. \A x \in {a, b} : (\A y \in {a, b} : x <= y) => x = m
  OBVIOUS
<1> HIDE DEF m
<1>3. Min({a, b}) = m
  BY <1>1, <1>2 DEF Min
<1> QED
  BY <1>3 DEF m

LEMMA MaxOf == ASSUME NEW a \in Nat, NEW b \in Nat PROVE Max({a, b}) = IF a <= b THEN b ELSE a
<1> DEFINE m == IF a <= b THEN b ELSE a
<1>1. m \in {a, b} /\ \A y \in {a, b} : m >= y
  OBVIOUS
<1>2. \A x \in {a, b} : (\A y \in {a, b} : x >= y) => x = m
  OBVIOUS
<1> HIDE DEF m
<1>3. Max({a, b}) = m
  BY <1>1, <1>2 DEF Max
<1> QED
  BY <1>3 DEF m

(* Where the passages of a corpus are in a ranking.                         *)
Found(order, corpus) == {n \in DOMAIN order : order[n] \in Range(corpus)}

LEMMA FoundAre ==
  ASSUME NEW order \in Seq(Passages), IsInjective(order), NEW corpus \in Seq(Passages)
  PROVE  /\ IsFiniteSet(Found(order, corpus)) /\ Cardinality(Found(order, corpus)) \in Nat
         /\ Cardinality(Found(order, corpus)) <= Len(corpus)
         /\ Found(order, corpus) \in SUBSET DOMAIN order
<1> DEFINE I == Found(order, corpus)
           m == Len(corpus)
           place == [n \in I |-> CHOOSE j \in 1..m : corpus[j] = order[n]]
<1>1. m \in Nat /\ m \in Int /\ 1 \in Int /\ DOMAIN corpus = 1..m
  OBVIOUS
<1>2. I \in SUBSET DOMAIN order
  BY DEF Found
<1> HIDE DEF m
<1>3. ASSUME NEW n \in I PROVE \E j \in 1..m : corpus[j] = order[n]
  BY <1>1 DEF Found, Range
<1> HIDE DEF I
<1>4. \A n \in I : place[n] \in 1..m /\ corpus[place[n]] = order[n]
  BY <1>3
<1>5. place \in [I -> 1..m]
  BY <1>4
<1> HIDE DEF place
<1>6. \A n, k \in I : place[n] = place[k] => n = k
  BY <1>2, <1>4 DEF IsInjective
<1>7. place \in Injection(I, 1..m)
  BY <1>5, <1>6 DEF Injection, IsInjective
<1>8. IsFiniteSet(1..m) /\ Cardinality(1..m) = m
  <2>1. IsFiniteSet(1..m) /\ Cardinality(1..m) = IF 1 > m THEN 0 ELSE m - 1 + 1
    BY <1>1, FS_Interval
  <2> QED
    BY <1>1, <2>1
<1>9. IsFiniteSet(I) /\ Cardinality(I) <= m
  BY <1>7, <1>8, FS_Injection
<1> QED
  BY <1>2, <1>9, FS_CardinalityType DEF I, m

LEMMA RankingIs ==
  ASSUME NEW order \in Seq(Passages), IsInjective(order), NEW corpus \in Seq(Passages), NEW depth \in Nat
  PROVE  /\ Ranking(order, corpus, depth) \in Seq(Passages)
         /\ Len(corpus) <= depth => Ranking(order, corpus, depth) = Keep(order, Found(order, corpus))
         /\ \A i \in 1..depth : i <= Cardinality(Found(order, corpus)) =>
              /\ i \in DOMAIN Ranking(order, corpus, depth)
              /\ Ranking(order, corpus, depth)[i] = order[InTurn(Found(order, corpus))[i]]
<1> DEFINE I == Found(order, corpus)
           ranked == Keep(order, I)
           c == Cardinality(I)
           m == Min({depth, Len(ranked)})
<1>1. /\ IsFiniteSet(I) /\ c \in Nat /\ c <= Len(corpus) /\ Len(corpus) \in Nat
      /\ I \in SUBSET DOMAIN order
  BY FoundAre
<1>2. /\ ranked \in Seq(Passages) /\ Len(ranked) = c
      /\ \A n \in 1..c : ranked[n] = order[InTurn(I)[n]]
  BY <1>1, KeepIs
<1>3. Ranking(order, corpus, depth) = SubSeq(ranked, 1, m)
  BY DEF Ranking, Found
<1> HIDE DEF ranked, c
<1>4. m \in Nat /\ m <= c /\ (c <= depth => m = c) /\ (depth <= c => m = depth)
  BY <1>1, <1>2, MinOf
<1> HIDE DEF m
<1>5. /\ SubSeq(ranked, 1, m) \in Seq(Passages) /\ Len(SubSeq(ranked, 1, m)) = m
      /\ \A n \in 1..m : SubSeq(ranked, 1, m)[n] = ranked[n]
  BY <1>1, <1>2, <1>4
<1>6. Len(corpus) <= depth => SubSeq(ranked, 1, m) = ranked
  BY <1>1, <1>2, <1>4
<1>7. ASSUME NEW i \in 1..depth, i <= c
      PROVE  i \in 1..m /\ SubSeq(ranked, 1, m)[i] = order[InTurn(I)[i]]
  <2>1. i \in 1..m /\ i \in 1..c
    BY <1>1, <1>4, <1>7
  <2> QED
    BY <1>2, <1>5, <2>1
<1>8. DOMAIN SubSeq(ranked, 1, m) = 1..m
  BY <1>5
<1> QED
  BY <1>3, <1>5, <1>6, <1>7, <1>8 DEF ranked, c

(* Two passages of a corpus are found by every ranking that is read at      *)
(* least two deep.                                                          *)
LEMMA TwoAreFound ==
  ASSUME NEW order \in Seq(Passages), IsInjective(order), Range(order) = Passages,
         NEW corpus \in Seq(Passages), IsInjective(corpus), Len(corpus) >= 2, NEW depth \in Nat, depth >= 2
  PROVE  \E p, q \in Range(Ranking(order, corpus, depth)) : p # q
<1> DEFINE I == Found(order, corpus)
           c == Cardinality(I)
           ranking == Ranking(order, corpus, depth)
<1>1. IsFiniteSet(I) /\ c \in Nat /\ I \in SUBSET DOMAIN order
  BY FoundAre
<1>2. 1 \in DOMAIN corpus /\ 2 \in DOMAIN corpus
  OBVIOUS
<1>3. corpus[1] # corpus[2] /\ corpus[1] \in Range(corpus) /\ corpus[2] \in Range(corpus)
  BY <1>2 DEF IsInjective, Range
<1>4. corpus[1] \in Passages /\ corpus[2] \in Passages
  BY <1>2, ElementOf
<1>5. PICK m, n \in DOMAIN order : order[m] = corpus[1] /\ order[n] = corpus[2]
  BY <1>4 DEF Range
<1>6. m # n /\ m \in I /\ n \in I
  BY <1>3, <1>5 DEF Found
<1>7. c >= 2
  <2>1. IsFiniteSet({m, n}) /\ Cardinality({m, n}) = 2
    BY <1>6, TwoAre
  <2>2. {m, n} \in SUBSET I
    BY <1>6
  <2>3. Cardinality({m, n}) <= c
    BY <1>1, <2>2, FS_Subset
  <2> QED
    BY <1>1, <2>1, <2>3
<1>8. Lists(InTurn(I), I)
  BY <1>1, KeepIs
<1> DEFINE a == InTurn(I)[1]
           b == InTurn(I)[2]
<1>9. 1 \in 1..c /\ 2 \in 1..c /\ 1 \in 1..depth /\ 2 \in 1..depth /\ 1 <= c
  BY <1>1, <1>7
<1>10. a \in I /\ b \in I /\ a # b
  <2>1. InTurn(I) \in [1..c -> I] /\ \A x, y \in 1..c : InTurn(I)[x] = InTurn(I)[y] => x = y
    BY <1>8 DEF Lists
  <2> HIDE DEF c, I
  <2> QED
    BY <1>9, <2>1
<1>11. order[a] # order[b]
  BY <1>1, <1>10 DEF IsInjective
<1>12. 1 \in DOMAIN ranking /\ 2 \in DOMAIN ranking /\ ranking[1] = order[a] /\ ranking[2] = order[b]
  BY <1>7, <1>9, RankingIs
<1> HIDE DEF ranking, a, b
<1>13. ranking[1] \in Range(ranking) /\ ranking[2] \in Range(ranking) /\ ranking[1] # ranking[2]
  BY <1>11, <1>12 DEF Range
<1> QED
  BY <1>13 DEF ranking

(* The rankings a pool is fused from.                                       *)
Sources(corpus, depth) == [r \in DOMAIN Rankings |-> Ranking(Rankings[r], corpus, depth)]
Gathered(corpus, depth) == UNION {Range(f) : f \in Range(Sources(corpus, depth))}

LEMMA RankingsAre ==
  /\ 1 \in DOMAIN Rankings
  /\ \A r \in DOMAIN Rankings :
       Rankings[r] \in Seq(Passages) /\ IsInjective(Rankings[r]) /\ Range(Rankings[r]) = Passages
<1>1. Rankings \in Seq(Seq(Passages)) /\ Rankings # <<>>
  BY RankingsAssumption
<1>2. ASSUME NEW r \in DOMAIN Rankings PROVE Rankings[r] \in Seq(Passages) /\ Rankings[r] \in Range(Rankings)
  BY <1>1, ElementOf DEF Range
<1>3. 1 \in DOMAIN Rankings
  BY <1>1
<1> QED
  BY <1>2, <1>3, RankingsAssumption

LEMMA FusedIs ==
  ASSUME NEW corpus \in Seq(Passages), NEW depth \in Nat
  PROVE  /\ IsFiniteSet(Gathered(corpus, depth)) /\ Len(Fused(corpus, depth)) = Cardinality(Gathered(corpus, depth))
         /\ Len(Fused(corpus, depth)) \in Nat
         /\ \E A : Fused(corpus, depth) \in Seq(A)
<1> DEFINE all == Gathered(corpus, depth)
<1>1. ASSUME NEW r \in DOMAIN Rankings PROVE Range(Ranking(Rankings[r], corpus, depth)) \subseteq Passages
  <2>1. Ranking(Rankings[r], corpus, depth) \in Seq(Passages)
    BY RankingsAre, RankingIs
  <2> QED
    BY <2>1, ElementOf DEF Range
<1>2. all \subseteq Passages
  BY <1>1 DEF Gathered, Sources, Range
<1>3. IsFiniteSet(all) /\ Cardinality(all) \in Nat
  BY <1>2, PassagesFinite, FS_Subset, FS_CardinalityType
<1>4. PICK order : Fused(corpus, depth) = Listed(all, order)
  BY DEF Fused, Gathered, Sources
<1> HIDE DEF all
<1> DEFINE n == Cardinality(all)
           e(i) == CHOOSE x \in all : Cardinality({y \in all : <<y, x>> \in order}) = i
           list == [i \in 1..n |-> e(i)]
<1>5. Fused(corpus, depth) = list
  BY <1>4 DEF Listed
<1>6. \A i \in 1..n : list[i] \in Range(list)
  BY DEF Range
<1> HIDE DEF e
<1>7. list \in [1..n -> Range(list)]
  BY <1>6
<1> HIDE DEF list
<1>8. list \in Seq(Range(list)) /\ Len(list) = n
  BY <1>3, <1>7
<1> QED
  BY <1>3, <1>5, <1>8 DEF all

LEMMA FusedOfTwo ==
  ASSUME NEW corpus \in Seq(Passages), IsInjective(corpus), Len(corpus) >= 2, NEW depth \in Nat, depth >= 2
  PROVE  Len(Fused(corpus, depth)) >= 2
<1> DEFINE all == Gathered(corpus, depth)
<1>1. PICK p, q \in Range(Ranking(Rankings[1], corpus, depth)) : p # q
  BY RankingsAre, TwoAreFound
<1>2. Ranking(Rankings[1], corpus, depth) \in Range(Sources(corpus, depth))
  BY RankingsAre DEF Sources, Range
<1>3. p \in all /\ q \in all
  BY <1>1, <1>2 DEF Gathered
<1>4. {p, q} \in SUBSET all /\ IsFiniteSet({p, q}) /\ Cardinality({p, q}) = 2
  BY <1>1, <1>3, TwoAre
<1>5. IsFiniteSet(all) /\ Len(Fused(corpus, depth)) = Cardinality(all) /\ Cardinality(all) \in Nat
  BY FusedIs
<1>6. Cardinality({p, q}) <= Cardinality(all)
  BY <1>4, <1>5, FS_Subset
<1> QED
  BY <1>4, <1>5, <1>6

(* A pool is fused as a whole when the rankings are read as deep as it is   *)
(* long.                                                                    *)
LEMMA FusedWhole ==
  ASSUME NEW corpus \in Seq(Passages), NEW d1 \in Nat, NEW d2 \in Nat, Len(corpus) <= d1, Len(corpus) <= d2
  PROVE  Fused(corpus, d1) = Fused(corpus, d2)
<1>1. ASSUME NEW r \in DOMAIN Rankings
      PROVE  Ranking(Rankings[r], corpus, d1) = Ranking(Rankings[r], corpus, d2)
  <2>1. Rankings[r] \in Seq(Passages) /\ IsInjective(Rankings[r])
    BY RankingsAre
  <2> QED
    BY <2>1, RankingIs
<1>2. [r \in DOMAIN Rankings |-> Ranking(Rankings[r], corpus, d1)] = [r \in DOMAIN Rankings |-> Ranking(Rankings[r], corpus, d2)]
  BY <1>1
<1> QED
  BY <1>2, Zenon DEF Fused

------------------------------------------------------------------------------
(* A run keeps the best of the passages it read.                            *)

(* The list begins what some k of the pool has fused.                       *)
Best(pool, list) ==
  \E k \in {Show} \cup (2..Len(pool)) :
    LET own == Fused(pool, Max({4 * k, Depth})) IN
    /\ Len(list) \in 2..Len(own)
    /\ list = SubSeq(own, 1, Len(list))
    /\ Len(pool) <= Depth => own = Fused(pool, Len(pool))

LEMMA Beginning ==
  ASSUME NEW A, NEW s \in Seq(A), NEW n \in Nat, n <= Len(s)
  PROVE  /\ Len(SubSeq(s, 1, n)) = n /\ SubSeq(s, 1, n) \in Seq(A)
         /\ \A m \in Nat : m <= n => SubSeq(SubSeq(s, 1, n), 1, m) = SubSeq(s, 1, m)
  OBVIOUS

LEMMA RankedIsBest ==
  ASSUME NEW pool \in Seq(Passages), IsInjective(pool), Len(pool) >= 2,
         NEW k \in {Show} \cup (2..Len(pool)), NEW n \in Nat, n >= 2
  PROVE  LET own == Fused(pool, Max({4 * k, Depth})) IN Best(pool, SubSeq(own, 1, Min({Len(own), n})))
<1> DEFINE depth == Max({4 * k, Depth})
           own == Fused(pool, depth)
           m == Min({Len(own), n})
           l == Len(pool)
<1>1. l \in Nat /\ k \in Nat /\ k >= 2 /\ 4 * k \in Nat /\ Depth \in Nat
  BY StudioAssumption
<1> HIDE DEF l
<1>2. depth \in Nat /\ depth >= 2 /\ (l <= Depth => l <= depth)
  BY <1>1, MaxOf
<1> HIDE DEF depth
<1>3. PICK A : own \in Seq(A)
  BY <1>2, FusedIs
<1>4. Len(own) \in Nat /\ Len(own) >= 2
  BY <1>2, FusedIs, FusedOfTwo
<1>5. l <= Depth => own = Fused(pool, l)
  BY <1>1, <1>2, FusedWhole DEF l
<1> HIDE DEF own
<1>6. m \in 2..Len(own) /\ m \in Nat /\ m <= Len(own)
  BY <1>4, MinOf
<1> HIDE DEF m
<1>7. Len(SubSeq(own, 1, m)) = m
  BY <1>3, <1>6, Beginning
<1>8. Best(pool, SubSeq(own, 1, m))
  BY <1>5, <1>6, <1>7 DEF Best, own, depth, l
<1> QED
  BY <1>8 DEF m, own, depth

LEMMA BestOfBest ==
  ASSUME NEW pool, NEW list, Best(pool, list), pool \in Seq(Passages), NEW n \in Nat, n >= 2
  PROVE  Best(pool, SubSeq(list, 1, Min({Len(list), n})))
<1> DEFINE c == Len(list)
           m == Min({c, n})
<1>1. PICK k \in {Show} \cup (2..Len(pool)) :
        LET own == Fused(pool, Max({4 * k, Depth})) IN
        /\ c \in 2..Len(own) /\ list = SubSeq(own, 1, c)
        /\ Len(pool) <= Depth => own = Fused(pool, Len(pool))
  BY DEF Best
<1> DEFINE depth == Max({4 * k, Depth})
           own == Fused(pool, depth)
<1>2. k \in Nat /\ 4 * k \in Nat /\ Depth \in Nat
  <2>1. Len(pool) \in Nat
    OBVIOUS
  <2> QED
    BY <2>1, StudioAssumption
<1>3. depth \in Nat
  BY <1>2, MaxOf
<1>4. c \in 2..Len(own) /\ list = SubSeq(own, 1, c) /\ (Len(pool) <= Depth => own = Fused(pool, Len(pool)))
  BY <1>1
<1> HIDE DEF depth
<1>5. PICK A : own \in Seq(A)
  BY <1>3, FusedIs
<1>6. Len(own) \in Nat
  BY <1>3, FusedIs
<1> HIDE DEF own, c
<1>7. c \in Nat /\ c <= Len(own) /\ c >= 2
  BY <1>4, <1>6
<1>8. m \in Nat /\ m <= c /\ m \in 2..Len(own) /\ m <= Len(own)
  BY <1>6, <1>7, MinOf
<1> HIDE DEF m
<1>9. SubSeq(list, 1, m) = SubSeq(own, 1, m) /\ Len(SubSeq(own, 1, m)) = m
  BY <1>4, <1>5, <1>7, <1>8, Beginning
<1>10. Best(pool, SubSeq(list, 1, m))
  BY <1>4, <1>8, <1>9 DEF Best, own, depth
<1> QED
  BY <1>10 DEF m, c

(* No document waits twice to be stored, and none that is stored waits.     *)
WaitingOK ==
  /\ \A t \in Threads :
       task[t].todo \in Seq(Documents) /\ IsInjective(task[t].todo) /\ Range(task[t].todo) \subseteq spent
  /\ \A t, u \in Threads : t # u => Range(task[t].todo) \cap Range(task[u].todo) = {}
  /\ \A i \in DOMAIN documents :
       documents[i].doc \in spent /\ \A t \in Threads : documents[i].doc \notin Range(task[t].todo)

(* A retriever holds the passages of its key, and a depth that ranks two.   *)
RetrieversOK ==
  \A key \in DOMAIN retrievers : retrievers[key] \in [corpus : {key[2]}, top_k : {Show} \cup (2..Len(key[2]))]

(* The task of an upload, and that of a run, on the way.                    *)
AddOK(r) == r.op \in {"add", "upload"} /\ r.step # "answered" => r.todo # <<>> /\ r.cid \in Collections

RunOK(r) == r.op = "run" =>
  /\ r.k \in Ks
  /\ r.step \in {"retriever", "top_k", "rank", "cut"} =>
       r.pool \in Seq(Passages) /\ IsInjective(r.pool) /\ Len(r.pool) >= 2
  /\ r.step \in {"top_k", "rank", "cut"} => <<r.cid, r.pool>> \in DOMAIN retrievers
  /\ r.step = "cut" => Best(r.pool, r.fused)
  /\ r.step = "answered" /\ r.outcome = "ok" => Best(r.pool, r.got)

OwnOK == Shape /\ DocumentsOK /\ WaitingOK /\ RetrieversOK /\ \A t \in Threads : AddOK(task[t]) /\ RunOK(task[t])

LEMMA RunStays ==
  ASSUME NEW r, RunOK(r), DOMAIN retrievers \subseteq DOMAIN retrievers'
  PROVE  RunOK(r)'
  BY DEF RunOK

(* What a step of t leaves to show.                                         *)
LEMMA OwnStep ==
  ASSUME OwnOK, NEW t \in Threads, Shape', DocumentsOK', WaitingOK', RetrieversOK',
         DOMAIN retrievers \subseteq DOMAIN retrievers',
         \A u \in Threads : u # t => task'[u] = task[u],
         AddOK(task'[t]), RunOK(task[t])'
  PROVE  OwnOK'
<1>1. ASSUME NEW u \in Threads PROVE AddOK(task'[u]) /\ RunOK(task[u])'
  <2>1. CASE u = t
    BY <2>1
  <2>2. CASE u # t
    <3>1. AddOK(task[u]) /\ RunOK(task[u]) /\ task'[u] = task[u]
      BY <2>2 DEF OwnOK
    <3> QED
      BY <3>1 DEF RunOK
  <2> QED
    BY <2>1, <2>2
<1> QED
  BY <1>1 DEF OwnOK, AddOK

(* A step that neither stores a document nor takes one up.                  *)
LEMMA PapersStay ==
  ASSUME DocumentsOK, WaitingOK, documents' = documents, spent \subseteq spent',
         \A u \in Threads : task'[u].todo = task[u].todo
  PROVE  DocumentsOK' /\ WaitingOK'
<1>1. DocumentsOK'
  BY DEF DocumentsOK
<1>2. ASSUME NEW u \in Threads
      PROVE  /\ task'[u].todo \in Seq(Documents) /\ IsInjective(task'[u].todo)
             /\ Range(task'[u].todo) \subseteq spent'
  BY DEF WaitingOK
<1>3. ASSUME NEW u \in Threads, NEW v \in Threads, u # v
      PROVE  Range(task'[u].todo) \cap Range(task'[v].todo) = {}
  BY <1>3 DEF WaitingOK
<1>4. ASSUME NEW i \in DOMAIN documents'
      PROVE  documents'[i].doc \in spent' /\ \A u \in Threads : documents'[i].doc \notin Range(task'[u].todo)
  BY DEF WaitingOK
<1> QED
  BY <1>1, <1>2, <1>3, <1>4 DEF WaitingOK

(* The parts of a task that hardly a step changes.                          *)
Same(r, q) == r.op = q.op /\ r.cid = q.cid /\ r.k = q.k /\ r.todo = q.todo /\ r.pool = q.pool

(* A step of t that leaves the tables of documents, and these parts, alone. *)
LEMMA QuietStep ==
  ASSUME OwnOK, NEW t \in Threads, Shape', Same(task'[t], task[t]), task[t].step # "answered",
         documents' = documents, spent \subseteq spent', RetrieversOK',
         DOMAIN retrievers \subseteq DOMAIN retrievers',
         \A u \in Threads : u # t => task'[u] = task[u],
         RunOK(task[t])'
  PROVE  OwnOK'
<1>1. \A u \in Threads : task'[u].todo = task[u].todo
  BY DEF Same
<1>2. DocumentsOK' /\ WaitingOK'
  BY <1>1, PapersStay DEF OwnOK
<1>3. AddOK(task'[t])
  BY DEF OwnOK, AddOK, Same
<1> QED
  BY <1>2, <1>3, OwnStep

LEMMA GoesOn ==
  ASSUME Shape, NEW t \in Threads, NEW step, Goes(t, step)
  PROVE  /\ Shape' /\ \A u \in Threads : u # t => task'[u] = task[u]
         /\ Same(task'[t], task[t]) /\ task'[t].step = step
         /\ task'[t].fused = task[t].fused
<1>1. DOMAIN task[t] = Fields
  BY DEF Shape
<1>2. /\ Shape' /\ \A u \in Threads : u # t => task'[u] = task[u]
      /\ task'[t] = [task[t] EXCEPT !.step = step] /\ task'[t].step = step
  BY GoesTo
<1> QED
  BY <1>1, <1>2 DEF Fields, Same

LEMMA AnswersSame ==
  ASSUME Shape, NEW t \in Threads, NEW outcome, Answers(t, outcome)
  PROVE  /\ Shape' /\ \A u \in Threads : u # t => task'[u] = task[u]
         /\ Same(task'[t], task[t]) /\ task'[t].step = "answered" /\ task'[t].outcome = outcome
<1> DEFINE r == [task[t] EXCEPT !.step = "answered", !.outcome = outcome]
<1>1. DOMAIN task[t] = Fields
  BY DEF Shape
<1>2. /\ Shape' /\ \A u \in Threads : u # t => task'[u] = task[u]
      /\ task'[t].step = "answered" /\ task'[t].outcome = outcome
  BY AnswersWith
<1>3. task'[t] = r
  BY DEF Answers, Shape
<1>4. Same(r, task[t])
  BY <1>1 DEF Fields, Same
<1> QED
  BY <1>2, <1>3, <1>4

(* A run that ends without passages, and one that has not read any.         *)
LEMMA RunEnds ==
  ASSUME NEW t \in Threads, RunOK(task[t]), Same(task'[t], task[t]),
         \/ task'[t].step = "answered" /\ task'[t].outcome # "ok"
         \/ task'[t].step \in {"check", "read", "insert", "row"}
  PROVE  RunOK(task[t])'
  BY DEF RunOK, Same

LEMMA OwnFetch ==
  ASSUME OwnOK, NEW t \in Threads,
         \/ Fetch(t) \/ Check(t) \/ Refuse(t)
         \/ DeleteRow(t)
  PROVE  OwnOK'
<1>1. /\ Shape /\ UNCHANGED <<documents, spent, retrievers>> /\ task[t].step # "answered"
      /\ DeleteRow(t) => task[t].op = "delete"
  BY DEF OwnOK, Fetch, Check, Refuse, DeleteRow, Store, At
<1>2. \/ \E step \in {"check", "read", "insert"} : Goes(t, step)
      \/ \E outcome : Answers(t, outcome) /\ (outcome = "ok" => task[t].op = "delete")
  <2>1. CASE Fetch(t)
    BY <2>1 DEF Fetch
  <2>2. CASE Check(t)
    BY <2>2 DEF Check
  <2>3. CASE Refuse(t)
    BY <2>3 DEF Refuse
  <2>4. CASE DeleteRow(t)
    <3>1. PICK outcome : Answers(t, outcome)
      BY <2>4 DEF DeleteRow
    <3> QED
      BY <1>1, <2>4, <3>1
  <2> QED
    BY <2>1, <2>2, <2>3, <2>4
<1>3. RetrieversOK'
  BY <1>1 DEF OwnOK, RetrieversOK
<1>4. CASE \E step \in {"check", "read", "insert"} : Goes(t, step)
  <2>1. PICK step \in {"check", "read", "insert"} : Goes(t, step)
    BY <1>4
  <2>2. /\ Shape' /\ \A u \in Threads : u # t => task'[u] = task[u]
        /\ Same(task'[t], task[t]) /\ task'[t].step = step
    BY <1>1, <2>1, GoesOn
  <2>3. RunOK(task[t])'
    BY <2>2, RunEnds DEF OwnOK
  <2> QED
    BY <1>1, <1>3, <2>2, <2>3, QuietStep
<1>5. CASE \E outcome : Answers(t, outcome) /\ (outcome = "ok" => task[t].op = "delete")
  <2>1. PICK outcome : Answers(t, outcome) /\ (outcome = "ok" => task[t].op = "delete")
    BY <1>5
  <2>2. /\ Shape' /\ \A u \in Threads : u # t => task'[u] = task[u]
        /\ Same(task'[t], task[t]) /\ task'[t].step = "answered" /\ task'[t].outcome = outcome
    BY <1>1, <2>1, AnswersSame
  <2>3. RunOK(task[t])'
    <3>1. CASE outcome = "ok"
      BY <2>1, <2>2, <3>1 DEF RunOK, Same
    <3>2. CASE outcome # "ok"
      BY <2>2, <3>2, RunEnds DEF OwnOK
    <3> QED
      BY <3>1, <3>2
  <2> QED
    BY <1>1, <1>3, <2>2, <2>3, QuietStep
<1> QED
  BY <1>2, <1>4, <1>5

LEMMA OwnRead ==
  ASSUME OwnOK, NEW t \in Threads, Read(t)
  PROVE  OwnOK'
<1> DEFINE held == StoredPassages(task[t].cid)
           kept == [task[t] EXCEPT !.pool = held, !.step = "retriever"]
           shown == [task[t] EXCEPT !.pool = held, !.got = held, !.step = "answered", !.outcome = "ok"]
<1>1. Shape /\ UNCHANGED <<documents, spent, retrievers>> /\ task[t].step = "read"
  BY DEF OwnOK, Read, Store
<1>2. DOMAIN task[t] = Fields /\ task[t] = [f \in Fields |-> task[t][f]]
  BY <1>1 DEF Shape
<1>3. \/ Answers(t, "refused")
      \/ task[t].op = "run" /\ Len(held) >= 2 /\ task' = [task EXCEPT ![t] = kept]
      \/ task[t].op # "run" /\ task' = [task EXCEPT ![t] = shown]
  <2>1. Len(held) \in Nat
    BY StoredIs DEF OwnOK
  <2>2. Len(held) < 2 \/ Len(held) >= 2
    BY <2>1
  <2> HIDE DEF held
  <2> QED
    BY <1>1, <2>2 DEF Read, Shape, held
<1>4. held \in Seq(Passages) /\ IsInjective(held)
  BY StoredIs DEF OwnOK
<1>5. /\ DOMAIN kept = Fields /\ kept = [f \in Fields |-> kept[f]]
      /\ kept.op = task[t].op /\ kept.cid = task[t].cid /\ kept.k = task[t].k /\ kept.todo = task[t].todo
      /\ kept.pool = held /\ kept.step = "retriever"
  <2> HIDE DEF held
  <2> QED
    BY <1>2 DEF Fields
<1>6. /\ DOMAIN shown = Fields /\ shown = [f \in Fields |-> shown[f]]
      /\ shown.op = task[t].op /\ shown.cid = task[t].cid /\ shown.k = task[t].k /\ shown.todo = task[t].todo
  <2> HIDE DEF held
  <2> QED
    BY <1>2 DEF Fields
<1>7. RetrieversOK'
  BY <1>1 DEF OwnOK, RetrieversOK
<1> HIDE DEF held, kept, shown
<1>8. CASE Answers(t, "refused")
  <2>1. /\ Shape' /\ \A u \in Threads : u # t => task'[u] = task[u]
        /\ Same(task'[t], task[t]) /\ task'[t].step = "answered" /\ task'[t].outcome = "refused"
    BY <1>1, <1>8, AnswersSame
  <2>2. RunOK(task[t])'
    BY <2>1, RunEnds DEF OwnOK
  <2> QED
    BY <1>1, <1>7, <2>1, <2>2, QuietStep
<1>9. ASSUME NEW r, task' = [task EXCEPT ![t] = r], DOMAIN r = Fields, r = [f \in Fields |-> r[f]],
             r.op = task[t].op, r.cid = task[t].cid, r.todo = task[t].todo, RunOK(r)
      PROVE  OwnOK'
  <2>1. /\ Shape' /\ task'[t] = r
        /\ \A u \in Threads : u # t => task'[u] = task[u]
    BY <1>1, <1>9, OneTask
  <2>2. \A u \in Threads : task'[u].todo = task[u].todo
    BY <1>9, <2>1
  <2>3. DocumentsOK' /\ WaitingOK'
    BY <1>1, <2>2, PapersStay DEF OwnOK
  <2>4. AddOK(task'[t])
    BY <1>1, <1>9, <2>1 DEF OwnOK, AddOK
  <2>5. RunOK(task[t])'
    BY <1>1, <1>9, <2>1 DEF RunOK
  <2> QED
    BY <1>1, <1>7, <2>1, <2>3, <2>4, <2>5, OwnStep
<1>10. CASE task[t].op = "run" /\ Len(held) >= 2 /\ task' = [task EXCEPT ![t] = kept]
  <2>1. RunOK(kept)
    BY <1>4, <1>5, <1>10 DEF RunOK, OwnOK
  <2> QED
    BY <1>5, <1>9, <1>10, <2>1
<1>11. CASE task[t].op # "run" /\ task' = [task EXCEPT ![t] = shown]
  <2>1. RunOK(shown)
    BY <1>6, <1>11 DEF RunOK
  <2> QED
    BY <1>6, <1>9, <1>11, <2>1
<1> QED
  BY <1>3, <1>8, <1>10, <1>11

(* A new retriever has its corpus of the task's pool.                       *)
LEMMA OwnRetrieve ==
  ASSUME OwnOK, NEW t \in Threads, Retrieve(t)
  PROVE  OwnOK'
<1> DEFINE pool == task[t].pool
           key == <<task[t].cid, pool>>
           new == [corpus |-> pool, top_k |-> Show]
<1>1. /\ Shape /\ UNCHANGED <<documents, spent>> /\ task[t].step = "retriever" /\ task[t].op = "run"
      /\ Goes(t, "top_k")
      /\ retrievers' = IF key \in DOMAIN retrievers THEN retrievers
                       ELSE [x \in DOMAIN retrievers \cup {key} |-> IF x = key THEN new ELSE retrievers[x]]
  BY DEF OwnOK, Retrieve, At, KeyOf, Key
<1>2. /\ Shape' /\ \A u \in Threads : u # t => task'[u] = task[u]
      /\ Same(task'[t], task[t]) /\ task'[t].step = "top_k"
  BY <1>1, GoesOn
<1>3. RunOK(task[t])
  BY DEF OwnOK
<1>4. new \in [corpus : {key[2]}, top_k : {Show} \cup (2..Len(key[2]))]
  <2> HIDE DEF pool
  <2> QED
    OBVIOUS
<1> HIDE DEF new
<1>5. RetrieversOK' /\ DOMAIN retrievers \subseteq DOMAIN retrievers' /\ key \in DOMAIN retrievers'
  <2>1. CASE key \in DOMAIN retrievers
    BY <1>1, <2>1 DEF OwnOK, RetrieversOK
  <2>2. CASE key \notin DOMAIN retrievers
    <3> HIDE DEF key
    <3>1. retrievers' = [x \in DOMAIN retrievers \cup {key} |-> IF x = key THEN new ELSE retrievers[x]]
      BY <1>1, <2>2
    <3>2. DOMAIN retrievers' = DOMAIN retrievers \cup {key}
      BY <3>1
    <3>3. ASSUME NEW x \in DOMAIN retrievers'
          PROVE  retrievers'[x] \in [corpus : {x[2]}, top_k : {Show} \cup (2..Len(x[2]))]
      <4>1. CASE x = key
        BY <1>4, <3>1, <3>2, <4>1
      <4>2. CASE x # key
        <5>1. x \in DOMAIN retrievers /\ retrievers'[x] = retrievers[x]
          BY <3>1, <3>2, <4>2
        <5> QED
          BY <5>1 DEF OwnOK, RetrieversOK
      <4> QED
        BY <4>1, <4>2
    <3> QED
      BY <3>2, <3>3 DEF RetrieversOK
  <2> QED
    BY <2>1, <2>2
<1>6. RunOK(task[t])'
  BY <1>1, <1>2, <1>3, <1>5 DEF RunOK, Same
<1> QED
  BY <1>1, <1>2, <1>5, <1>6, QuietStep

(* top_k is set to a depth that ranks two: k and the pool are two at least. *)
LEMMA OwnSetTopK ==
  ASSUME OwnOK, NEW t \in Threads, SetTopK(t)
  PROVE  OwnOK'
<1> DEFINE pool == task[t].pool
           key == <<task[t].cid, pool>>
           top == Min({task[t].k, Len(pool)})
<1>1. /\ Shape /\ UNCHANGED <<documents, spent>> /\ task[t].step = "top_k" /\ task[t].op = "run"
      /\ Goes(t, "rank") /\ retrievers' = [retrievers EXCEPT ![key].top_k = top]
  BY DEF OwnOK, SetTopK, At, KeyOf, Key
<1>2. /\ Shape' /\ \A u \in Threads : u # t => task'[u] = task[u]
      /\ Same(task'[t], task[t]) /\ task'[t].step = "rank"
  BY <1>1, GoesOn
<1>3. RunOK(task[t])
  BY DEF OwnOK
<1>4. /\ task[t].k \in Nat /\ task[t].k >= 2 /\ pool \in Seq(Passages) /\ Len(pool) >= 2
      /\ key \in DOMAIN retrievers
  <2>1. task[t].k \in Ks /\ pool \in Seq(Passages) /\ Len(pool) >= 2 /\ key \in DOMAIN retrievers
    BY <1>1, <1>3 DEF RunOK
  <2>2. \A k \in Ks : k \in Nat /\ k >= 2
    BY StudioAssumption
  <2> HIDE DEF pool, key
  <2> QED
    BY <2>1, <2>2
<1>5. top \in 2..Len(key[2])
  <2>1. PICK l \in Nat : l = Len(pool) /\ l >= 2
    BY <1>4
  <2>2. PICK k \in Nat : k = task[t].k /\ k >= 2
    BY <1>4
  <2>3. Min({k, l}) \in 2..l
    BY <2>1, <2>2, MinOf
  <2> QED
    BY <2>1, <2>2, <2>3
<1> HIDE DEF top, key
<1>6. /\ DOMAIN retrievers' = DOMAIN retrievers
      /\ retrievers'[key] = [retrievers[key] EXCEPT !.top_k = top]
      /\ \A x \in DOMAIN retrievers : x # key => retrievers'[x] = retrievers[x]
  BY <1>1, <1>4
<1>7. \A x \in DOMAIN retrievers : retrievers[x] \in [corpus : {x[2]}, top_k : {Show} \cup (2..Len(x[2]))]
  BY DEF OwnOK, RetrieversOK
<1>8. retrievers'[key] \in [corpus : {key[2]}, top_k : {Show} \cup (2..Len(key[2]))]
  BY <1>4, <1>5, <1>6, <1>7
<1>9. RetrieversOK'
  BY <1>6, <1>7, <1>8 DEF RetrieversOK
<1>10. RunOK(task[t])'
  BY <1>1, <1>2, <1>3, <1>6 DEF RunOK, Same
<1> QED
  BY <1>1, <1>2, <1>6, <1>9, <1>10, QuietStep

(* The corpus that is ranked is that of the key, the pool of the task.      *)
LEMMA OwnRank ==
  ASSUME OwnOK, NEW t \in Threads, Rank(t)
  PROVE  OwnOK'
<1> DEFINE pool == task[t].pool
           key == <<task[t].cid, pool>>
           found == retrievers[key]
           all == Fused(found.corpus, Max({4 * found.top_k, Depth}))
           list == SubSeq(all, 1, Min({Len(all), Max({found.top_k, Show})}))
           r == [task[t] EXCEPT !.step = "cut", !.fused = list]
<1>1. /\ Shape /\ UNCHANGED <<documents, spent, retrievers>> /\ task[t].step = "rank" /\ task[t].op = "run"
      /\ task' = [task EXCEPT ![t].step = "cut", ![t].fused = list]
  BY DEF OwnOK, Rank, At, KeyOf, Key, Store
<1>2. DOMAIN task[t] = Fields /\ task[t] = [f \in Fields |-> task[t][f]]
  BY <1>1 DEF Shape
<1>3. /\ pool \in Seq(Passages) /\ IsInjective(pool) /\ Len(pool) >= 2 /\ key \in DOMAIN retrievers
      /\ task[t].k \in Ks
  BY <1>1 DEF OwnOK, RunOK
<1>4. found.corpus = pool /\ found.top_k \in {Show} \cup (2..Len(pool))
  <2>1. found \in [corpus : {key[2]}, top_k : {Show} \cup (2..Len(key[2]))]
    BY <1>3 DEF OwnOK, RetrieversOK
  <2> HIDE DEF found, pool
  <2> QED
    BY <2>1
<1>5. Best(pool, list)
  <2> DEFINE top == found.top_k
             n == Max({top, Show})
  <2>1. top \in Nat /\ top >= 2 /\ Show \in Nat /\ Show >= 2
    <3> HIDE DEF found, pool
    <3>1. Len(pool) \in Nat
      BY <1>3
    <3> QED
      BY <1>4, <3>1, StudioAssumption
  <2>2. top \in {Show} \cup (2..Len(pool))
    BY <1>4
  <2> HIDE DEF top
  <2>3. n \in Nat /\ n >= 2
    BY <2>1, MaxOf
  <2> HIDE DEF n
  <2>4. LET own == Fused(pool, Max({4 * top, Depth})) IN Best(pool, SubSeq(own, 1, Min({Len(own), n})))
    BY <1>3, <2>2, <2>3, RankedIsBest
  <2> QED
    BY <1>4, <2>4 DEF top, n
<1>6. task' = [task EXCEPT ![t] = r]
  <2> HIDE DEF list
  <2> QED
    BY <1>1 DEF Shape
<1> HIDE DEF list
<1>7. /\ DOMAIN r = Fields /\ r = [f \in Fields |-> r[f]]
      /\ Same(r, task[t]) /\ r.step = "cut" /\ r.fused = list
  BY <1>2 DEF Fields, Same
<1> HIDE DEF r
<1>8. /\ Shape' /\ task'[t] = r
      /\ \A u \in Threads : u # t => task'[u] = task[u]
  BY <1>1, <1>6, <1>7, OneTask
<1>9. RunOK(task[t])'
  BY <1>1, <1>3, <1>5, <1>7, <1>8 DEF RunOK, Same
<1>10. RetrieversOK'
  BY <1>1 DEF OwnOK, RetrieversOK
<1> QED
  BY <1>1, <1>7, <1>8, <1>9, <1>10, QuietStep

LEMMA OwnCut ==
  ASSUME OwnOK, NEW t \in Threads, Cut(t)
  PROVE  OwnOK'
<1> DEFINE pool == task[t].pool
           key == <<task[t].cid, pool>>
           top == retrievers[key].top_k
           list == SubSeq(task[t].fused, 1, Min({Len(task[t].fused), top}))
           r == [task[t] EXCEPT !.step = "answered", !.outcome = "ok", !.got = list]
<1>1. /\ Shape /\ UNCHANGED <<documents, spent, retrievers>> /\ task[t].step = "cut" /\ task[t].op = "run"
      /\ task' = [task EXCEPT ![t].step = "answered", ![t].outcome = "ok", ![t].got = list]
  BY DEF OwnOK, Cut, At, KeyOf, Key, Store
<1>2. DOMAIN task[t] = Fields /\ task[t] = [f \in Fields |-> task[t][f]]
  BY <1>1 DEF Shape
<1>3. /\ pool \in Seq(Passages) /\ Len(pool) >= 2 /\ key \in DOMAIN retrievers
      /\ task[t].k \in Ks /\ Best(pool, task[t].fused)
  BY <1>1 DEF OwnOK, RunOK
<1>4. top \in Nat /\ top >= 2
  <2> DEFINE found == retrievers[key]
  <2>1. found \in [corpus : {key[2]}, top_k : {Show} \cup (2..Len(key[2]))]
    BY <1>3 DEF OwnOK, RetrieversOK
  <2> HIDE DEF found, pool
  <2>2. found.top_k \in {Show} \cup (2..Len(pool)) /\ Len(pool) \in Nat
    BY <1>3, <2>1
  <2>3. found.top_k \in Nat /\ found.top_k >= 2
    BY <2>2, StudioAssumption
  <2> QED
    BY <2>3 DEF found
<1> HIDE DEF top
<1>5. Best(pool, list)
  BY <1>3, <1>4, BestOfBest
<1>6. task' = [task EXCEPT ![t] = r]
  <2> HIDE DEF list
  <2> QED
    BY <1>1 DEF Shape
<1> HIDE DEF list
<1>7. /\ DOMAIN r = Fields /\ r = [f \in Fields |-> r[f]]
      /\ Same(r, task[t]) /\ r.step = "answered" /\ r.got = list
  BY <1>2 DEF Fields, Same
<1> HIDE DEF r
<1>8. /\ Shape' /\ task'[t] = r
      /\ \A u \in Threads : u # t => task'[u] = task[u]
  BY <1>1, <1>6, <1>7, OneTask
<1>9. RunOK(task[t])'
  BY <1>1, <1>3, <1>5, <1>7, <1>8 DEF RunOK, Same
<1>10. RetrieversOK'
  BY <1>1 DEF OwnOK, RetrieversOK
<1> QED
  BY <1>1, <1>7, <1>8, <1>9, <1>10, QuietStep

(* The documents of a deleted collection go: the rest stays stored once.    *)
LEMMA OwnDeleteDocuments ==
  ASSUME OwnOK, NEW t \in Threads, DeleteDocuments(t)
  PROVE  OwnOK'
<1> DEFINE D == [doc : Documents, cid : Collections]
           I == {n \in DOMAIN documents : documents[n].cid # task[t].cid}
           c == Cardinality(I)
           kept == Keep(documents, I)
<1>1. /\ Shape /\ UNCHANGED <<spent, retrievers>> /\ task[t].step = "documents" /\ task[t].op = "delete"
      /\ Goes(t, "row") /\ documents' = kept
  BY DEF OwnOK, DeleteDocuments, At
<1>2. /\ Shape' /\ \A u \in Threads : u # t => task'[u] = task[u]
      /\ Same(task'[t], task[t]) /\ task'[t].step = "row"
  BY <1>1, GoesOn
<1>3. documents \in Seq(D) /\ I \in SUBSET DOMAIN documents
  BY DEF OwnOK, DocumentsOK
<1>4. \A i, j \in DOMAIN documents : documents[i].doc = documents[j].doc => i = j
  BY DEF OwnOK, DocumentsOK
<1> HIDE DEF D, I
<1>5. /\ c \in Nat /\ kept \in Seq(D) /\ Len(kept) = c /\ Lists(InTurn(I), I)
      /\ \A n \in 1..c : kept[n] = documents[InTurn(I)[n]]
  BY <1>3, KeepIs
<1> DEFINE b == InTurn(I)
<1>6. b \in [1..c -> I] /\ \A m, n \in 1..c : b[m] = b[n] => m = n
  BY <1>5 DEF Lists
<1>7. DOMAIN kept = 1..c
  BY <1>5
<1> HIDE DEF b, c, kept
<1>8. \A n \in 1..c : b[n] \in DOMAIN documents /\ kept[n] = documents[b[n]]
  BY <1>3, <1>5, <1>6 DEF b
<1>9. DocumentsOK'
  <2>1. documents' \in Seq(D)
    BY <1>1, <1>5
  <2>2. ASSUME NEW m \in 1..c, NEW n \in 1..c, kept[m].doc = kept[n].doc PROVE m = n
    BY <1>4, <1>6, <1>8, <2>2
  <2> QED
    BY <1>1, <1>7, <2>1, <2>2 DEF DocumentsOK, D
<1>10. \A u \in Threads : task'[u].todo = task[u].todo
  BY <1>2 DEF Same
<1>11. WaitingOK'
  <2>1. ASSUME NEW n \in 1..c
        PROVE  kept[n].doc \in spent /\ \A u \in Threads : kept[n].doc \notin Range(task[u].todo)
    BY <1>8 DEF OwnOK, WaitingOK
  <2>2. WaitingOK
    BY DEF OwnOK
  <2>3. ASSUME NEW u \in Threads
        PROVE  /\ task'[u].todo \in Seq(Documents) /\ IsInjective(task'[u].todo)
               /\ Range(task'[u].todo) \subseteq spent'
    BY <1>1, <1>10, <2>2 DEF WaitingOK
  <2>4. ASSUME NEW u \in Threads, NEW v \in Threads, u # v
        PROVE  Range(task'[u].todo) \cap Range(task'[v].todo) = {}
    BY <1>10, <2>2, <2>4 DEF WaitingOK
  <2>5. ASSUME NEW i \in DOMAIN documents'
        PROVE  documents'[i].doc \in spent' /\ \A u \in Threads : documents'[i].doc \notin Range(task'[u].todo)
    BY <1>1, <1>7, <1>10, <2>1
  <2> QED
    BY <2>3, <2>4, <2>5 DEF WaitingOK
<1>12. RetrieversOK' /\ DOMAIN retrievers \subseteq DOMAIN retrievers'
  BY <1>1 DEF OwnOK, RetrieversOK
<1>13. RunOK(task[t])' /\ AddOK(task'[t])
  BY <1>1, <1>2 DEF RunOK, AddOK, Same
<1> QED
  BY <1>2, <1>9, <1>11, <1>12, <1>13, OwnStep

(* A document is stored when it no longer waits.                            *)
LEMMA OwnInsert ==
  ASSUME OwnOK, NEW t \in Threads, Insert(t)
  PROVE  OwnOK'
<1> DEFINE D == [doc : Documents, cid : Collections]
           todo == task[t].todo
           h == Head(todo)
           rest == Tail(todo)
           d == [doc |-> h, cid |-> task[t].cid]
           n == Len(documents)
<1>1. /\ Shape /\ task' = [task EXCEPT ![t] = Inserted(t)]
      /\ UNCHANGED <<spent, retrievers>> /\ task[t].step = "insert" /\ task[t].op \in {"add", "upload"}
      /\ documents' = Append(documents, d)
  BY DEF OwnOK, Insert, At
<1>2. DOMAIN task[t] = Fields /\ task[t] = [f \in Fields |-> task[t][f]]
  BY <1>1 DEF Shape
<1>3. /\ DOMAIN Inserted(t) = Fields /\ Inserted(t) = [f \in Fields |-> Inserted(t)[f]]
      /\ Inserted(t).cid = task[t].cid /\ Inserted(t).op = task[t].op /\ Inserted(t).todo = rest
      /\ Inserted(t).step = IF rest = <<>> THEN "answered" ELSE "check"
  <2> HIDE DEF rest
  <2> QED
    BY <1>2 DEF Inserted, Fields, rest
<1>4. /\ Shape' /\ \A u \in Threads : u # t => task'[u] = task[u]
      /\ task'[t] = Inserted(t)
  BY <1>1, <1>3, OneTask
<1>5. /\ todo \in Seq(Documents) /\ IsInjective(todo) /\ Range(todo) \subseteq spent
      /\ todo # <<>> /\ task[t].cid \in Collections
  BY <1>1 DEF OwnOK, WaitingOK, AddOK
<1>6. /\ h \in Documents /\ h \in Range(todo) /\ rest \in Seq(Documents) /\ IsInjective(rest)
      /\ Range(rest) \subseteq Range(todo) /\ h \notin Range(rest)
  <2> HIDE DEF todo
  <2>1. PICK l \in Nat : l = Len(todo) /\ l >= 1 /\ DOMAIN todo = 1..l
    BY <1>5
  <2>2. /\ h = todo[1] /\ h \in Documents /\ rest \in Seq(Documents) /\ DOMAIN rest = 1..(l - 1)
        /\ \A i \in 1..(l - 1) : rest[i] = todo[i + 1] /\ i + 1 \in 1..l /\ i + 1 # 1
    BY <1>5, <2>1
  <2> HIDE DEF h, rest
  <2>3. 1 \in DOMAIN todo
    BY <2>1
  <2>4. h \in Range(todo) /\ Range(rest) \subseteq Range(todo)
    BY <2>1, <2>2, <2>3 DEF Range
  <2>5. h \notin Range(rest)
    BY <1>5, <2>1, <2>2, <2>3 DEF Range, IsInjective
  <2>6. IsInjective(rest)
    <3>1. SUFFICES ASSUME NEW i \in 1..(l - 1), NEW j \in 1..(l - 1), rest[i] = rest[j] PROVE i = j
      BY <2>2 DEF IsInjective
    <3>2. i + 1 = j + 1
      BY <1>5, <2>1, <2>2, <3>1 DEF IsInjective
    <3> QED
      BY <3>2
  <2> QED
    BY <2>2, <2>4, <2>5, <2>6
<1>7. d \in D /\ d.doc = h
  <2> HIDE DEF h
  <2> QED
    BY <1>5, <1>6
<1>8. documents \in Seq(D)
  BY DEF OwnOK, DocumentsOK
<1> HIDE DEF D, d
<1>9. /\ n \in Nat /\ DOMAIN documents = 1..n /\ documents' \in Seq(D) /\ DOMAIN documents' = 1..(n + 1)
      /\ documents'[n + 1] = d /\ \A i \in 1..n : documents'[i] = documents[i]
  BY <1>1, <1>7, <1>8
<1> HIDE DEF n, h, rest
<1>10. /\ \A i, j \in 1..n : documents[i].doc = documents[j].doc => i = j
       /\ \A i \in 1..n : documents[i].doc \in spent /\ documents[i].doc # h
       /\ \A i \in 1..n : \A u \in Threads : documents[i].doc \notin Range(task[u].todo)
  BY <1>6, <1>9 DEF OwnOK, DocumentsOK, WaitingOK
<1>11. DocumentsOK'
  <2>1. ASSUME NEW i \in 1..(n + 1), NEW j \in 1..(n + 1), documents'[i].doc = documents'[j].doc PROVE i = j
    <3>1. (i \in 1..n \/ i = n + 1) /\ (j \in 1..n \/ j = n + 1)
      BY <1>9
    <3> QED
      BY <1>7, <1>9, <1>10, <2>1, <3>1
  <2> QED
    BY <1>9, <2>1 DEF DocumentsOK, D
<1>12. WaitingOK'
  <2>1. WaitingOK
    BY DEF OwnOK
  <2>2. task'[t].todo = rest /\ \A u \in Threads : u # t => task'[u].todo = task[u].todo
    BY <1>3, <1>4
  <2>3. ASSUME NEW u \in Threads
        PROVE  /\ task'[u].todo \in Seq(Documents) /\ IsInjective(task'[u].todo)
               /\ Range(task'[u].todo) \subseteq spent'
    <3>1. CASE u = t
      BY <1>1, <1>5, <1>6, <2>2, <3>1
    <3>2. CASE u # t
      BY <1>1, <2>1, <2>2, <3>2 DEF WaitingOK
    <3> QED
      BY <3>1, <3>2
  <2>4. ASSUME NEW u \in Threads PROVE Range(task'[u].todo) \subseteq Range(task[u].todo)
    <3>1. CASE u = t
      BY <1>6, <2>2, <3>1
    <3>2. CASE u # t
      BY <2>2, <3>2
    <3> QED
      BY <3>1, <3>2
  <2>5. ASSUME NEW u \in Threads, NEW v \in Threads, u # v
        PROVE  Range(task'[u].todo) \cap Range(task'[v].todo) = {}
    <3>1. Range(task[u].todo) \cap Range(task[v].todo) = {}
      BY <2>1, <2>5 DEF WaitingOK
    <3> QED
      BY <2>4, <3>1
  <2>6. ASSUME NEW u \in Threads PROVE h \notin Range(task'[u].todo)
    <3>1. CASE u = t
      BY <1>6, <2>2, <3>1
    <3>2. CASE u # t
      <4>1. Range(task[u].todo) \cap Range(task[t].todo) = {}
        BY <2>1, <3>2 DEF WaitingOK
      <4> QED
        BY <1>6, <2>4, <4>1
    <3> QED
      BY <3>1, <3>2
  <2>7. ASSUME NEW i \in 1..(n + 1)
        PROVE  documents'[i].doc \in spent' /\ \A u \in Threads : documents'[i].doc \notin Range(task'[u].todo)
    <3>1. CASE i = n + 1
      BY <1>1, <1>5, <1>6, <1>7, <1>9, <2>6, <3>1
    <3>2. CASE i \in 1..n
      BY <1>1, <1>9, <1>10, <2>4, <3>2
    <3> QED
      BY <1>9, <3>1, <3>2
  <2> QED
    BY <1>9, <2>3, <2>5, <2>7 DEF WaitingOK
<1>13. RetrieversOK' /\ DOMAIN retrievers \subseteq DOMAIN retrievers'
  BY <1>1 DEF OwnOK, RetrieversOK
<1>14. RunOK(task[t])'
  BY <1>1, <1>3, <1>4 DEF RunOK
<1>15. AddOK(task'[t])
  BY <1>3, <1>4, <1>5 DEF AddOK
<1> QED
  BY <1>4, <1>11, <1>12, <1>13, <1>14, <1>15, OwnStep

(* What is asked: files that were not handed in before, none of them twice. *)
LEMMA OwnBegin ==
  ASSUME OwnOK, NEW t \in Threads, NEW op \in Ops, NEW c \in Collections, NEW k, NEW todo \in Seq(Documents),
         IsInjective(todo), op \in {"add", "upload"} => todo # <<>>, op = "run" => k \in Ks,
         Begin(t, op, c, k, todo)
  PROVE  OwnOK'
<1> DEFINE r == [Idle EXCEPT !.op = op, !.cid = c, !.k = k, !.todo = todo,
                             !.step = First(op), !.stale = deleted]
<1>1. /\ Shape /\ task' = [task EXCEPT ![t] = r] /\ UNCHANGED <<documents, retrievers>>
      /\ Range(todo) \cap spent = {} /\ spent' = spent \cup Range(todo)
  BY DEF OwnOK, Begin
<1>2. DOMAIN r = Fields /\ r = [f \in Fields |-> r[f]]
  BY DEF Idle, Fields
<1>3. r.op = op /\ r.cid = c /\ r.k = k /\ r.todo = todo /\ r.step = First(op)
  BY DEF Idle
<1>4. First(op) \in {"documents", "fetch", "check"}
  BY DEF First, Ops
<1> HIDE DEF r
<1>5. /\ Shape' /\ \A u \in Threads : u # t => task'[u] = task[u]
      /\ task'[t] = r
  BY <1>1, <1>2, OneTask
<1>6. WaitingOK /\ DocumentsOK
  BY DEF OwnOK
<1>7. WaitingOK'
  <2>1. task'[t].todo = todo /\ \A u \in Threads : u # t => task'[u].todo = task[u].todo
    BY <1>3, <1>5
  <2>2. ASSUME NEW u \in Threads
        PROVE  /\ task'[u].todo \in Seq(Documents) /\ IsInjective(task'[u].todo)
               /\ Range(task'[u].todo) \subseteq spent'
    <3>1. CASE u = t
      BY <1>1, <2>1, <3>1
    <3>2. CASE u # t
      BY <1>1, <1>6, <2>1, <3>2 DEF WaitingOK
    <3> QED
      BY <3>1, <3>2
  <2>3. ASSUME NEW u \in Threads, u # t PROVE Range(task'[u].todo) \cap Range(todo) = {}
    <3>1. Range(task[u].todo) \subseteq spent
      BY <1>6 DEF WaitingOK
    <3> QED
      BY <1>1, <2>1, <2>3, <3>1
  <2>4. ASSUME NEW u \in Threads, NEW v \in Threads, u # v
        PROVE  Range(task'[u].todo) \cap Range(task'[v].todo) = {}
    <3>1. CASE u = t
      BY <2>1, <2>3, <2>4, <3>1
    <3>2. CASE v = t
      BY <2>1, <2>3, <2>4, <3>2
    <3>3. CASE u # t /\ v # t
      BY <1>6, <2>1, <2>4, <3>3 DEF WaitingOK
    <3> QED
      BY <3>1, <3>2, <3>3
  <2>5. ASSUME NEW i \in DOMAIN documents'
        PROVE  documents'[i].doc \in spent' /\ \A u \in Threads : documents'[i].doc \notin Range(task'[u].todo)
    <3>1. /\ documents'[i].doc \in spent
          /\ \A u \in Threads : documents'[i].doc \notin Range(task[u].todo)
      BY <1>1, <1>6 DEF WaitingOK
    <3> QED
      BY <1>1, <2>1, <3>1
  <2> QED
    BY <2>2, <2>4, <2>5 DEF WaitingOK
<1>8. DocumentsOK' /\ RetrieversOK'
  BY <1>1 DEF OwnOK, DocumentsOK, RetrieversOK
<1>9. RunOK(task[t])' /\ AddOK(task'[t])
  BY <1>3, <1>4, <1>5 DEF RunOK, AddOK
<1> QED
  BY <1>1, <1>5, <1>7, <1>8, <1>9, OwnStep

LEMMA OwnCreate ==
  ASSUME OwnOK, NEW c, Create(c)
  PROVE  OwnOK'
<1>1. UNCHANGED <<documents, retrievers, task>> /\ spent \subseteq spent'
  BY DEF Create
<1>2. DocumentsOK' /\ WaitingOK'
  BY <1>1, PapersStay DEF OwnOK
<1>3. Shape' /\ RetrieversOK'
  BY <1>1 DEF OwnOK, Shape, RetrieversOK
<1>4. \A t \in Threads : AddOK(task'[t]) /\ RunOK(task[t])'
  BY <1>1 DEF OwnOK, RunOK
<1> QED
  BY <1>2, <1>3, <1>4 DEF OwnOK, AddOK

LEMMA OwnNext == OwnOK /\ [Next]_vars => OwnOK'
<1> SUFFICES ASSUME OwnOK, [Next]_vars PROVE OwnOK'
  OBVIOUS
<1>1. ASSUME NEW c \in Collections, Create(c) PROVE OwnOK'
  BY <1>1, OwnCreate
<1>2. ASSUME NEW t \in Threads, Step(t) PROVE OwnOK'
  BY <1>2, OwnFetch, OwnRead, OwnRetrieve, OwnSetTopK, OwnRank, OwnCut, OwnDeleteDocuments, OwnInsert DEF Step
<1>3. ASSUME NEW t \in Threads, NEW c \in Collections, Ask(t, c) PROVE OwnOK'
  <2>1. <<>> \in Seq(Documents) /\ IsInjective(<<>>)
    BY DEF IsInjective
  <2>2. ASSUME NEW op \in {"view", "audit", "delete"}, Begin(t, op, c, 0, <<>>) PROVE OwnOK'
    BY <2>1, <2>2, OwnBegin DEF Ops
  <2>3. ASSUME NEW k \in Ks, Begin(t, "run", c, k, <<>>) PROVE OwnOK'
    BY <2>1, <2>3, OwnBegin DEF Ops
  <2>4. ASSUME NEW d \in Documents, Begin(t, "add", c, 0, <<d>>) PROVE OwnOK'
    <3>1. <<d>> \in Seq(Documents) /\ IsInjective(<<d>>) /\ <<d>> # <<>>
      BY DEF IsInjective
    <3> QED
      BY <2>4, <3>1, OwnBegin DEF Ops
  <2>5. ASSUME NEW d \in Documents, NEW e \in Documents, d # e, Begin(t, "upload", c, 0, <<d, e>>) PROVE OwnOK'
    <3>1. <<d, e>> \in Seq(Documents) /\ <<d, e>> # <<>>
      OBVIOUS
    <3>2. IsInjective(<<d, e>>)
      <4>1. DOMAIN <<d, e>> = {1, 2} /\ <<d, e>>[1] = d /\ <<d, e>>[2] = e
        OBVIOUS
      <4> QED
        BY <2>5, <4>1 DEF IsInjective
    <3> QED
      BY <2>5, <3>1, <3>2, OwnBegin DEF Ops
  <2> QED
    BY <1>3, <2>2, <2>3, <2>4, <2>5 DEF Ask
<1>4. CASE UNCHANGED vars
  <2>1. UNCHANGED <<documents, retrievers, task, spent>>
    BY <1>4 DEF vars
  <2> QED
    BY <2>1 DEF OwnOK, Shape, DocumentsOK, WaitingOK, RetrieversOK, RunOK, AddOK
<1> QED
  BY <1>1, <1>2, <1>3, <1>4 DEF Next

(* Whatever documents, rankings, threads and k there are, and although all  *)
(* runs share the retrievers and set their top_k between each other's       *)
(* steps, what a run keeps begins the fused ranking of the pool it read     *)
(* itself and is two passages at least (orchestrator.py:157-171, 373-382).  *)
THEOREM OwnBest == Spec => []KeepsTheBestOfItsOwn
<1>1. Init => OwnOK
  <2> SUFFICES ASSUME Init PROVE OwnOK
    OBVIOUS
  <2>1. Shape
    BY DEF Init, Shape, Idle, Fields
  <2>2. documents = <<>> /\ retrievers = <<>> /\ \A t \in Threads : task[t] = Idle
    BY DEF Init
  <2>3. Idle.todo = <<>> /\ Idle.op = "none"
    BY DEF Idle
  <2>4. <<>> \in Seq(Documents) /\ IsInjective(<<>>) /\ Range(<<>>) = {} /\ DOMAIN <<>> = {}
    BY DEF IsInjective, Range
  <2>5. <<>> \in Seq([doc : Documents, cid : Collections])
    OBVIOUS
  <2>6. DocumentsOK /\ RetrieversOK
    BY <2>2, <2>4, <2>5 DEF DocumentsOK, RetrieversOK
  <2>7. WaitingOK
    BY <2>2, <2>3, <2>4 DEF WaitingOK
  <2>8. \A t \in Threads : AddOK(task[t]) /\ RunOK(task[t])
    BY <2>2, <2>3 DEF AddOK, RunOK
  <2> QED
    BY <2>1, <2>6, <2>7, <2>8 DEF OwnOK
<1>2. OwnOK => KeepsTheBestOfItsOwn
  <2> SUFFICES ASSUME OwnOK, NEW t \in Threads, Done(t, {"run"}), task[t].outcome = "ok"
               PROVE  Best(task[t].pool, task[t].got)
    BY DEF KeepsTheBestOfItsOwn, Best
  <2> QED
    BY DEF OwnOK, RunOK, Done
<1> QED
  BY <1>1, <1>2, OwnNext, PTL DEF Spec
=============================================================================
