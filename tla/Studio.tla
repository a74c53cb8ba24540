------------------------------- MODULE Studio -------------------------------
(***************************************************************************)
(* The documents of the studio and the questions asked of them: the        *)
(* collections and documents of service/store.py, the handlers of          *)
(* service/app.py that add, show, audit and delete them, the cut of a      *)
(* document into passages (service/ingest.py), and the retrieval of a run  *)
(* (service/orchestrator.py over retrieval/), whose retrievers every run   *)
(* of the process shares.                                                  *)
(*                                                                         *)
(* Every statement of the store is a transaction of its own, taken under   *)
(* one lock: a request is a sequence of them and of steps on the shared    *)
(* retrievers, interleaved with those of the other threads.  Handlers that *)
(* run on the event loop are not interleaved with one another between two  *)
(* awaits.  A document is a sequence of paragraphs, a paragraph one of     *)
(* sentences, and a sentence the number of its words.                      *)
(*                                                                         *)
(* The operators named Mutant... are not part of the model: each is what    *)
(* the definition below it would be with a bug in it that a property finds. *)
(***************************************************************************)
EXTENDS Naturals, SequencesExt, FiniteSetsExt

CONSTANTS
  Collections,     (* the ids that create_collection() may hand out         *)
  Texts,           (* Texts[d]: the paragraphs of the d-th document         *)
  Threads,         (* the threads that serve requests and the workers of the pool *)
  Ks,              (* the k of a question, 2..10 in the code                *)
  Rankings,        (* the rankings of all passages for the question: BM25,
                      and the dense one when the models are loaded          *)
  RrfK,            (* the damping of reciprocal rank fusion, 60             *)
  Show,            (* the rows of a ranking that are shown, 8               *)
  Depth,           (* how far a ranking is read at least, 20                *)
  MaxWords,        (* the words of a chunk, 70                              *)
  MinWords,        (* a chunk with fewer is dropped, 4                      *)
  Requests         (* bound: how many requests are made                     *)

VARIABLES
  rows,        (* table collections                                         *)
  documents,   (* table documents, in the order of creation                 *)
  retrievers,  (* _retrievers: key -> its corpus and its top_k              *)
  spent,       (* the ids handed out                                        *)
  deleted,     (* history: the collections whose deletion was answered      *)
  loop,        (* the thread the event loop is busy with, or "free"         *)
  task,        (* the request each thread is at                             *)
  made         (* how many requests were made                               *)

vars == <<rows, documents, retrievers, spent, deleted, loop, task, made>>

Documents == DOMAIN Texts

ASSUME StudioAssumption ==
  /\ Collections # {} /\ "free" \notin Threads
  /\ Texts \in Seq(Seq(Seq(Nat \ {0})))
  /\ Ks \subseteq Nat \ {0, 1}
  /\ RrfK \in Nat \ {0} /\ Show \in Nat \ {0, 1} /\ Depth \in Nat /\ MaxWords \in Nat /\ MinWords \in Nat
  /\ Requests \in Nat

------------------------------------------------------------------------------
(* The members of a finite set as a list, by an order of them; and the      *)
(* elements of a list at some of its positions.                             *)
Listed(S, order) == [n \in 1..Cardinality(S) |-> CHOOSE x \in S : Cardinality({y \in S : <<y, x>> \in order}) = n]
InTurn(I) == Listed(I, {p \in I \X I : p[1] <= p[2]})
Keep(s, I) == [n \in 1..Cardinality(I) |-> s[InTurn(I)[n]]]

------------------------------------------------------------------------------
(* service/ingest.py *)

Words(chunk) == FoldSeq(LAMBDA n, total : n + total, 0, chunk)

(* One paragraph of chunk_text(): sentences are packed until the next one   *)
(* would make the chunk too long.                                           *)
Packed(done, n) ==
  IF done # <<>> /\ Words(Last(done)) + n <= MaxWords
  THEN Front(done) \o <<Append(Last(done), n)>> ELSE Append(done, <<n>>)

Pack(sentences) ==
  LET packed[n \in 0..Len(sentences)] == IF n = 0 THEN <<>> ELSE Packed(packed[n - 1], sentences[n])
  IN packed[Len(sentences)]

Chunks(text) ==
  LET all == FlattenSeq([p \in DOMAIN text |-> Pack(text[p])])
  IN Keep(all, {n \in DOMAIN all : Words(all[n]) >= MinWords})

(* passages_from_text(): the id of a passage is its document and its index. *)
PassagesOf(d) == [i \in DOMAIN Chunks(Texts[d]) |-> <<d, i>>]

Passages == UNION {Range(PassagesOf(d)) : d \in Documents}

(* search() scores every passage of the corpus, and ranks it once.          *)
ASSUME RankingsAssumption ==
  /\ Rankings \in Seq(Seq(Passages)) \ {<<>>}
  /\ \A ranking \in Range(Rankings) : IsInjective(ranking) /\ Range(ranking) = Passages

------------------------------------------------------------------------------
(* service/store.py and retrieval/ *)

(* passages(): one SELECT, in the order of creation.                        *)
StoredPassages(c) ==
  FlattenSeq([i \in DOMAIN documents |-> IF documents[i].cid = c THEN PassagesOf(documents[i].doc) ELSE <<>>])

(* search() of one ranker over a corpus, read down to a depth.              *)
Ranking(order, corpus, depth) ==
  LET ranked == Keep(order, {n \in DOMAIN order : order[n] \in Range(corpus)})
  IN SubSeq(ranked, 1, Min({depth, Len(ranked)}))

(* reciprocal_rank_fusion(): the sum of 1/(k + rank) over the rankings that  *)
(* found the passage, in the unit that makes every term a whole number.     *)
Unit == ProductSet({RrfK + r : r \in 1..Cardinality(Passages)})

Score(p, found) ==
  FoldLeft(LAMBDA sum, ranking : IF Contains(ranking, p) THEN sum + Unit \div (RrfK + SelectInSeq(ranking, LAMBDA q : q = p)) ELSE sum,
           0, found)

(* Ties break on the id of the passage.                                     *)
Precedes(p, q) == p[1] < q[1] \/ (p[1] = q[1] /\ p[2] < q[2])

Fused(corpus, depth) ==
  LET found == [r \in DOMAIN Rankings |-> Ranking(Rankings[r], corpus, depth)]
      all == UNION {Range(f) : f \in Range(found)}
      Better(p, q) == \/ p = q \/ Score(p, found) > Score(q, found)
                      \/ Score(p, found) = Score(q, found) /\ Precedes(p, q)
  IN Listed(all, {pair \in all \X all : Better(pair[1], pair[2])})

(* retriever_for(): the key has the collection and a digest of the passages. *)
MutantKey(c, pool) == <<c, <<>>>>
Key(c, pool) == <<c, pool>>

------------------------------------------------------------------------------
(* The requests.                                                            *)

Idle == [op |-> "none", cid |-> "none", k |-> 0, todo |-> <<>>, step |-> "idle", pool |-> <<>>,
         fused |-> <<>>, got |-> <<>>, outcome |-> "none", stale |-> {}]

At(t, ops, step) == task[t].op \in ops /\ task[t].step = step

Goes(t, step) == task' = [task EXCEPT ![t].step = step]

(* A request is answered once; "missing" is a 404 or the error of a run.    *)
Answers(t, outcome) == task' = [task EXCEPT ![t].step = "answered", ![t].outcome = outcome]

(* The handlers that are coroutines hold the loop until they await or end.  *)
OnLoop(t) == task[t].op \in {"audit", "upload"}
MayRun(t) == OnLoop(t) => loop \in {"free", t}
Holds(t) == loop' = IF OnLoop(t) THEN t ELSE loop
Yields(t) == loop' = IF OnLoop(t) THEN "free" ELSE loop

Store == <<rows, documents, retrievers, spent, deleted>>

(* create_collection() *)
Create(c) ==
  /\ c \notin spent
  /\ rows' = rows \cup {c} /\ spent' = spent \cup {c}
  /\ UNCHANGED <<documents, retrievers, deleted, loop, task, made>>

First(op) == CASE op = "delete" -> "documents" [] op = "add" -> "fetch" [] OTHER -> "check"

(* A request reaches its handler, or a worker takes the job.                *)
Begin(t, op, c, k, todo) ==
  /\ made < Requests
  /\ task[t].step \in {"idle", "answered"}
  /\ Range(todo) \cap spent = {}
  /\ task' = [task EXCEPT ![t] = [Idle EXCEPT !.op = op, !.cid = c, !.k = k, !.todo = todo,
                                            !.step = First(op), !.stale = deleted]]
  /\ spent' = spent \cup Range(todo)
  /\ made' = made + 1
  /\ UNCHANGED <<rows, documents, retrievers, deleted, loop>>

(* add_text_document(): without text, or without the page, nothing is read. *)
Fetch(t) ==
  /\ At(t, {"add"}, "fetch")
  /\ Goes(t, "check") \/ Answers(t, "refused")
  /\ UNCHANGED <<Store, loop, made>>

(* get_collection(), as every handler and the ingest stage of a run call it. *)
MutantCheck(t) ==
  /\ task[t].step = "check" /\ MayRun(t)
  /\ IF task[t].cid \notin rows /\ task[t].op # "run" THEN Answers(t, "missing") /\ Yields(t)
     ELSE Holds(t) /\ Goes(t, IF task[t].op \in {"add", "upload"} THEN "insert" ELSE "read")
  /\ UNCHANGED <<Store, made>>
Check(t) ==
  /\ task[t].step = "check" /\ MayRun(t)
  /\ IF task[t].cid \notin rows THEN Answers(t, "missing") /\ Yields(t)
     ELSE Holds(t) /\ Goes(t, IF task[t].op \in {"add", "upload"} THEN "insert" ELSE "read")
  /\ UNCHANGED <<Store, made>>

(* The rest of _add(): parse, refuse a text without passages, insert.  An   *)
(* upload goes on with its next file.                                       *)
Refuse(t) ==
  /\ At(t, {"add", "upload"}, "insert")
  /\ PassagesOf(Head(task[t].todo)) = <<>>
  /\ Answers(t, "refused") /\ Yields(t)
  /\ UNCHANGED <<Store, made>>

Inserted(t) ==
  LET rest == Tail(task[t].todo) IN
  [task[t] EXCEPT !.todo = rest, !.got = Append(@, Head(task[t].todo)),
                  !.step = IF rest = <<>> THEN "answered" ELSE "check",
                  !.outcome = IF rest = <<>> THEN "ok" ELSE "none"]

Insert(t) ==
  /\ At(t, {"add", "upload"}, "insert")
  /\ PassagesOf(Head(task[t].todo)) # <<>>
  /\ documents' = Append(documents, [doc |-> Head(task[t].todo), cid |-> task[t].cid])
  /\ task' = [task EXCEPT ![t] = Inserted(t)]
  /\ Yields(t)
  /\ UNCHANGED <<rows, retrievers, spent, deleted, made>>

(* passages(): shown as they are, or refused if an audit or a run has no    *)
(* two of them to compare.  An audit starts its job on what was read here.  *)
Read(t) ==
  /\ task[t].step = "read" /\ MayRun(t)
  /\ LET pool == StoredPassages(task[t].cid) IN
     IF task[t].op # "view" /\ Len(pool) < 2 THEN Answers(t, "refused")
     ELSE IF task[t].op = "run" THEN task' = [task EXCEPT ![t].pool = pool, ![t].step = "retriever"]
     ELSE task' = [task EXCEPT ![t].pool = pool, ![t].got = pool, ![t].step = "answered", ![t].outcome = "ok"]
  /\ Yields(t)
  /\ UNCHANGED <<Store, made>>

------------------------------------------------------------------------------
(* service/orchestrator.py: the retrieve stage of a run on a collection.    *)

KeyOf(t) == Key(task[t].cid, task[t].pool)

(* retriever_for(), under its lock; a new retriever keeps the top_k of the  *)
(* configuration until the next step.                                       *)
Retrieve(t) ==
  /\ At(t, {"run"}, "retriever")
  /\ retrievers' = IF KeyOf(t) \in DOMAIN retrievers THEN retrievers
                   ELSE [key \in DOMAIN retrievers \cup {KeyOf(t)} |->
                           IF key = KeyOf(t) THEN [corpus |-> task[t].pool, top_k |-> Show] ELSE retrievers[key]]
  /\ Goes(t, "top_k")
  /\ UNCHANGED <<rows, documents, spent, deleted, loop, made>>

(* retr.top_k = min(k, len(pool)), on the retriever that is shared.         *)
SetTopK(t) ==
  /\ At(t, {"run"}, "top_k")
  /\ retrievers' = [retrievers EXCEPT ![KeyOf(t)].top_k = Min({task[t].k, Len(task[t].pool)})]
  /\ Goes(t, "rank")
  /\ UNCHANGED <<rows, documents, spent, deleted, loop, made>>

(* _rank_tables(): the rankings are read and fused down to depths that      *)
(* follow the top_k of that moment.                                         *)
Rank(t) ==
  /\ At(t, {"run"}, "rank")
  /\ LET r == retrievers[KeyOf(t)]
         fused == Fused(r.corpus, Max({4 * r.top_k, Depth}))
     IN task' = [task EXCEPT ![t].step = "cut",
                             ![t].fused = SubSeq(fused, 1, Min({Len(fused), Max({r.top_k, Show})}))]
  /\ UNCHANGED <<Store, loop, made>>

(* The cut reads top_k again.                                               *)
Cut(t) ==
  /\ At(t, {"run"}, "cut")
  /\ LET fused == task[t].fused IN
     task' = [task EXCEPT ![t].step = "answered", ![t].outcome = "ok",
                          ![t].got = SubSeq(fused, 1, Min({Len(fused), retrievers[KeyOf(t)].top_k}))]
  /\ UNCHANGED <<Store, loop, made>>

------------------------------------------------------------------------------
(* delete_collection() is two transactions.                                 *)

DeleteDocuments(t) ==
  /\ At(t, {"delete"}, "documents")
  /\ documents' = Keep(documents, {n \in DOMAIN documents : documents[n].cid # task[t].cid})
  /\ Goes(t, "row")
  /\ UNCHANGED <<rows, retrievers, spent, deleted, loop, made>>

DeleteRow(t) ==
  /\ At(t, {"delete"}, "row")
  /\ rows' = rows \ {task[t].cid}
  /\ deleted' = deleted \cup ({task[t].cid} \cap rows)
  /\ Answers(t, IF task[t].cid \in rows THEN "ok" ELSE "missing")
  /\ UNCHANGED <<documents, retrievers, spent, loop, made>>

------------------------------------------------------------------------------
Init ==
  /\ rows = {} /\ documents = <<>> /\ spent = {} /\ deleted = {} /\ loop = "free" /\ made = 0
  /\ retrievers = <<>>
  /\ task = [t \in Threads |-> Idle]

Step(t) ==
  \/ Fetch(t) \/ Check(t) \/ Refuse(t) \/ Insert(t) \/ Read(t)
  \/ Retrieve(t) \/ SetTopK(t) \/ Rank(t) \/ Cut(t) \/ DeleteDocuments(t) \/ DeleteRow(t)

Ask(t, c) ==
  \/ \E op \in {"view", "audit", "delete"} : Begin(t, op, c, 0, <<>>)
  \/ \E k \in Ks : Begin(t, "run", c, k, <<>>)
  \/ \E d \in Documents : Begin(t, "add", c, 0, <<d>>)
  \/ \E d, e \in Documents : d # e /\ Begin(t, "upload", c, 0, <<d, e>>)

Next ==
  \/ \E c \in Collections : Create(c)
  \/ \E t \in Threads : Step(t) \/ \E c \in spent \cap Collections : Ask(t, c)

Spec == Init /\ [][Next]_vars

------------------------------------------------------------------------------
(* What the requests may never do.                                          *)

Done(t, ops) == task[t].step = "answered" /\ task[t].op \in ops

TypeOK ==
  /\ rows \subseteq Collections
  /\ documents \in Seq([doc : Documents, cid : Collections])
  /\ spent \subseteq Collections \cup Documents
  /\ deleted \subseteq Collections
  /\ loop \in Threads \cup {"free"}
  /\ \A t \in Threads :
       /\ task[t].op \in {"none", "view", "audit", "run", "add", "upload", "delete"}
       /\ task[t].outcome \in {"none", "ok", "missing", "refused"}
       /\ task[t].todo \in Seq(Documents)
       /\ task[t].pool \in Seq(Passages) /\ task[t].fused \in Seq(Passages)

(* A retriever holds the passages its key was made of, and a run that got   *)
(* one finds it again.                                                      *)
RetrieverOfItsKey ==
  /\ \A key \in DOMAIN retrievers : retrievers[key].corpus = key[2]
  /\ \A t \in Threads : task[t].step \in {"top_k", "rank", "cut"} => KeyOf(t) \in DOMAIN retrievers

(* A deletion that was answered is final, and whatever was asked later is   *)
(* turned away before it reads or inserts a document.                       *)
TurnedAway ==
  /\ deleted \cap rows = {} /\ rows \cup deleted \subseteq spent
  /\ \A t \in Threads :
       /\ task[t].stale \subseteq deleted
       /\ task[t].cid \in task[t].stale =>
            /\ task[t].step \in {"fetch", "check", "documents", "row", "answered"}
            /\ task[t].outcome # "ok" /\ task[t].got = <<>>

IInv == TypeOK /\ RetrieverOfItsKey /\ TurnedAway

(* orchestrator.py:157-171, 373-382: although every run of the process      *)
(* shares the retrievers and sets their top_k, and documents come and go,   *)
(* the passages a run keeps are the best of those it read itself, ranked as *)
(* deep as some k of its own pool has them read, and two at least, so that  *)
(* there is a pair to compare.  A pool that is not deeper than Depth is     *)
(* ranked as a whole.                                                       *)
KeepsTheBestOfItsOwn ==
  \A t \in Threads : Done(t, {"run"}) /\ task[t].outcome = "ok" =>
    LET pool == task[t].pool IN
    \E k \in {Show} \cup (2..Len(pool)) :
      LET own == Fused(pool, Max({4 * k, Depth})) IN
      /\ Len(task[t].got) \in 2..Len(own)
      /\ task[t].got = SubSeq(own, 1, Len(task[t].got))
      /\ Len(pool) <= Depth => own = Fused(pool, Len(pool))

(* app.py:356-379, orchestrator.py:344: nothing asked of a collection after *)
(* its deletion was answered is answered from its documents, although rows  *)
(* of documents may still be inserted, and stay, after it.                  *)
DeletedIsGone ==
  \A t \in Threads : Done(t, {"view", "audit", "run", "add", "upload"}) /\ task[t].cid \in task[t].stale =>
    task[t].outcome # "ok" /\ task[t].got = <<>>

==============================================================================
