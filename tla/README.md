# ScopeCompose in TLA+

This directory keeps TLA+ specifications of ScopeCompose beside its code, the TLC
configurations that check them on small instances, and proofs for TLAPS of what the core
modules say for all sizes. Paths below are relative to the repository's `src/`
(`service/app.py` is `src/service/app.py`); line numbers are those of the modelled commit.

    tlc -config stream_pair.cfg MCRunStream      # a run; the module is given under "Runs"
    tlapm RunStreamProofs.tla                # a proof module

## 1. The system and its components

ScopeCompose answers questions over documents that disagree. It finds claims that
conflict, decides whether each is true within its own *scope* (card tier, age, ...), and
composes one answer with a branch for each scope. Around this core there are a server
that streams what a run does, a client to the language models that caches and accounts,
a scheduler that runs experiments for days, a console in the browser, and a benchmark
that people label, review, freeze, score systems on and publish.

**Run streaming** (`service/app.py` RunManager, `events.py`, `store.py`; clients
`service/client.py`, `site/src/studio/api.ts`). State: tables `runs` and `events` in
SQLite; for each live run a list of events, a `done` flag and one queue for each
connection. A pool thread emits, the event loop streams, and the two meet in a list and in
`call_soon_threadsafe`. Hard: an event between subscription and replay, the end of a run
before its last event was put, reconnects, restarts, statements that fail, a deletion in
two transactions. Correct when every client is handed the stored events in order, each
once, and gets to the end.

**Console** (`site/src/studio/console.ts`, `model.ts`, `api.ts`). State: the run on the
screen, the source that feeds it, the button. Hard: a click, a stored run or a refusal
while a start is awaited; timers of the pacer and of playback. Correct when what was
stopped stays silent, "over" means that everything is on the screen, and the button comes back.

**Collections and retrieval** (`service/app.py`, `store.py`, `ingest.py`,
`orchestrator.py`, `retrieval/`). State: tables `collections` and `documents`, and
retrievers that all runs of the process share. Hard: adding checks and later inserts,
deletion is two transactions, a run reads twice and sets `top_k` on a shared object.

**Question pipeline** (`service/orchestrator.py`, `evals.py`, `detection/`, `scope/pipeline.py`,
`extraction/probing.py`, `generation/scoped_answer.py`, `metrics/branch_match.py`). State: the
run in hand and an evaluation's sums. Hard: models' replies that are refused at every
stage, each with a fallback of its own; an override that must not flatter the detector.

**Scope analysis and composition** (`scope/attributes.py`, `relation.py`,
`order_invariance.py`; `composition/`; `contract/routing.py`; `service/branches.py`). Functions of a
list of branches. Hard: inclusion over attributes that repeat, clash or are free text;
whether a region holds anybody; the order of the input.

**Frames** (`detection/frames.py`, `signature.py`, `qnfa.py`, `pipelines/scopecompose.py`). What
statements are about, over a taxonomy, folded into who they hold for. Hard: folding pair by
pair, decisions on partial knowledge, losing what a source says.

**LLM client, request cache, cost log** (`api_budget/`). Files that outlive the process and
that threads share. Hard: threads that miss at once, a substitute answer in the cache, a
failure between paying and logging, a death within a line.

**Experiment scheduler and cell runner** (`experiments/scheduler.py`, `run_matrix.py`). One
append-only file for each cell, the tokens of a day, the jobs. Hard: death at any step,
resuming, edits of the configuration between two starts, a quota computed once.

**Making the benchmark** (`benchmark/annotation/`, `review.py`, `human_loop.py`, `splits.py`,
`strata.py`; `prereg/freeze.py`, `experiments/staging.py`; `release/bundle.py`). Commands over
files, run by people in any order. Hard: passes that change after they were compared,
sessions killed within a line, documents that span splits, answers on a test file that
nobody froze, passages that may not be published or cannot be put back.

**Evaluation** (`contract/gold.py`, `models.py`; `detection/threshold.py`, `variants/compare.py`;
`metrics/`; `baselines/`; `experiments/run_pipeline.py`, `run_decisive.py`, `analysis.py`, `g1.py`).
Functions of finished files, with counters. Hard: counts over different sets, ties,
degenerate systems, credit for what was not said.

Interactions: the orchestrator runs within a job of run streaming and emits through the
tracer; it reads collections and calls detection, scope analysis and composition; every
model call goes through the LLM client; a cell of the scheduler calls the LLM client and
reads its log for the quota; the console is a client of run streaming. The benchmark's parts
hand each other finished files.

## 2. The modules

| Component | Modules | Proofs | Instances |
|---|---|---|---|
| Run streaming | `RunFeed` (abstract), `RunStream` | `RunStreamProofs` | `MCRunStream` |
| LLM client | `LLMClient` | `LLMClientProofs` | `MCLLMClient` |
| Scheduler | `CellSchedule` | `CellScheduleProofs` | `MCCellSchedule` |
| Applicability | `Scope` | in `ResolutionProofs` | |
| Resolution | `Resolution`, `ResolutionInv` (properties) | `ResolutionProofs` | `MCResolution` |
| Collections and retrieval | `Studio` | `StudioProofs` | `MCStudio` |
| Question pipeline | `Detection`, `Alignment`, `Pipeline` | `PipelineProofs` | `MCPipeline` |
| Frames | `Signature`, `ScopeCompose` | in `ResolutionProofs` | `MCScopeCompose` |
| Console | `Console` | `ConsoleProofs` | `MCConsole` |
| Making the benchmark | `BlindPasses`, `HumanLoop`, `HeldOut`, `Release` | | |
| Evaluation | `Contract`, `Mock`, `Tuning`, `Classifying`, `Baselines`, `Reading`, `Judging`, `Endpoints`; `Scoring` joins them | | |
| Both together | `Study`, `StudyInv` (properties) | `StudyProofs` | `MCStudy` |

How they are joined. `RunStream` implements `RunFeed` under the mapping of `seen[c]` to its
length. `Resolution`, `Alignment` and `Signature` extend `Scope`. `Pipeline` takes the decision
on two claims and the composition of branches from instances of `Resolution` (`A4`, `B2`), and
`ScopeCompose` its partition (`P`). `Study` runs one of its parts at a time, as the commands
are run: a behaviour is one of one part, from any input it can be given.

Operators named `Mutant...` are not part of a model. Each is the operator below it with a
plausible bug, and the property named for it in `PROJECT.json` finds the bug in the run
that checks the property: they show that the properties can fail.

### RunStream

One action is the code between two accesses to shared state.

| Code | Actions and variables |
|---|---|
| `job()` app.py:75-90 | `phase`; `StartJob`, `WorkEnds`, `FinishRun`, `SetDone`; a failing statement: `StoreEventFails`, `FinishRunFails` |
| `emit()`, `sink()` events.py:82-116, app.py:69-73 | `step`; `StoreEvent`, `AppendEvent`, `SnapshotQueues`, `Notify`, `Emitted` |
| callbacks on the loop app.py:73 | `pend`, `queue`; `RunCallback` |
| `stream()` app.py:95-123 | `pc`, `batch`, `last`; `Begin`, `SnapshotEvents`, `Replay`, `Replayed`, `Check`, `Take`, `Keepalive`; its finally is `Unsubscribe` |
| the endpoint app.py:297-302 | `Connect` |
| EventSource api.ts:103-121, `Client.stream` client.py:54-63 | `wire`, `client`, `seen`; `Receive`, `ResponseEnds`, `Drop` |
| `delete_run` store.py:108-110 | `deleting`; `DeleteEvents`, `DeleteRun` |
| a new process app.py:56-60 | `Restart` |

An event is its position among those stored and `log` records its kind; a statement of
the store that raises has no effect; the keepalive is not timed; span structure and
payloads are left out.

### LLMClient and CellSchedule

`complete()` is `Begin`, `Lookup`, `Attempt`, `AttemptFails`, `AttemptTruncated`, `Exhausted`,
`FallBack`, `FallbackFails`, `Put`, `Return`, per thread; `Raises` is an access that throws
what `complete()` does not catch, `Crash` the death of the process, `Clear` is
`RequestCache.clear(model)`. The cache maps a request's key to an answer; an answer is its
number among all given. Left out: waiting between retries; the hash of a key (taken as
injective); the provider's report of its model, taken to be the model asked.

`run_schedule` is `Start`, `RoundEnds`, `SkipJob`, `QuotaSpent`, `StartCell`, `Settle`;
`run_cell` is `SkipItem`, `StopCell`, `Answer`, `AnswerFails`, `Write`, `EndCell`. `Crash`
may leave half a line, `Reconfigure` edits a tier between two starts, `Expire` lets tokens leave
the 24 hours. Left out: changes of a cell's instances, a second scheduler, the status file.

### Scope and Resolution

A scope is its list of attributes, and what an attribute says is the set of values it
allows. A dimension of listed values is open, so it has a value nobody lists; a range has
points outside and between all bounds. `Compare` is `compare()` with its quirks: the last
attribute of a name counts, free text is unknown but only after a disjoint dimension was
looked for. `Satisfiable` is the witness search of `satisfiable()`; `Holds` is what the scope means.
`Resolution` has one action for each entry point, and a behaviour is one call: `Analyse` (both
orders of two claims), `Partition`, `Compose`, `Read`. Whether two outcomes match, how they
vote and how far descriptors entail each other are constants, of which nothing is
assumed but their type: not symmetry, not transitivity.

### Studio

A thread's request is a sequence of steps, one for each transaction of the store or access
to a shared retriever: `Begin`, `Fetch` (a page is awaited), `Check`, `Refuse`, `Insert`,
`Read`, `Retrieve`, `SetTopK`, `Rank`, `Cut`, `DeleteDocuments`, `DeleteRow`. Handlers that are
coroutines hold the loop (`loop`) between two awaits. `Chunks` packs sentences into passages
as `ingest.py` does, `Fused` is reciprocal rank fusion with its order of ties. A ranking is a
constant; texts are numbers of words.

### Pipeline, with Detection and Alignment

One action for each stage of `run_query`, in its order, and `eval_split` around it; a
failing stage ends the question, not the batch. `Detection` holds the discrete part of
`stage1.py` (votes over what is read off two texts), the band that escalates, what
`stage2.py` accepts of a reply, and what the contract demands of a pair. `Alignment` is
`align()`: greedy, in the order of scores and then of gold. A draft of an answer is what it
states, whether it has a figure of no branch and whether it ranks with one of the cues. It may
state (`Sayable`) what it was given, the same as if it held for everybody, and anything the models
take for an exception, supported or not; `Faithful` compares what `check_faithfulness()` compares.

### Signature and ScopeCompose

`Unify`, `Fold`, components and `DetectFrames` are functions over a taxonomy; free texts are words
that may name a value of it. What lies above a value is the least set closed under parents, and what
`_validate()` demands of a schema is an assumption. `ScopeCompose` is `answer()`: the parse,
extraction with one round of asking again, groups, folding, partition, branches, repair against the
parse. An attribute list is an applicability (`AppOf`), also once constraints are appended to it;
`MaxPieces` is `MAX_FRAMES`.

### Console

One action for each callback: clicks, the server's answers to requests (in any order),
events of a stream, timers of pacer and playback, the probe. Drawing is left out; the
screen is the fold of the events applied to it (`Apply` is `model.ts` apply()).

### The study's modules

| Module | Code | What is abstracted |
|---|---|---|
| `BlindPasses` | annotation `store.py` append/load/seal, `cli.py` label, adjudicate, agreement, gold; any annotator at any desk, in several sessions at once | a record is its label and whether it escalates; kappa and alpha |
| `HumanLoop` | `review.py`, `human_loop.py` propose, apply, merge, the checks of `personas.py`; a reviewer in several sessions at once, each with the items it read when it started | a proposal is a version number, an edit sound or unsound; the newest items file of each kind is the one applied; an apply that updates nothing is left out |
| `HeldOut` | `splits.py`, `strata.py` over `relabel_v7.py`, `freeze.py`, `staging.py` | a file is the set of its rows, a hash the file itself; the shuffle is any order |
| `Release` | `bundle.py` build, verify, rehydrate; the strings of an instance that `_strings()` collects and those it does not | a text is a sequence of symbols; a hash is the text |
| `Contract` | validators of `gold.py` and `models.py`, `to_query_record` | texts, ids up to equality |
| `Mock` | `mock.py`: templates, builders, retagging, `coverage_report` | texts; the drawing of slots that no label depends on |
| `Tuning` | `threshold.py` sweep, recommend, write_band; `compare.py`; `reader_audit.py` | probabilities on a grid, rates as fractions; a person's verdict on a decision is any |
| `Classifying` | `classification.py`, the scoring of `run_pipeline.py`, `error_analysis.py` | precision and recall are given by their counts |
| `Baselines` | `registry.py`, `structured_long_context.py`; how a TOPSIS ranking is used | closeness is a small number |
| `Reading` | `case_accuracy.py` | an answer is sentences of words, a quote any run of words; a squashed substring that cuts a word in two is none |
| `Judging` | `run_decisive.py`, `preservation.py`, `wp1_probe/run_probe.py` | the judgement of a branch is any of three |
| `Endpoints` | `g1.py`, `analysis.py`, McNemar and Holm of `stats.py` | p-values as fractions, exact test only |

## 3. Runs

| Run | Module | Instance | What it shows |
|---|---|---|---|
| `stream_one_browser` | MCRunStream | one browser; one data event, two failing statements, one death, one broken connection, one deletion | status and last event agree; the safety half of RunFeed |
| `stream_pair` | MCRunStream | a browser and a script, one broken connection | no gap between replay and live queue for either |
| `stream_reconnects` | MCRunStream | one browser, two data events, two deaths, one broken connection | RunFeed with its fairness; the browser gets to the end if the server lives |
| `llm_calls` | MCLLMClient | two threads, a pinned and a substitutable tier on one model, one request, two calls, one failure, one death, one clear | pinning, substitutions on record, nobody pays twice, every call ends |
| `cells_schedule` | MCCellSchedule | cells of two and one items on one metered model, a second model to change to, two errors, one death, one edit | done is whole, quota, and the schedule finishes |
| `resolution` | MCResolution | 14 scopes over a tier, an age and being a student, also untyped, contradictory and of mixed kinds; lists of up to five branches | specificity, order, consistency, what a reader is shown |
| `service` | MCStudio | two threads, two collections, documents of three, one and no passages, two rankings, four requests | a run keeps the best of what it read; what is deleted is gone |
| `pipeline` | MCPipeline | two or three passages, offline and live, with gold and without, single questions and evaluations of two and three, every draft over what is sayable | what answers are made from is earned; evaluations score what the detector said |
| `frames` | MCScopeCompose | up to four frames over two slots and two tiers, a partition of up to three, unusable, misquoted and hedged ones among them, one reask | folding and decisions are true of the cases; nothing is lost |
| `console` | MCConsole | two runs, two sources, two clicks | silence after stop, over means whole, the button comes back |
| `study` | MCStudy | two annotators at two desks and three sessions, one label and one reason to escalate; two reviewers at two terminals, two proposals, two lines of verdicts and one death within a line; five instances to mine, two freezes and an edit, texts of two or three words, and the inputs of section 2's evaluation | the fourteen properties of `StudyInv` |
| `study_unrestorable` | MCStudy | the same | violation: see section 4 |

Why the bounds are enough for the cases that matter. *Streams*: an event is in one of six
places between the store and a client, and one broken connection and one restart meet
every state of a stream; joining replay and queue takes one event on either side. *LLM
client*: two threads race on a key; with two attempts and a trigger of two a call may
exhaust with and without the right to fall back; two calls make the second hit what the
first stored. *Scheduler*: an item may use up, overshoot or just miss the quota, and
`MaxErrors` is reached. *Resolution*: three exceptions are the fewest in which one carves
back another and a third is left over; lists of five exceed `MaxFrames`. *Service*: a
deletion, an upload, and two runs that share a retriever are four requests. *Pipeline*:
three passages are the fewest in which the pair in conflict is not all there is.
*Frames*: three make a chain in which the outer two unify only through the third; a fourth is one
more than `MaxPieces`, which stands for the 16 of `MAX_FRAMES`, so that groups both ways occur.
*Console*: two sources are the fewest of which one outlives its turn. *Study*: three
documents chain instances that share none; three sessions are one that is overtaken by a second of
the same annotator and one of the other, so that there is something to compare; a label and an escalation are enough
to tell a rewritten record from the one compared (that two labels of one instance differ, which fills
the disputed file of `BuildGold`, does not occur in the run); two proposals are one that was decided on and
one that came after; two lines are the half line a death leaves and the verdict it swallows, or two verdicts; two reviewers disagree; five and six
discordant items lie on either side of every step of the correction; sixteen mock instances
are one more than there are templates, and three fewer; three decisions of an audit have a
threshold that is safe, one that is not and none; both methods of the probe walk a marked and an unmarked condition.

**Symmetry.** `service` permutes threads and collections, `study` swaps the two annotators, the two
reviewers and the two comparators at once, and the two desks and the two terminals at once: no module orders them or
names one, no part has to do with those of another, and none of these runs checks liveness.

`CHECK_DEADLOCK FALSE` where a system really stops: a run ends, calls run out of the
bound, a finished schedule stops, a question is answered, a command is done. That what
must go on does is stated by the liveness properties. `console` checks deadlock: the probe
never ends.

**Fairness.** RunStream: worker threads and the loop keep running, `q.get()` times out after
15 s, clients read what arrived, an EventSource reconnects (`retry: 2000`). Nothing
makes a script connect, a statement fail, a process die or a user delete. LLMClient: a thread
in `complete()` goes on, as providers answer or time out. CellSchedule: a process goes on, a
schedule that stopped is run again ("rerun to resume"), and days pass. Console: a request
is answered, refused or times out; a stream delivers or is given up; timers fire; nobody
is made to click. `BrowserFinishes` is promised only while the server lives, the store
works and nobody deletes the run: the code promises nothing beyond that. The other modules are
checked for safety only.

## 4. What the models show of the code

One disagreement is kept as a run. `study_unrestorable`: `release/bundle.py:136` ends a slice
after the whole character its last compared symbol came from, so a passage "Fees apply."
located in a page that says "Fees apply…" yields a slice that flattens to "Fees
apply...", and `rehydrate()` reports drift on the very page the bundle was built from.

The models also contain the following, which properties except by name or leave open:

- `service/app.py:110`: a stream can end without the terminal event, when `done` is set before
  the loop has run its callback. A browser reconnects; `Client.stream` ends as if all were over.
- `service/store.py:108`: deleting a live run leaves the events stored meanwhile; documents
  added during a deletion stay behind as rows nobody reads (`app.py:376`).
- `api_budget/client.py:244`: a substitute's answer is cached under the primary model's key and
  later returned and logged with `fell_back=False`.
- `experiments/run_matrix.py:132`: a line torn by a crash ends every later start with an
  exception nobody catches. `costlog.py:71` and `review.py:140` lose the record after a torn line.
- `composition/operator.py:269`: redundant branches are merged before second-order structure is
  looked for. `partition.py:375`: only the first contender of a region is compared, and
  `values_match` is not transitive, so contradicting frames can be assigned.
- `pipelines/scopecompose.py:86-97`: of a group with more than `MAX_FRAMES` frames "report each piece as
  its own statement" (line 88), but `baselines/registry.py:289` puts into words only the first default
  branch it is given, so the outcomes of the others are not in the answer; `NothingIsLost`
  excepts these by name (`Unspoken`).
- `service/branches.py:120-127`: every answer to a Boolean attribute passes; line 134 shows the
  first exception that applies rather than the most specific.
- `generation/scoped_answer.py:196-237`: "Whether the answer says what the structure says -- no more, no less"
  (line 86), but only outcomes that are missing, figures of no branch and ranking cues are looked for. A draft that
  adds an exception without a figure, or states one for everybody, is kept as faithful; `AnswerIsEarned` says of a
  model's text what was checked and of what it was made from the rest.
- `benchmark/annotation/cli.py:146, 253`: nothing keeps an annotator from a second session, whose list was read
  earlier, and `store.py:172` lets the last write win. So an instance can be labelled again after it was compared, unless
  the seal stops it, which is there to keep "a label [from being] revised after seeing the disagreements"
  (`store.py:142-150`) but is only set after they were shown, looked at before the file is opened, and not
  set at all without `--seal`. `ComparedStands` leaves aside just what such a session still had before it (`Exposed`).
- `benchmark/human_loop.py:16`: "Only a person's verdict makes a proposal gold", but `_gate()` (line 115) goes by
  the id of the instance and `review.py:308` never shows a decided item again. If an instance is proposed anew, the verdict
  on the older proposal applies the newer one, with the edits made to the older. `PersonDecided` compares versions and
  excepts the proposals that came when the reviewer was past being shown them (`overtaken`).
- `release/bundle.py:20`: "redacted text must not reappear in another field of the same instance", but `_strings()`
  (lines 158-168) collects neither annotation notes nor the attributes of branches and people: those ship
  unsearched. `NothingWithheldShips` is about the strings that are searched.
- `metrics/case_accuracy.py:192-195`: a quote is a substring, so "fee applies" may be quoted out of "No fee applies."
  and earns credit if the entailment model passes it, against "the reader cannot quote something the answer never
  said" (lines 13-14). `StrictIsEarned` excepts a quote that begins right behind a denial, beside one that the
  entailment model passes without its telling the outcome and one that runs over the end of a sentence.
- `contract/gold.py`: its validators accept passages given twice, natural instances of one
  document, and relations on types that carry none, all of which `models.py` refuses.
- `metrics/case_accuracy.py:190-205`: the hedges around a quote that spans two sentences are not read.
- `metrics/classification.py:117`: a gold pair that was never enumerated is no false negative.
- `contract/mock.py:700`: a fixture of fewer than fifteen instances lacks templates, though one of each was
  asked for (`guarantee_coverage`, lines 685-689). A retagged instance is checked by no validator.
- `experiments/reader_audit.py:164`: `unsure` is never set, so a report says that none were.
- `experiments/wp1_probe/run_probe.py:205`: a gain of exactly a tenth may come out on either side of
  the bar, by rounding; the model allows both.
- `site/src/studio/console.ts:282-298`: two starts awaited at once fold two runs into one screen;
  a refusal that comes late takes the button from another run.

## 5. Proofs

All theorems hold for every value of the constants that satisfies the named assumptions;
TLC evaluates the assumptions of each instance.

**RunStream** (`ClientAssumption`: a client is of one kind; `BudgetAssumption`).
`TypeCorrect` and `StatusCorrect`; `Invariance` of `IInv`, from which `GapFreedom`, `Ordering`,
`NothingMissed` and `Refinement` (`ImplementsSafeFeed`) follow. `GapFree` is not
inductive: it says nothing of the events under way. `IInv` follows an event along
log, live, pend, queue, wire, seen. `Taken(c)` and `Put(c)` say which events have been
taken from and put into c's queue, `QueueInv` that what is between them is in the queue and the
callbacks, in order, and what is below `Taken` was yielded or is being replayed.
`Seamless` then says that what was handed out joins what is on the wire.

**LLMClient** (`ConfigAssumption`, `ThreadAssumption`, and `ApartAssumption`: no pinned tier has
all its settings in common with a substitutable one; it holds of `config/models.yaml`, where
tiers on one model differ in effort or `max_tokens`, and without it a pinned tier could be
answered from the cache by a substitute). `Invariance`, `RightAnswers`, `Pinning`, `Accounting`,
`Recording` (`SubstitutionsOnRecord`), `PayingOnce` (`PaysOnce`). The invariant says what each
place holds: the cache, the answers, and each thread between its answer and its caller; and
counts calls begun, lines and threads in between. `MissInv` is what `PaysOnce` needs: while
nothing fails, dies or is cleared, an answer that was paid for to be cached is in the cache
or on its way there, so a thread that missed has not paid for its request before (`PaidBy`).

**CellSchedule** (`JobAssumption`, `SizeAssumption`, `ModelAssumption`, `BoundAssumption`). `Invariance`,
`OneModel`, `NothingTwice`, `WholeWhenDone`, `Quota`. `TrustInv` says that a running
process only goes on with files it has validated; `LoopInv` that the cell's loop has
passed or skipped what is in its file; `TokenInv` relates the tokens of the day to the
quota computed at the start and to those of failed answers, which nobody subtracts. So a
model stays below its limit plus `MaxErrors` items, not below its limit.

**Scope** (`ScopeAssumption`: what `gold.py` validates, and domains with a value beyond those
listed). `SatisfiableIsExact`: a witness for each scope to lie outside of gives a case,
chosen in each dimension from what the witnesses leave, and back. `CompareIsInclusion`: if
a does not lie inside b in some dimension of b, a case of a can be moved out of b
along it without leaving a. It needs each name once in a scope, and in the same kind in both.

**Resolution** (`ResolutionAssumption`). `OrderDoesNotMatter`, `RegionsPartition`,
`MostSpecificGovern`, `NothingIsDeleted`, `ComposedHoldsTogether`, `ReaderAgreesWithPartition`
(`ReaderAgrees`). They carry the two results on scopes to the regions; that every overridden
frame has a more specific one that governs takes a least element of a finite set, got from
the well-ordering of the naturals by counting what lies below each frame. For the reader it
is shown that his test of an attribute says what the attribute allows, and then that of two
branches that both apply to him the flags leave only an exception over the rule, one
within the other, or two that match.

**Signature and ScopeCompose** (`SignatureAssumption`: what `_validate()` demands of a taxonomy;
`ComposeAssumption`: constraints have names of their own, one for each slot, with the values of its
taxonomy; an applicability with constraints is one again; replies are lists of frames).
`FoldingIsFaithful` is about two frames: piece lies within piece, or apart from it, exactly as
what the frames speak of does, provided that what one is not folded on, the other is folded on
below. Signatures are compared slot by slot (`MeaningIs`, `MeansBelow`), and a constraint is
the set of values at or below a frame's own (`ConstraintsAre`, `CaseWith`). For that the taxonomies
must be trees: of two values above a third one is above the other (`LeqChain`), and no two are
below each other (`LeqAntisymmetric`). `DecisionsAreTrue` (`DecisionIsTrue`) adds that what unification says of a
pair is what folding says of it (`UnifyIs`, `PairFolds`), and that a conditional pair outweighs every
other (`ScoreBound`, `BestIsConditional`). `FoldingIsAsMeant` (`FoldedAsMeant`) takes a group, whose
members are joined in line with each other (`JoinedInLine`) and no others, and shows that it folds each
of its frames where `FoldingIsFaithful` needs it. `NothingLost` (`NothingIsLost`) from `Whole`:
the partition accounts for every piece (`PartOK`), a region's branch says what governs there and what
it contests, so each piece is stated, overridden by stated ones, or holds for nobody
(`BranchesAreWhole`), the sections so far and the groups to come are all the frames there are
(`Covered`), and repair only adds to what is said (`Answered`). `FramesOK` is what the three rest on: each frame is one that a usable reply gives, and none is kept twice for one span.

**Pipeline** (`PipelineAssumption`: a question has two passages or more, as every record of the
benchmark has). `NothingUnearned` (`AnswerIsEarned`) from `EarnedSoFar`: `AnswerIsEarned` speaks of the last
stage only, so the invariant says of every earlier one what it has established by then: the
pairs, what an override may have changed of them, that what was admitted passed the gate for
the passage opposite the base, that the branches are the rule and the admitted, that the kept
are some of these, and that the text is either the template, which states nothing else, or passed the check. Of a
text that passed it the theorem claims what the check looks for and no more. `TallyIsTrue`
(`OverrideDoesNotFlatter`) from `TallyHolds`: each step that ends a question adds its place to the sets
of those answered, clashing, found and having gold branches, and to one cell of the tally.

**Studio** (`StudioAssumption`). `TurningAway` and `Deletion` (`DeletedIsGone`). That an answer shows
nothing of what is deleted is not inductive: it says nothing of a request under way. `TurnedAway`
says where a request to a deleted collection can be, which is before its check or turned
away after it; `GoneOK` adds that tasks keep their shape. `OwnBest`
(`KeepsTheBestOfItsOwn`) from `OwnOK`: the documents of a collection are listed once and so are
the passages of a pool, a retriever is the one of its key, and what a run holds at each step is made from
its own pool by the steps before. `Fused` then ranks each passage of the pool that either ranking
reaches once, so that cutting it leaves two at least; the shared `top_k` may be any other run's, and the
theorem says which k it can be.

**Console** (`ScriptsAssumption`: a run ends with its last event and no sooner, and has closed
by then every stage it started, if the store kept all its events). `Silence` (`StoppedIsSilent`)
from `SourcesOK`: the queue of an active source is what it received and has not shown, in
order, and a source that is not active has neither queue nor timer. `WholeRun`
(`OverMeansWhole`) from `ScreenOK`: unless something was put on the screen while a start was
awaited, the screen holds one run's events up to some point, each once, and a stage that
reads running has its end ahead.

**Study** (each part's own assumption). A step is one of one part, so each theorem looks at one
part. `ComparisonStands` (`ComparedStands`): `PassesOK` says that what was compared is in the pass and that no
session has it to write: either none has it before it, or the pass is sealed and none that has is past its look
at the seal (`Unexposed`). No step undoes that (`StaysSettled`): lists of sessions shrink, a new session lists
only what has no record, and a seal is never taken off. `PeopleDecide` (`PersonDecided`) and
`VerdictsAreKept` (`VerdictsSurvive`): `LoopOK` says that every entry, on its way or in the corpus, is
vouched for by a line that can be read and stays (`VerdictStays`), on the very version or on an older one of an
instance that was overtaken; for that, what a session shows is the newest proposal or one overtaken, and so is what the
last verdict of a reviewer is on; `KillsPay` charges each lost
verdict, and each half line that a next one will be lost on, to a kill of its own.
`Freezing` (`AnswersAreFrozen`) from `HeldOK`: no export puts an authored row in the test
file, and the tag does not move once something was answered. `HoldingOut` (`SplitsHold`) from
`MinedOK`, that the split is of the first instances mined: the groups are the components of
shared documents (`GroupsAre`: each instance is in one, which is closed under sharing, by
minimality), each is placed as a whole on top of what stays (`PlaceKeepsTogether`, by induction
on the order), and the class of a group with a held-out instance has quota in dev and test
(`HeldOutStays`), so that an incremental run keeps it. `Restoring`
(`RestoredIsOriginal`) from `BundleOK`: a record tells whether a slice of the page is the
text withheld. `Shipping` (`NothingWithheldShips`) adds `ShipsOK`, that nothing withheld is quoted
in what is searched joined together; that settles each shipped text on its own, as what is left of a text
once collapsed is in what is left of all of them joined (`CollapseInside`, symbol by
symbol: only blanks at the end of a text can differ). `SpeakingOut` (`EveryClaimSpoken`) from
`BaseOK`: the draft has just the claims of the list it was parsed from. `Projection` (`ProjectsOtherwise`) goes by cases on the validators of both
schemas. `ComparisonTellsApart` (`ChosenTellsApart`) counts pairs, `StrictCredit`
(`StrictIsEarned`) takes the place where a quote tells the outcome to the sentence it was cut from, whose word before
is the quote's own unless the quote begins there, with the entailment model free to say anything, and `HolmControls` (`HolmIsClosed`) shows
that Holm as the code steps through it is the closure of Bonferroni, for any ties.
`MockingIsSound` (`MocksAreSound`) goes by the kinds of template there are: what each can draw passes
the validators (`DrawsAreGood`), and so does it in the wire format once tagged (`TaggedIsHandedOn`), with the
labels that comparing its scopes gives. `MockOK` says that in each section of the report the
instances built so far are sorted into the labels counted (`Sorts`), hence the sums, and that a template
once drawn from has its labels there (`Covers`).

`CountingUp` (`CountsAddUp`) is the longest of them (assumed of the gold, the cases and the
audits: that they are finite sequences of what their schemas allow, and that the bar is a
fraction). `ClassOK` says that a confusion table tallies the pairs scored: the matched pairs are
as many as their cells count, cell by cell, so that rows, columns and the diagonal are sizes of
sets of pairs, and sums over a partition add up (`SumOfParts`). `JudgeOK` says that what was
counted of an arm or a method is what it has walked through, with as many survivors as branches
preserved, none of them further on; that the counts of the tiers add up to the whole (`TiersOK`);
and that arms are compared, and methods ruled on, once they are through (`ComparedOK`, `RuledOK`). `AuditOK` says that
the threshold is the lowest score at which the accepted decisions of the sample meet the bar. Any
other threshold at the bar accepts the same decisions as some score that was observed, so none recalls more. Sums
are functions by recursion on sets; `SumExists` shows that they are defined.

**Induction.** The theorems of the library that take a predicate cannot be instantiated, so the
modules carry induction over sets, from the well-ordering of the naturals: `AllNumbers` (a set
of naturals that has 0 and the successor of each of its members is all of them). A recursive
function, such as `ApplyAll` of `Console`, is expanded to its definition, once a lemma
(`FoldExists`) has shown that there is a function that satisfies its equation.

**Only model-checked.** Every invariant and every action property of the passing runs is a theorem.
What is left to TLC is liveness: `BrowserFinishes`, `ImplementsFeed` with its fairness (its safety half,
`ImplementsSafeFeed`, is `Refinement`), `EveryCallEnds`, `EventuallyDone` and `ButtonComesBack`. They rest
on weak fairness, so on ENABLED, of which this prover does not reason. That the assumptions
are met is checked too, by the instance of each run.

## 6. Not modelled, and why

Training and trained heads, embeddings, BM25, entailment models, bootstrap intervals,
power simulations and the coefficients of agreement are numeric. Prompts, parsing of file
formats, HTTP and rendering are input and output; a model's reply is modelled by what it may come to.
Scripts that mine and fetch (`benchmark/mining`, `contexts.py`, `corpus_plan.py`) run once over files
and keep no state. Ablations are reports over counts that `Judging` and
`Classifying` have. The site's scene and its recorded demo draw.
Two schedulers on one directory are not modelled: the code has no protection there to check.
Of the browser, the form that manages collections and the list of records are left out.
`PROJECT.json` lists every component with its reason.

## 7. What may come next

The plan this project was built by is carried out: each component of section 1 that keeps state has its
module, its run and its proofs. Three things would extend it.

1. The disagreement on `MAX_FRAMES` in section 4 as a run of its own, from `NothingIsLost` without
   `Unspoken`.
2. A second scheduler on a directory (`experiments/run_matrix.py:170`), once the code claims a cell
   before it works on it: now there is no promise to state.
3. Liveness by hand: each of the properties above as a chain of steps that lead to one another, with the
   safety half of each step proved from the invariants that are there.
