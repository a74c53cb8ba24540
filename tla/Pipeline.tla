------------------------------- MODULE Pipeline -------------------------------
(***************************************************************************)
(* Questions answered end to end (service/orchestrator.py), one by one or  *)
(* as an evaluation of a split (service/evals.py): detect, policy, scope,  *)
(* extract, branches, compose, generate, verify, score.                    *)
(*                                                                         *)
(* A question brings its passages, in the order of their ids, and what the *)
(* models may say about them.  What a stage computes is kept in the run;   *)
(* the functions are those of Detection, Scope, Resolution and Alignment.  *)
(***************************************************************************)
EXTENDS Alignment, Detection

CONSTANTS
  Votes, OutcomeMargin, Entailment, OverlapThreshold, NestThreshold,
  Everyone,      (* the applicability of a default                          *)
  Requests,      (* what is asked for: how, and of which questions          *)
  Replies,       (* what stage 2's model may reply about a pair             *)
  MaxQuestions,  (* contrastive questions to one rule                       *)
  Blank          (* the outcome a model left empty                          *)

(* orchestrator.py:83,375: what is asked has two passages or more, as every  *)
(* record of the benchmark has; its branches are a list.                    *)
ASSUME PipelineAssumption ==
  /\ Everyone \in Universal
  /\ MaxQuestions \in Nat
  /\ \A r \in Requests : /\ r.questions \in Seq(Range(r.questions))
                         /\ \A q \in Range(r.questions) : /\ q.n \in Nat \ {0, 1}
                                                          /\ q.features \subseteq Features
                                                          /\ q.gold.branches \in Seq(Range(q.gold.branches))

VARIABLES
  request,       (* the request served                                      *)
  left,          (* the questions that are still to be answered             *)
  run,           (* the question in hand: what its stages computed          *)
  tally,         (* what the evaluation has added up                        *)
  report,        (* what is stored when the job ends                        *)
  history        (* of every question that ended, how (for the properties)  *)

vars == <<request, left, run, tally, report, history>>

Unasked == [type |-> "unasked", relation |-> "none", conflict |-> "unset"]
NoGold == [type |-> "none", relation |-> "none", branches |-> <<>>]

(* Frames are compared pairwise here and never partitioned. *)
A4 == INSTANCE Resolution WITH branches <- run.claims, result <- run.composed, Passages <- Int,
                               ValuesMatch <- {}, MaxFrames <- 0, Lists <- {}, Judgements <- {}, Known <- {}
B2 == INSTANCE Resolution WITH branches <- run.branches, result <- run.composed, Passages <- Int,
                               ValuesMatch <- {}, MaxFrames <- 0, Lists <- {}, Judgements <- {}, Known <- {}

Question == Head(left)
Ids == 1..Question.n
Keys == {k \in Ids \X Ids : k[1] < k[2]}
Before(k, l) == k[1] < l[1] \/ (k[1] = l[1] /\ k[2] <= l[2])
FirstKey(K) == CHOOSE k \in K : \A l \in K : Before(k, l)

Live == request.mode = "live"
Asking(n) == IF Live THEN n ELSE 0

(* Of a list, what is at the places I, in its order. *)
At(s, I) == [i \in 1..Cardinality(I) |-> s[CHOOSE k \in I : Cardinality({j \in I : j <= k}) = i]]

Nothing == [x \in {} |-> 0]
Fresh == [at |-> "detect", scores |-> Nothing, pairs |-> Nothing, verdicts |-> Nothing, override |-> "none",
          claims |-> <<>>, decisions |-> Nothing, admitted |-> <<>>, branches |-> <<>>,
          composed |-> [op |-> "none"], answer |-> [method |-> "none"], calls |-> 0]
NoReport == [status |-> "running", calls |-> 0]

Running(stage) == left # <<>> /\ report = NoReport /\ run.at = stage
Elsewhere == UNCHANGED <<request, left, tally, report, history>>

Conflicts == {k \in DOMAIN run.pairs : run.pairs[k].conflict}
Main == FirstKey(Conflicts)

------------------------------------------------------------------------------
(* detect: score_pairs() and detect_from_candidates().  A pair is asked     *)
(* about when the band holds its score; where the call fails, stage 1       *)
(* stands.                                                                  *)
Detect ==
  /\ Running("detect")
  /\ \E f \in [Keys -> Question.features] : \E s \in [Keys -> UNION {Scores(f[k]) : k \in Keys}] :
       /\ \A k \in Keys : s[k] \in Scores(f[k])
       /\ \E r \in [Keys -> Replies \cup {Unasked}] :
            /\ \A k \in Keys : r[k] = Unasked \/ (Live /\ Uncertain(s[k]))
            /\ LET found == [k \in Keys |-> ToPair(f[k], s[k], r[k])]
                   asked == Cardinality({k \in Keys : Uncertain(s[k])})
               IN run' = [run EXCEPT !.at = "policy", !.scores = s, !.pairs = found, !.verdicts = found,
                                     !.calls = @ + Asking(asked)]
  /\ Elsewhere

(* policy: a conflict that was missed is put in, from the gold label where  *)
(* there is one, and else at the pair that looks most like one.             *)
Likeliest == CHOOSE k \in Keys : \A l \in Keys :
               run.scores[k] > run.scores[l] \/ (run.scores[k] = run.scores[l] /\ Before(k, l))

Forced ==
  IF Question.gold = NoGold THEN Judged("conditional", "refinement", "mock")
  ELSE Judged(Question.gold.type,
              IF Question.gold.type \in {"conditional", "factual"} THEN Question.gold.relation ELSE "none", "gold")

Policy ==
  /\ Running("policy")
  /\ run' =
       IF Conflicts # {} \/ request.policy = "as_run" \/ Question.gold.type = "no_conflict"
       THEN [run EXCEPT !.at = "describe", !.scores = Nothing]
       ELSE LET k == IF Question.gold = NoGold THEN Likeliest ELSE <<1, 2>> IN
            [run EXCEPT !.at = "describe", !.scores = Nothing, !.pairs[k] = Forced,
                        !.override = IF Question.gold = NoGold THEN "assumed" ELSE "gold"]
  /\ Elsewhere

(* scope: describe() asks once per passage and falls back on the rules      *)
(* where it cannot, analyse_record() decides the pairs it should.           *)
Analysed == {k \in Conflicts : run.pairs[k].type \in {"conditional", "factual"}}

Describe ==
  /\ Running("describe")
  /\ IF Analysed = {} THEN run' = [run EXCEPT !.at = "extract"]
     ELSE \E d \in [Ids -> UNION {Question.says[p] : p \in Ids}] :
            /\ \A p \in Ids : d[p] \in Question.says[p]
            /\ run' = [run EXCEPT !.at = "analyse", !.claims = d, !.calls = @ + Asking(Question.n)]
  /\ Elsewhere

Analyse ==
  /\ Running("analyse")
  /\ LET d == [k \in Analysed |-> A4!Decide(k[1], k[2])] IN
     run' = [run EXCEPT !.at = "extract", !.decisions = d,
                        !.pairs = [k \in DOMAIN @ |-> IF k \in Analysed THEN [@[k] EXCEPT !.relation = d[k].relation] ELSE @[k]]]
  /\ Elsewhere

------------------------------------------------------------------------------
(* extract: probe_record() on the two passages of the main pair.            *)
Base == IF Main \in DOMAIN run.decisions THEN run.decisions[Main].default ELSE Main[1]
Exception == IF Base = Main[1] THEN Main[2] ELSE Main[1]

(* _dedupe(): of the candidates with one condition, the first.              *)
Distinct(c) == At(c, {i \in DOMAIN c : \A j \in 1..(i - 1) : c[j].condition # c[i].condition})

(* gate(): what the passage it is from supports.                            *)
MutantGate(c) == At(c, {i \in DOMAIN c : \E p \in Ids : <<p, c[i]>> \in Question.grounded})
Gate(c) == At(c, {i \in DOMAIN c : <<Exception, c[i]>> \in Question.grounded})

(* Each question finds a condition or none; offline the cue words are read  *)
(* once.                                                                    *)
Extract ==
  /\ Running("extract")
  /\ IF Conflicts = {} THEN run' = [run EXCEPT !.at = "branches"]
     ELSE \E asked \in (IF Live THEN 1..MaxQuestions ELSE {1}), found \in 0..MaxQuestions :
            /\ found <= asked
            /\ \E c \in [1..found -> Question.conditions] :
                 run' = [run EXCEPT !.at = "branches", !.admitted = Gate(Distinct(c)), !.calls = @ + Asking(1 + asked)]
  /\ Elsewhere

------------------------------------------------------------------------------
(* branches: the default of the base passage, in A4's words when they are a *)
(* whole statement, and the conditions that were admitted; or the gold ones.*)
DefaultOf(p) ==
  [scope |-> Everyone, passage |-> p,
   outcome |-> IF run.decisions # Nothing /\ Main \in DOMAIN run.decisions /\ run.claims[p].whole
               THEN run.claims[p].outcome ELSE Question.sentence[p]]

Extracted == [i \in DOMAIN run.admitted |->
                [scope |-> run.admitted[i].scope, outcome |-> run.admitted[i].outcome, passage |-> Exception]]

Assembled ==
  IF run.override = "gold" /\ Question.gold.branches # <<>> THEN Question.gold.branches
  ELSE IF Conflicts # {} THEN <<DefaultOf(Base)>> \o Extracted
  ELSE <<[scope |-> Everyone, passage |-> 1, outcome |-> Question.sentence[1]]>>

Assemble ==
  /\ Running("branches")
  /\ \A i \in DOMAIN run.admitted : run.admitted[i].outcome # Blank
  /\ run' = [run EXCEPT !.at = "compose", !.branches = Assembled]
  /\ Elsewhere

(* compose: _most_credible() takes an undated passage for the earliest.     *)
Earlier(p, q) ==
  \/ Question.rank[p] < Question.rank[q]
  \/ Question.rank[p] = Question.rank[q] /\ Question.date[p] < Question.date[q]
MostCredible == CHOOSE p \in Ids : \A q \in Ids : Earlier(p, q) \/ (~Earlier(q, p) /\ p <= q)

ComposeBranches ==
  /\ Running("compose")
  /\ run' = [run EXCEPT !.at = "generate", !.composed = B2!Composed({KindOf(run.pairs[k]) : k \in Conflicts}, MostCredible)]
  /\ Elsewhere

------------------------------------------------------------------------------
(* generate and verify.  A text is the set of what it states, and whether   *)
(* it has a figure of no branch or ranks the sources with one of the cues.  *)
Surviving == {run.branches[i] : i \in run.composed.kept}

(* The first of the kept: a merge has put the rule in front.                *)
Lead ==
  LET merged == \E k \in Conflicts : Route(run.pairs[k]) = "merge"
      rules  == {i \in run.composed.kept : IsRule(run.branches[i])}
  IN run.branches[B2!First(IF merged /\ run.composed.flags # {} /\ rules # {} THEN rules ELSE run.composed.kept)]

Text(stated) == [states |-> stated, invents |-> FALSE, ranks |-> FALSE]

(* render_template() *)
Template == Text(IF run.composed.resolution \in {"pass_through", "selected"} THEN {Lead} ELSE Surviving)

(* What a model may write: what survived, the same as if it held always,    *)
(* and whatever it takes for an exception, of any passage it was shown.     *)
Sayable ==
  Surviving
  \cup {[b EXCEPT !.scope = Everyone] : b \in Surviving}
  \cup {[scope |-> c.scope, outcome |-> c.outcome, passage |-> b.passage] : c \in Question.conditions, b \in Surviving}

(* check_faithfulness(): each outcome is looked for among those of the      *)
(* text.  For whom the text says it holds is not compared, nor is what the  *)
(* text states besides; a branch without its citation only is noted.        *)
Faithful(t) ==
  /\ \A b \in Surviving : \E c \in t.states : <<b.outcome, c.outcome>> \in OutcomesMatch
  /\ ~t.invents /\ ~t.ranks

Answered(t, method) == [text |-> t, method |-> method, faithful |-> Faithful(t)]

Generate ==
  /\ Running("generate")
  /\ IF ~(Live /\ request.generation = "llm")
     THEN run' = [run EXCEPT !.at = "score", !.answer = Answered(Template, "template")]
     ELSE \E said \in SUBSET Sayable, invents, ranks \in BOOLEAN :
            LET t == [states |-> said, invents |-> invents, ranks |-> ranks] IN
            run' = [run EXCEPT !.at = "score", !.calls = @ + 1,
                               !.answer = IF Faithful(t) THEN Answered(t, "llm")
                                          ELSE Answered(Template, "template_after_unfaithful_llm")]
  /\ Elsewhere

------------------------------------------------------------------------------
(* score, and the evaluation's sums: the detector is judged by what it said *)
(* itself, before the policy.                                               *)
Scored ==
  IF Question.gold.branches = <<>> THEN <<>>
  ELSE Align(Question.gold.branches, At(run.branches, run.composed.kept)).rows

MutantDetected == \E k \in DOMAIN run.pairs : run.pairs[k].conflict
Detected == \E k \in DOMAIN run.verdicts : run.verdicts[k].conflict

Cell ==
  IF Question.gold.type # "no_conflict" THEN (IF Detected THEN "tp" ELSE "fn") ELSE (IF Detected THEN "fp" ELSE "tn")

Outcome(ok) ==
  [ok |-> ok, gold |-> Question.gold, verdicts |-> run.verdicts, override |-> run.override, rows |-> IF ok THEN Scored ELSE <<>>,
   calls |-> run.calls, resolution |-> IF ok THEN run.composed.resolution ELSE "none"]

NoTally == [scored |-> 0, tp |-> 0, fp |-> 0, fn |-> 0, tn |-> 0, faithful |-> 0, calls |-> 0, rates |-> <<>>]

(* Of the rates of each question the mean is taken in the end.             *)
RatesOf(rows) == <<CountOf(rows, "preserved"), CountOf(rows, "suppressed"), Len(rows)>>
Rated == IF Question.gold.branches = <<>> THEN <<>> ELSE <<RatesOf(Scored)>>
Added == [tally EXCEPT !.scored = @ + 1, ![Cell] = @ + 1, !.calls = @ + run.calls, !.rates = @ \o Rated,
                       !.faithful = @ + (IF run.answer.faithful THEN 1 ELSE 0)]

(* The next question; or the job ends, and what is stored as its calls are  *)
(* those its own tracer saw: an evaluation's questions have their own.      *)
Ended(status) ==
  /\ left' = Tail(left)
  /\ run' = Fresh
  /\ report' = IF Tail(left) # <<>> THEN NoReport
               ELSE [status |-> status, calls |-> IF request.kind = "eval" THEN 0 ELSE run.calls]

Score ==
  /\ Running("score")
  /\ Ended("done")
  /\ tally' = IF request.kind = "eval" THEN Added ELSE tally
  /\ history' = Append(history, Outcome(TRUE))
  /\ UNCHANGED request

(* An exception ends the question: the model cannot be reached, or a        *)
(* condition that was admitted cannot be made a branch.                     *)
Fails ==
  \/ Live /\ run.at = "extract" /\ Conflicts # {}
  \/ Live /\ run.at = "generate" /\ request.generation = "llm"
  \/ run.at = "branches" /\ \E i \in DOMAIN run.admitted : run.admitted[i].outcome = Blank

Fail ==
  /\ left # <<>> /\ report = NoReport /\ Fails
  /\ Ended(IF request.kind = "eval" THEN "done" ELSE "error")
  /\ history' = Append(history, Outcome(FALSE))
  /\ UNCHANGED <<request, tally>>

------------------------------------------------------------------------------
Init ==
  /\ request \in Requests
  /\ left = request.questions
  /\ run = Fresh
  /\ tally = NoTally
  /\ report = NoReport
  /\ history = <<>>

Next ==
  \/ Detect \/ Policy \/ Describe \/ Analyse \/ Extract
  \/ Assemble \/ ComposeBranches \/ Generate \/ Score \/ Fail

Spec == Init /\ [][Next]_vars

------------------------------------------------------------------------------
(* What the stages of a question, and the evaluation of many, must keep true.*)

(* What an answer is made from was earned: without a conflict only the      *)
(* general rule survives; with one, a default and exceptions that the       *)
(* passage they cite supports, which is the other passage of the pair;      *)
(* unless they are the benchmark's own under an override that is reported.  *)
(* No answer has a figure of its own or a cue of ranking; the template      *)
(* states nothing but what survived, and a model's text states the outcome  *)
(* of all that survived.  What else a model's text states, and for whom, no *)
(* check compares: an invented exception without a figure passes            *)
(* (service/orchestrator.py:500-585, generation/scoped_answer.py:196-237).  *)
Entailed(b) ==
  b.passage = Exception /\ b.passage \in {Main[1], Main[2]} \ {Base}
  /\ \E c \in Question.conditions : <<b.passage, c>> \in Question.grounded /\ c.scope = b.scope /\ c.outcome = b.outcome

Permitted(b) ==
  /\ Conflicts = {} => IsRule(b)
  /\ IF run.override = "gold" /\ Question.gold.branches # <<>>
     THEN \E i \in DOMAIN Question.gold.branches : b = Question.gold.branches[i]
     ELSE IsRule(b) \/ Entailed(b)

AnswerIsEarned ==
  run.at = "score" =>
    /\ \A b \in Surviving : Permitted(b)
    /\ Conflicts = {} => run.composed.resolution = "pass_through"
    /\ ~run.answer.text.invents /\ ~run.answer.text.ranks
    /\ IF run.answer.method = "llm"
       THEN \A b \in Surviving : \E c \in run.answer.text.states : <<b.outcome, c.outcome>> \in OutcomesMatch
       ELSE run.answer.text.states # {} /\ run.answer.text.states \subseteq Surviving

(* The detector is scored by what it said, whatever the policy put in for   *)
(* it; a question that failed is scored nowhere; and of those that were     *)
(* answered each with gold branches gives its own rates, in their order     *)
(* (service/evals.py:44-100).                                               *)
Replied == {i \in DOMAIN history : history[i].ok}
Clashing == {i \in Replied : history[i].gold.type # "no_conflict"}
Positive == {i \in Replied : \E k \in DOMAIN history[i].verdicts : history[i].verdicts[k].conflict}
Branched == {i \in Replied : history[i].gold.branches # <<>>}

OverrideDoesNotFlatter ==
  request.kind = "eval" =>
    /\ tally.tp = Cardinality(Clashing \cap Positive)
    /\ tally.fn = Cardinality(Clashing \ Positive)
    /\ tally.fp = Cardinality(Positive \ Clashing)
    /\ tally.tn = Cardinality(Replied \ (Clashing \cup Positive))
    /\ tally.scored = tally.tp + tally.fn + tally.fp + tally.tn
    /\ Len(tally.rates) = Cardinality(Branched)
    /\ \A i \in Branched : tally.rates[Cardinality({j \in Branched : j <= i})] = RatesOf(history[i].rows)

==============================================================================
