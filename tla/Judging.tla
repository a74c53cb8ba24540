------------------------------ MODULE Judging ------------------------------
(***************************************************************************)
(* How much of what gold holds an answer preserves, branch by branch: the  *)
(* decisive experiment scores the pipeline and the long-context baseline   *)
(* on the same instances and compares them pairwise (run_decisive), the    *)
(* preservation metrics score any system, tier by tier (preservation), and *)
(* an experiment asks whether scope probing recovers more conditions than  *)
(* direct extraction does without making more up (wp1_probe).              *)
(* What a system's output makes of a gold branch is the business of align, *)
(* of word overlap or of an LLM judge: any of the three judgements.        *)
(***************************************************************************)
EXTENDS Integers, Sequences, SequencesExt, FiniteSets, FiniteSetsExt

CONSTANTS
  GoldCases     (* gold instances: [tier, type, distractor, branches], a   *)
                (* branch being the default or an exception, explicit or   *)
                (* implicit in its passage                                 *)

BranchKinds == {"default", "explicit", "implicit"}

ASSUME GoldCasesAssumption ==
  /\ GoldCases \in Seq(Range(GoldCases))
  /\ \A c \in Range(GoldCases) : c.branches \in Seq(BranchKinds)

Judgements == {"preserved", "suppressed", "distorted"}
Arms == <<"pipeline", "baseline">>
Methods == <<"probe", "direct">>

VARIABLES
  tally,        (* the counts of each arm, and of the preservation metrics *)
  survived,     (* for each arm, which branches survived                   *)
  tiers,        (* the preservation counts of each tier                    *)
  scored,       (* how many instances each has walked through              *)
  apart,        (* on how many branches each arm alone preserved           *)
  recovery,     (* the conditions each method recovered and made up        *)
  ruling        (* what is concluded of the probe                          *)

probeVars == <<recovery, ruling>>
judgeVars == <<tally, survived, tiers, scored, apart, probeVars>>

Zero == [instances |-> 0, branches |-> 0, preserved |-> 0, suppressed |-> 0, distorted |-> 0,
         hallucinated |-> 0, unconditional |-> 0, spurious |-> 0]

(* A branch of the gold, by its instance and its place there.               *)
BranchesOf(n) == {<<n, b>> : b \in DOMAIN GoldCases[n].branches}
AllBranches == UNION {BranchesOf(n) : n \in DOMAIN GoldCases}

Bit(test) == IF test THEN 1 ELSE 0
Times(js, j) == Cardinality({b \in DOMAIN js : js[b] = j})

(* An answer with conditions is spurious where there is nothing to tell     *)
(* apart: to the experiment an instance without a conflict, to the metrics  *)
(* any that is not conditional or is there to distract.                     *)
NoConflict(n) == GoldCases[n].type = "no_conflict"
NoConditionalStructure(n) == GoldCases[n].type # "conditional" \/ GoldCases[n].distractor

(* What an instance adds to a count: its branches as judged, and whether    *)
(* the output made a branch up or imposed a condition where gold has none.  *)
Counted(t, js, plain, madeUp, imposed) ==
  [instances |-> t.instances + 1,
   branches |-> t.branches + Len(js),
   preserved |-> t.preserved + Times(js, "preserved"),
   suppressed |-> t.suppressed + Times(js, "suppressed"),
   distorted |-> t.distorted + Times(js, "distorted"),
   hallucinated |-> t.hallucinated + Bit(madeUp),
   unconditional |-> t.unconditional + Bit(plain),
   spurious |-> t.spurious + Bit(imposed /\ plain)]

Walks(arm) == scored[arm] < Len(GoldCases)
Here(arm) == scored[arm] + 1

Score(arm, js, madeUp, imposed) ==
  LET n == Here(arm) IN
  /\ tally' = [tally EXCEPT ![arm] = Counted(@, js, NoConflict(n), madeUp, imposed)]
  /\ survived' = [survived EXCEPT ![arm] = @ \cup {<<n, b>> : b \in {c \in DOMAIN js : js[c] = "preserved"}}]
  /\ scored' = [scored EXCEPT ![arm] = n]

(* An instance with no output, or one that failed, preserves nothing.       *)
NothingKept(n) == [b \in DOMAIN GoldCases[n].branches |-> "suppressed"]

(* The pipeline is scored at its routing step: the default branch survives  *)
(* whatever the route, an exception only where a pair is composed.          *)
Routed(n, composed) ==
  [b \in DOMAIN GoldCases[n].branches |->
     IF GoldCases[n].branches[b] = "default" \/ composed THEN "preserved" ELSE "suppressed"]

ScorePipeline ==
  /\ Walks("pipeline")
  /\ \/ Score("pipeline", NothingKept(Here("pipeline")), FALSE, FALSE)
     \/ \E composed \in BOOLEAN : Score("pipeline", Routed(Here("pipeline"), composed), FALSE, FALSE)
  /\ UNCHANGED <<tiers, apart, probeVars>>

(* The baseline's branches are aligned with gold's.                         *)
ScoreBaseline ==
  /\ Walks("baseline")
  /\ \/ Score("baseline", NothingKept(Here("baseline")), FALSE, FALSE)
     \/ \E js \in [DOMAIN GoldCases[Here("baseline")].branches -> Judgements], madeUp, imposed \in BOOLEAN :
          Score("baseline", js, madeUp, imposed)
  /\ UNCHANGED <<tiers, apart, probeVars>>

(* The bucket of a tier is made the first time it is needed.                *)
MutantTierOf(tier) == Zero
TierOf(tier) == IF tier \in DOMAIN tiers THEN tiers[tier] ELSE Zero

(* The preservation metrics walk a system's outputs: one that names no gold *)
(* instance is passed over, each other counts, and in its tier too.         *)
ScorePreservation ==
  /\ scored["metrics"] < Len(GoldCases) + 1
  /\ scored' = [scored EXCEPT !["metrics"] = @ + 1]
  /\ \/ UNCHANGED <<tally, tiers>>
     \/ \E n \in DOMAIN GoldCases, madeUp, imposed \in BOOLEAN :
        \E js \in [DOMAIN GoldCases[n].branches -> Judgements] :
          LET tier == GoldCases[n].tier IN
          /\ tally' = [tally EXCEPT !["metrics"] = Counted(@, js, NoConditionalStructure(n), madeUp, imposed)]
          /\ tiers' = [u \in DOMAIN tiers \cup {tier} |->
                         IF u = tier THEN Counted(TierOf(u), js, NoConditionalStructure(n), madeUp, imposed) ELSE tiers[u]]
  /\ UNCHANGED <<survived, apart, probeVars>>

------------------------------------------------------------------------------
(* The paired comparison, on the branches both arms were scored on.         *)

Twice(a, b) == {k \in AllBranches : k[1] <= scored[a] /\ k[1] <= scored[b]}
Only(a, b) == Cardinality({k \in Twice(a, b) : k \in survived[a] \ survived[b]})

Uncompared == << >>

Compare ==
  /\ \A a \in Range(Arms) : ~Walks(a)
  /\ apart' = [pipeline |-> Only("pipeline", "baseline"), baseline |-> Only("baseline", "pipeline")]
  /\ UNCHANGED <<tally, survived, tiers, scored, probeVars>>

------------------------------------------------------------------------------
(* The go/no-go on the probe.  Gold's default is handed to both methods: it *)
(* is the exceptions that are scored, those a cue word marks and those that *)
(* none does apart.                                                         *)

NothingRecovered ==
  [instances |-> 0, recovered |-> 0, missed |-> 0, distorted |-> 0, explicit_recovered |-> 0, explicit_total |-> 0,
   implicit_recovered |-> 0, implicit_total |-> 0, hallucinating |-> 0, ungrounded |-> 0]

Recovered(r, n, js, madeUp) ==
  LET marked(how) == {b \in DOMAIN js : GoldCases[n].branches[b] = how}
      got(how) == Cardinality({b \in marked(how) : js[b] = "preserved"})
  IN [instances |-> r.instances + 1,
      recovered |-> r.recovered + Times(js, "preserved"),
      missed |-> r.missed + Times(js, "suppressed"),
      distorted |-> r.distorted + Times(js, "distorted"),
      explicit_recovered |-> r.explicit_recovered + got("explicit"),
      explicit_total |-> r.explicit_total + Cardinality(marked("explicit")),
      implicit_recovered |-> r.implicit_recovered + got("implicit"),
      implicit_total |-> r.implicit_total + Cardinality(marked("implicit")),
      hallucinating |-> r.hallucinating + Bit(madeUp > 0),
      ungrounded |-> r.ungrounded + madeUp]

ScoreMethod(method) ==
  LET n == Here(method) IN
  /\ Walks(method)
  /\ \E js \in [DOMAIN GoldCases[n].branches -> Judgements], madeUp \in {0, 2} :
       /\ \A b \in DOMAIN js : GoldCases[n].branches[b] = "default" => js[b] = "preserved"
       /\ recovery' = [recovery EXCEPT ![method] = Recovered(@, n, js, madeUp)]
       /\ survived' = [survived EXCEPT ![method] = @ \cup {<<n, b>> : b \in {c \in DOMAIN js : js[c] = "preserved"}}]
  /\ scored' = [scored EXCEPT ![method] = n]
  /\ UNCHANGED <<tally, tiers, apart, ruling>>

(* A tenth more, of rates computed in floating point: an exact tenth may    *)
(* come out on either side.                                                 *)
Exceeds(a, b, n) == IF 10 * (a - b) > n THEN {TRUE} ELSE IF 10 * (a - b) = n THEN BOOLEAN ELSE {FALSE}

Unruled == "unruled"
GoOrNot ==
  /\ \A m \in Range(Methods) : ~Walks(m)
  /\ LET p == recovery["probe"]
         d == recovery["direct"]
     IN \E gain \in Exceeds(p.implicit_recovered, d.implicit_recovered, p.implicit_total) :
        \E dear \in Exceeds(p.hallucinating, d.hallucinating, p.instances) :
          ruling' = CASE p.implicit_total = 0 -> "nothing unmarked"
                      [] p.implicit_total > 0 /\ gain /\ ~dear -> "go"
                      [] p.implicit_total > 0 /\ gain /\ dear -> "fabricates"
                      [] OTHER -> "no margin"
  /\ UNCHANGED <<tally, survived, tiers, scored, apart, recovery>>

JudgeInit ==
  /\ tally = [a \in {"pipeline", "baseline", "metrics"} |-> Zero]
  /\ survived = [a \in Range(Arms \o Methods) |-> {}]
  /\ tiers = << >>
  /\ scored = [a \in {"metrics"} \cup Range(Arms \o Methods) |-> 0]
  /\ apart = Uncompared
  /\ recovery = [m \in Range(Methods) |-> NothingRecovered]
  /\ ruling = Unruled

Untouched(S) == \A a \in S : scored[a] = 0

(* Three programs of their own; in the two that compare, each arm is a loop *)
(* over the instances, one after another.                                   *)
JudgeNext ==
  \/ Untouched({"metrics", "probe"}) /\ ScorePipeline
  \/ Untouched({"metrics", "probe"}) /\ ~Walks("pipeline") /\ ScoreBaseline
  \/ Compare
  \/ Untouched({"pipeline", "probe"}) /\ ScorePreservation
  \/ Untouched({"pipeline", "metrics"}) /\ ScoreMethod("probe")
  \/ Untouched({"pipeline", "metrics"}) /\ ~Walks("probe") /\ ScoreMethod("direct")
  \/ GoOrNot
=============================================================================
