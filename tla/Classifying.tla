---------------------------- MODULE Classifying ----------------------------
(***************************************************************************)
(* The detection pipeline scored against gold (experiments/run_pipeline,   *)
(* metrics/classification): whether a conflict is seen, which of the five  *)
(* types it is given and which of the four relations, over all instances   *)
(* and, for the types, in each tier of construction; and the errors by     *)
(* their kind (experiments/error_analysis).  Only pairs that both the      *)
(* prediction and gold have are scored.                                    *)
(***************************************************************************)
EXTENDS Integers, Sequences, FiniteSets, FiniteSetsExt

CONSTANTS
  GoldPairs,    (* the pairs of passages: [tier, separation, type,         *)
                (* relation], "silent" where gold says nothing of the pair *)
  Findings      (* what may be found of a pair: [type, relation]           *)

NoRelation == "none"
Silent == "silent"
TypeLabels == {"no_conflict", "factual", "temporal", "opinion", "conditional"}
RelationLabels == {"refinement", "disjoint", "redundant", "opposed"}

ASSUME GoldPairsAssumption ==
  /\ GoldPairs \in Seq(Range(GoldPairs))
  /\ \A g \in Range(GoldPairs) : g.type \in TypeLabels \cup {Silent} /\ g.relation \in RelationLabels \cup {NoRelation}

VARIABLES
  matched,      (* the pairs scored, with what was found of them           *)
  passed,       (* how many pairs have been passed                         *)
  binary,       (* detection: true and false positives and negatives       *)
  types,        (* confusion of the types: how often a cell was hit        *)
  relations,    (* confusion of the relations                              *)
  byTier        (* confusion of the types in each tier                     *)

classVars == <<matched, passed, binary, types, relations, byTier>>

NoCells == [c \in {} |-> 0]
NoScores == [tp |-> 0, fp |-> 0, fn |-> 0, tn |-> 0]

(* ConfusionMatrix: cells are made when they are first hit, also for a      *)
(* prediction that is no label.                                             *)
CellOf(counts, gold, found) == IF <<gold, found>> \in DOMAIN counts THEN counts[<<gold, found>>] ELSE 0
Hit(counts, gold, found) ==
  [c \in DOMAIN counts \cup {<<gold, found>>} |->
     CellOf(counts, c[1], c[2]) + (IF c = <<gold, found>> THEN 1 ELSE 0)]

SumOver(counts, cells) == MapThenSumSet(LAMBDA c : counts[c], cells)
Support(counts, gold) == SumOver(counts, {c \in DOMAIN counts : c[1] = gold})
Supports(counts) == [g \in {c[1] : c \in DOMAIN counts} |-> Support(counts, g)]
TotalOf(counts) == SumOver(Supports(counts), DOMAIN Supports(counts))
CorrectOf(counts, labels) == SumOver([l \in labels |-> CellOf(counts, l, l)], labels)

(* Precision and recall are ratios of these.                                *)
PerLabel(counts, label) ==
  LET tp == CellOf(counts, label, label) IN
  [tp |-> tp, fn |-> Support(counts, label) - tp,
   fp |-> SumOver(counts, {c \in DOMAIN counts : c[1] # label /\ c[2] = label})]

(* What was predicted, declared or not, has a column.                       *)
Columns(counts, labels) == labels \cup {c[2] : c \in DOMAIN counts}

(* Exceptions taken for contradictions, and the reverse.                    *)
LeakedBothWays(counts) ==
  [conditional |-> CellOf(counts, "conditional", "factual"), factual |-> CellOf(counts, "factual", "conditional")]

(* The relations whose confusion loses a branch or makes one up.            *)
NamedCells == {<<"refinement", "redundant">>, <<"redundant", "refinement">>, <<"refinement", "opposed">>, <<"opposed", "refinement">>}

(* The row a pair is reported in is not its tier: of the constructed ones,  *)
(* those from two pages of one guide have a row of their own.               *)
RowOf(truth) ==
  CASE truth.separation = "same_guide" -> "same-guide retrieval split"
    [] truth.separation # "same_guide" /\ (truth.separation = "cross_document" \/ truth.tier = "natural") -> "natural cross-document"
    [] OTHER -> "synthetic split"

(* score_detection(), score_classification(), score_scope_relations(), and  *)
(* the types again in the tier of the instance: what they do with a pair.   *)
Verdict(truth, found) ==
  CASE found.type # "no_conflict" /\ truth.type # "no_conflict" -> "tp"
    [] found.type # "no_conflict" /\ truth.type = "no_conflict" -> "fp"
    [] found.type = "no_conflict" /\ truth.type # "no_conflict" -> "fn"
    [] OTHER -> "tn"

ScoreDetection(truth, found) == binary' = [binary EXCEPT ![Verdict(truth, found)] = @ + 1]
ScoreType(truth, found) == types' = Hit(types, truth.type, found.type)

(* A pair that gold gives no relation is not scored for one.                *)
ScoreRelation(truth, found) ==
  relations' = IF truth.relation = NoRelation THEN relations ELSE Hit(relations, truth.relation, found.relation)

ScoreInTier(tier, truth, found) ==
  LET cells == IF tier \in DOMAIN byTier THEN byTier[tier] ELSE NoCells
  IN byTier' = [t \in DOMAIN byTier \cup {tier} |-> IF t = tier THEN Hit(cells, truth.type, found.type) ELSE byTier[t]]

ScorePair(found) ==
  LET truth == GoldPairs[passed + 1] IN
  /\ passed < Len(GoldPairs) /\ truth.type # Silent
  /\ passed' = passed + 1
  /\ matched' = matched \cup {<<passed + 1, found>>}
  /\ ScoreDetection(truth, found) /\ ScoreType(truth, found)
  /\ ScoreRelation(truth, found) /\ ScoreInTier(truth.tier, truth, found)

(* Stage 1 enumerated no such pair, or gold says nothing of it.             *)
PassPair ==
  /\ passed < Len(GoldPairs)
  /\ passed' = passed + 1
  /\ UNCHANGED <<matched, binary, types, relations, byTier>>

------------------------------------------------------------------------------
(* analyse(): what was found wrong of the pairs, told apart by the type, or *)
(* where the type is right by the relation.                                 *)

TypeWrong(m) == m[2].type # GoldPairs[m[1]].type
RelationWrong(m) == GoldPairs[m[1]].relation # NoRelation /\ m[2].relation # GoldPairs[m[1]].relation

ErrorCases == {m \in matched : TypeWrong(m) \/ RelationWrong(m)}

KindOfError(m) ==
  IF TypeWrong(m) THEN <<"type", GoldPairs[m[1]].type, m[2].type>>
  ELSE <<"relation", GoldPairs[m[1]].relation, m[2].relation>>

ByKind(kind) == {m \in ErrorCases : KindOfError(m) = kind}

(* The worked examples: the first few of each kind, in the order scored.    *)
Shown(sample) == {m \in ErrorCases : Cardinality({e \in ByKind(KindOfError(m)) : e[1] < m[1]}) < sample}

ClassInit ==
  /\ matched = {} /\ passed = 0 /\ binary = NoScores
  /\ types = NoCells /\ relations = NoCells /\ byTier = << >>

ClassNext == PassPair \/ \E found \in Findings : ScorePair(found)
=============================================================================
