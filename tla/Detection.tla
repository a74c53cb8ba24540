------------------------------ MODULE Detection ------------------------------
(***************************************************************************)
(* From two passages to a judged pair: the local filter                    *)
(* (detection/stage1.py), the rules that name the kind of a conflict       *)
(* (detection/variants/lexical_nli.py), the model that is asked about the  *)
(* uncertain pairs (detection/stage2.py), how they are combined            *)
(* (detection/pipeline.py), and what the contract demands of a pair        *)
(* (contract/models.py).  All of them are functions.                       *)
(*                                                                         *)
(* What is read off the two texts, and what the model replies, are inputs. *)
(* Scores are counted in millionths, shares and weights in thousandths.    *)
(***************************************************************************)
EXTENDS Integers, Sequences, FiniteSets

CONSTANTS
  Low, High,     (* the uncertain band                                      *)
  HeadScores     (* what a trained head may say; {} when there is none      *)

ASSUME DetectionAssumption == Low \in Int /\ High \in Int /\ HeadScores \subseteq 0..1000000

ScopeRelations == {"refinement", "disjoint", "redundant", "opposed"}
ConflictTypes == {"factual", "temporal", "opinion", "conditional"}

(* A pair's features: whether the figures or the years clash, how many      *)
(* cues of each kind the richer passage has, by how much the two differ in  *)
(* restrictions and qualifiers, the shared words, and the NLI signal.       *)
Features == [clash : BOOLEAN, year : BOOLEAN, temporal : Nat, opinion : Nat, cues : Nat,
             restricted : Nat, specific : Nat, shared : 0..1000, signal : 0..1000]

Pair == [conflict : BOOLEAN, type : ConflictTypes \cup {"no_conflict"},
         relation : ScopeRelations \cup {"none"}, by : {"stage1", "stage2", "gold", "mock"}]

Judged(type, relation, by) == [conflict |-> type # "no_conflict", type |-> type, relation |-> relation, by |-> by]
NoConflict(by) == Judged("no_conflict", "none", by)

(* _check_type_consistency() *)
Valid(p) ==
  /\ p.conflict <=> p.type # "no_conflict"
  /\ p.type = "conditional" => p.relation # "none"
  /\ p.relation # "none" => p.type \in {"conditional", "factual"}

------------------------------------------------------------------------------
AtMost(m, n) == IF n < m THEN n ELSE m
Weight(b, w) == IF b THEN w ELSE 0

(* _rule_score(); about different things, two passages are not in conflict. *)
RuleScore(f) ==
  LET evidence == (600 * f.signal) \div 1000 + 100 * AtMost(2, f.cues) + 50 * AtMost(2, f.restricted)
                  + Weight(f.clash, 150) + Weight(f.year, 100)
      topic == 350 + (650 * AtMost(1000, 3 * f.shared)) \div 1000
  IN AtMost(1000000, evidence * topic)

Scores(f) == IF HeadScores = {} THEN {RuleScore(f)} ELSE HeadScores

IsConflict(score) == score >= 500000
Uncertain(score) == Low <= score /\ score <= High
(* _rule_relation() and _rule_classify() *)
RuleRelation(f) ==
  IF f.shared < 200 THEN "disjoint"
  ELSE IF ~f.clash /\ f.cues = 0 THEN "redundant"
  ELSE IF f.restricted >= 1 \/ f.specific >= 2 THEN "refinement" ELSE "opposed"

RuleClassify(f) ==
  IF f.temporal >= 1 /\ (f.year \/ f.clash) THEN Judged("temporal", "none", "stage1")
  ELSE IF f.opinion >= 1 THEN Judged("opinion", "none", "stage1")
  ELSE IF f.cues >= 1 \/ (f.restricted >= 1 /\ f.specific >= 1) THEN Judged("conditional", RuleRelation(f), "stage1")
  ELSE IF f.clash \/ f.shared > 450 THEN Judged("factual", "none", "stage1")
  ELSE NoConflict("stage1")

(* _coerce(): a reply's type, relation and verdict, "none" and "unset" for  *)
(* what is missing or cannot be read, made into what the contract accepts.  *)
Coerce(raw) ==
  IF raw.type = "no_conflict" \/ raw.conflict = "false" THEN NoConflict("stage2")
  ELSE IF raw.type = "conditional" /\ raw.relation = "none" THEN Judged("factual", "none", "stage2")
  ELSE IF raw.type \in {"conditional", "factual"} THEN Judged(raw.type, raw.relation, "stage2")
  ELSE Judged(raw.type, "none", "stage2")

(* _to_pair(): the model's judgement where there is one, and stage 1's, as  *)
(* the rules classify it, where the model was not asked or did not answer.  *)
ToPair(f, score, reply) ==
  IF reply.type # "unasked" THEN Coerce(reply)
  ELSE IF IsConflict(score) THEN RuleClassify(f) ELSE NoConflict("stage1")

------------------------------------------------------------------------------
(* contract/routing.py: what is done about one pair.                        *)
Route(p) ==
  CASE ~p.conflict -> "pass_through"
    [] p.conflict /\ p.type # "conditional" -> "prior_work"
    [] p.conflict /\ p.type = "conditional" ->
         CASE p.relation \in {"refinement", "disjoint"} -> "compose"
           [] p.relation = "redundant" -> "merge"
           [] p.relation = "opposed" -> "select"
           [] OTHER -> "unroutable"

(* What the operator sees of a conflict. *)
KindOf(p) == IF p.type = "conditional" THEN p.relation ELSE "other"
=============================================================================
