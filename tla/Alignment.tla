------------------------------ MODULE Alignment ------------------------------
(***************************************************************************)
(* Which predicted branch stands for which gold branch, and what became of  *)
(* each gold branch (metrics/branch_match.py).                             *)
(*                                                                         *)
(* How alike two outcomes or two descriptors are worded is a constant; that *)
(* two outcomes are accepted as the same is OutcomesMatch.                 *)
(***************************************************************************)
EXTENDS Scope, SequencesExt

CONSTANTS
  Outcomes,
  OutcomesMatch,   (* the <<gold, pred>> that outcomes_match() accepts      *)
  Likeness,        (* Likeness[g][p]: the larger of similarity, containment *)
  WordedAlike,     (* the <<gold, pred>> scopes with descriptors >= 0.35    *)
  WordedSame       (* those >= 0.8                                          *)

Judgements == {"preserved", "suppressed", "distorted"}

IsRule(b) == b.scope \in Universal

(* applicabilities_match() *)
ApplicabilitiesMatch(g, p) ==
  LET rel == Compare(p.scope, g.scope) IN
  IF IsRule(g) \/ IsRule(p) THEN IsRule(g) = IsRule(p)
  ELSE CASE rel \in {"equal", "subset"} -> TRUE
         [] rel \in {"disjoint", "overlapping", "superset"} -> <<g.scope, p.scope>> \in WordedSame
         [] OTHER -> <<g.scope, p.scope>> \in WordedAlike

JudgePair(g, p) ==
  IF <<g.outcome, p.outcome>> \in OutcomesMatch /\ ApplicabilitiesMatch(g, p) THEN "preserved" ELSE "distorted"

(* The rule first: it anchors the instance.                                 *)
RuleFirst(gold) == SelectSeq(gold, IsRule) \o SelectSeq(gold, LAMBDA b : ~IsRule(b))

(* The free predictions of its kind; the likest, and of these the first.    *)
OfItsKind(g, pred, free) == {i \in free : IsRule(g) = IsRule(pred[i])}

Likest(g, pred, I) ==
  CHOOSE i \in I : \A j \in I :
    \/ Likeness[g.outcome][pred[i].outcome] > Likeness[g.outcome][pred[j].outcome]
    \/ Likeness[g.outcome][pred[i].outcome] = Likeness[g.outcome][pred[j].outcome] /\ i <= j

(* One gold branch takes its prediction, which is then no longer free.      *)
Take(done, g, pred) ==
  LET I == OfItsKind(g, pred, done.free) IN
  IF I = {} THEN [done EXCEPT !.rows = Append(@, [gold |-> g, match |-> 0, judged |-> "suppressed"])]
  ELSE LET i == Likest(g, pred, I) IN
       [free |-> done.free \ {i}, rows |-> Append(done.rows, [gold |-> g, match |-> i, judged |-> JudgePair(g, pred[i])])]

(* align(): the rows, and the predictions nothing was matched with.         *)
Align(gold, pred) ==
  FoldLeft(LAMBDA done, g : Take(done, g, pred), [free |-> DOMAIN pred, rows |-> <<>>], RuleFirst(gold))

CountOf(rows, judged) == Cardinality({i \in DOMAIN rows : rows[i].judged = judged})
=============================================================================
