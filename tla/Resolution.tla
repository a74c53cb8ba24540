------------------------------ MODULE Resolution ------------------------------
(***************************************************************************)
(* How conflicting branches are resolved: the four-way relation of two     *)
(* claims (scope/relation.py), the partition of the cases by the frames    *)
(* (composition/partition.py), the composition of a list of branches       *)
(* (composition/operator.py, contract/routing.py) and the branch that      *)
(* applies to a reader (service/branches.py).                              *)
(*                                                                         *)
(* These are functions of a list of branches, and a behaviour is one call   *)
(* of one of them.  Whether two texts say the same, and how far one scope  *)
(* entails another, is the answer of a matcher or a model and a constant   *)
(* here; nothing is assumed of those answers that the code does not make   *)
(* true by asking.                                                         *)
(***************************************************************************)
EXTENDS Scope

CONSTANTS
  Outcomes, Passages,
  OutcomesMatch,     (* the <<gold, pred>> that outcomes_match() accepts     *)
  ValuesMatch,       (* those values_match() accepts                         *)
  Votes,             (* Votes[o][p]: entailment less contradiction, o to p   *)
  OutcomeMargin,
  Entailment,        (* Entailment[s][t] between descriptors                 *)
  OverlapThreshold,
  NestThreshold,
  Lists,             (* the lists of branches to resolve                     *)
  Judgements,        (* what may be said of the conflicting pairs of a record*)
  Known,             (* the dimensions a reader may have filled in           *)
  MaxFrames          (* MAX_FRAMES                                           *)

VARIABLES
  branches,          (* the list given                                       *)
  result             (* what the last call returned                          *)

vars == <<branches, result>>

Branch == [scope : Scopes, outcome : Outcomes, passage : Passages]

ScopeRelations == {"refinement", "disjoint", "redundant", "opposed"}

(* "other" is a factual, temporal or opinion conflict. *)
PairKinds == ScopeRelations \cup {"other"}

ASSUME ResolutionAssumption ==
  /\ Passages \subseteq Int
  /\ Lists \subseteq Seq(Branch) \ {<<>>}
  /\ Judgements \subseteq SUBSET PairKinds
  /\ Known \subseteq SUBSET Names
  /\ OutcomesMatch \subseteq Outcomes \X Outcomes
  /\ ValuesMatch \subseteq Outcomes \X Outcomes
  /\ Votes \in [Outcomes -> [Outcomes -> Int]] /\ OutcomeMargin \in Int
  /\ Entailment \in [Scopes -> [Scopes -> Int]]
  /\ OverlapThreshold \in Int /\ NestThreshold \in Int /\ MaxFrames \in Nat

Ids == DOMAIN branches
ScopeOf(i) == branches[i].scope
IsDefault(i) == ScopeOf(i) \in Universal

------------------------------------------------------------------------------
(* scope/relation.py: two claims.                                           *)

(* scope_relation(): typed attributes first, entailment if they are silent, *)
(* and no direction on a tie.                                               *)
ScopeRelation(s, t) ==
  IF Compare(s, t) # "unknown" THEN Compare(s, t)
  ELSE IF Entailment[s][t] < OverlapThreshold /\ Entailment[t][s] < OverlapThreshold THEN "disjoint"
  ELSE IF \/ Entailment[s][t] < NestThreshold /\ Entailment[t][s] < NestThreshold
          \/ Entailment[s][t] = Entailment[t][s] THEN "overlapping"
  ELSE IF Entailment[s][t] > Entailment[t][s] THEN "subset" ELSE "superset"

OutcomesAgree(o, p) == o = p \/ Votes[o][p] + Votes[p][o] > 2 * OutcomeMargin

Combine(rel, agree) ==
  IF rel = "disjoint" THEN "disjoint"
  ELSE IF rel = "unknown" THEN "opposed"
  ELSE IF agree THEN "redundant"
  ELSE IF rel \in {"subset", "superset"} THEN "refinement" ELSE "opposed"

(* The default of two claims: by the scopes, else by the passages.          *)
MutantGeneral(rel, i, j) == IF rel = "superset" THEN i ELSE j
General(rel, i, j) ==
  IF rel = "subset" THEN j
  ELSE IF rel = "superset" THEN i
  ELSE IF branches[i].passage <= branches[j].passage THEN i ELSE j

(* The relation in terms of the roles, an exception inside its default.     *)
Canonical(rel) == IF rel = "superset" THEN "subset" ELSE rel

(* analyse() *)
Decide(i, j) ==
  LET rel == ScopeRelation(ScopeOf(i), ScopeOf(j)) IN
  [relation  |-> Combine(rel, OutcomesAgree(branches[i].outcome, branches[j].outcome)),
   default   |-> General(rel, i, j),
   exception |-> IF General(rel, i, j) = i THEN j ELSE i,
   canonical |-> Canonical(rel)]

(* The pair is analysed in both orders, as scope/order_invariance.py does.  *)
Analyse(i, j) ==
  /\ result.op = "none"
  /\ branches[i].passage # branches[j].passage
  /\ result' = [op |-> "analyse", forward |-> Decide(i, j), backward |-> Decide(j, i)]
  /\ UNCHANGED branches

------------------------------------------------------------------------------
(* composition/partition.py: the frames, by their positions in the list.    *)

TypedOnes == {i \in Ids : Typed(ScopeOf(i))}

(* A frame that uses one name in two ways, or holds for nobody, is dropped. *)
Coherent(s) == \A n \in Dims(s) : \A f, g \in Families(s, n) : f = g
Discarded == {i \in TypedOnes : ~(Coherent(ScopeOf(i)) /\ Satisfiable({ScopeOf(i)}, {}))}

Usable == TypedOnes \ Discarded
Clash(U) == {n \in Names : \E f, g \in UNION {Families(ScopeOf(i), n) : i \in U} : f # g}
Frames ==
  LET usable == Usable
      clash == Clash(usable)
  IN {i \in usable : Dims(ScopeOf(i)) \cap clash = {}}

Contains(s, t) == Compare(s, t) \in {"subset", "equal"}

MutantBelow(i, j) == Compare(ScopeOf(i), ScopeOf(j)) \in {"subset", "equal", "overlapping"} /\ i < j
Below(i, j) == Contains(ScopeOf(i), ScopeOf(j)) /\ ~Contains(ScopeOf(j), ScopeOf(i))

Governing(I) == {i \in I : \A j \in I : ~Below(j, i)}

First(I) == CHOOSE i \in I : \A j \in I : i <= j

Matched(I) == \A j \in I \ {First(I)} : <<branches[First(I)].outcome, branches[j].outcome>> \in ValuesMatch

Region(I) ==
  [inside    |-> I,
   governing |-> Governing(I),
   status    |-> IF I = {} THEN "uncovered" ELSE IF Matched(Governing(I)) THEN "assigned" ELSE "contested"]

(* Every way for some of the frames to hold, and for the others not to. *)
Candidates(F) == {I \in SUBSET F : Satisfiable({ScopeOf(i) : i \in I}, {ScopeOf(i) : i \in F \ I})}

(* The frames that govern in no region, each with those that do in its own. *)
Overridden(F, R) ==
  [i \in {j \in F : \A r \in R : j \notin r.governing} |->
     UNION {r.governing : r \in {q \in R : i \in q.inside}}]

(* partition_compose() *)
Partition ==
  /\ result.op = "none"
  /\ LET F == Frames
         R == {Region(I) : I \in Candidates(F)}
     IN result' = IF Cardinality(F) > MaxFrames THEN [op |-> "too_many"]
                  ELSE [op |-> "partition", frames |-> F, discarded |-> Discarded, indeterminate |-> Ids \ (F \cup Discarded),
                        regions |-> R, overridden |-> Overridden(F, R)]
  /\ UNCHANGED branches

------------------------------------------------------------------------------
(* composition/operator.py: the list, given the judgements of the pairs and *)
(* the passage that is the most credible.                                   *)

(* route() *)
Route(kind) ==
  CASE kind \in {"refinement", "disjoint"} -> "compose"
    [] kind = "redundant" -> "merge"
    [] kind = "opposed" -> "select"
    [] OTHER -> "prior_work"

Defaults == {i \in Ids : IsDefault(i)}
Exceptions(I) == {i \in I : ~IsDefault(i)}

(* _merge_redundant() *)
Merged ==
  IF Defaults = {} THEN Ids
  ELSE {First(Defaults)} \cup
       {i \in Exceptions(Ids) : <<branches[First(Defaults)].outcome, branches[i].outcome>> \notin OutcomesMatch}

(* classify_exception_pair() *)
MutantFlag(i, j) ==
  LET rel == Compare(ScopeOf(i), ScopeOf(j)) IN
  IF rel \in {"disjoint", "unknown"} \/ <<branches[i].outcome, branches[j].outcome>> \in OutcomesMatch THEN "none"
  ELSE IF rel \in {"subset", "superset"} THEN "nested" ELSE IF rel = "equal" THEN "crossed" ELSE "none"
Flag(i, j) ==
  LET rel == Compare(ScopeOf(i), ScopeOf(j)) IN
  IF rel \in {"disjoint", "unknown"} \/ <<branches[i].outcome, branches[j].outcome>> \in OutcomesMatch THEN "none"
  ELSE IF rel \in {"subset", "superset"} THEN "nested" ELSE "crossed"

Flags(I) == {Flag(p[1], p[2]) : p \in {q \in Exceptions(I) \X Exceptions(I) : q[1] < q[2]}} \ {"none"}

(* The branches of the most credible passage, or the branch that comes     *)
(* first; a merge puts the default in front.                               *)
Survivors(I, winner, first) ==
  IF \E i \in I : branches[i].passage = winner THEN {i \in I : branches[i].passage = winner} ELSE {first}

Answer(resolution, kept, flags) == [op |-> "compose", resolution |-> resolution, kept |-> kept, flags |-> flags]

(* compose() *)
Composed(kinds, winner) ==
  LET actions == {Route(k) : k \in kinds}
      merging == "merge" \in actions
      kept    == IF merging THEN Merged ELSE Ids
      lead    == IF merging /\ Defaults # {} THEN First(Defaults) ELSE 1
  IN IF kinds = {} THEN Answer("pass_through", {IF Defaults # {} THEN First(Defaults) ELSE 1}, {})
     ELSE IF "select" \in actions THEN Answer("selected", Survivors(Ids, winner, 1), {})
     ELSE IF actions = {"prior_work"} THEN Answer("prior_work", Ids, {})
     ELSE IF merging /\ "compose" \notin actions THEN Answer("merged", kept, {})
     ELSE IF Flags(kept) # {} THEN Answer("selected", Survivors(kept, winner, lead), Flags(kept))
     ELSE Answer("composed", kept, {})

Compose(kinds, winner) ==
  /\ result.op = "none"
  /\ result' = Composed(kinds, winner)
  /\ UNCHANGED branches

------------------------------------------------------------------------------
(* service/branches.py: branch_for_reader() for every case, when only the   *)
(* dimensions in K were filled in; 0 is no branch.                          *)
Applies(c, K) == {i \in Ids : ~IsDefault(i) /\ Satisfies(ScopeOf(i), c, K)}

BranchFor(c, K) ==
  IF Applies(c, K) # {} THEN First(Applies(c, K)) ELSE IF Defaults # {} THEN First(Defaults) ELSE 0

Read(K) ==
  /\ result.op = "none"
  /\ result' = [op |-> "read", known |-> K, branch |-> [c \in Cases |-> BranchFor(c, K)]]
  /\ UNCHANGED branches

------------------------------------------------------------------------------
Init ==
  /\ branches \in Lists
  /\ result = [op |-> "none"]

Next ==
  \/ \E i, j \in Ids : Analyse(i, j)
  \/ Partition
  \/ \E kinds \in Judgements, winner \in Passages : Compose(kinds, winner)
  \/ \E K \in Known : Read(K)

Spec == Init /\ [][Next]_vars
=============================================================================
