------------------------------ MODULE Contract ------------------------------
(***************************************************************************)
(* The two schemas of the contract: what annotators record of an instance  *)
(* (contract/gold.py) and what one component hands another at run time     *)
(* (contract/models.py), each with its validators, and the projection of   *)
(* the first to the second.  An object that fails a validator is never     *)
(* built.                                                                  *)
(***************************************************************************)
EXTENDS Naturals, Sequences, SequencesExt, FiniteSets

CONSTANTS
  Drafts        (* what an annotator's file can say of an instance         *)

ASSUME DraftsAssumption == \A d \in Drafts : d.passages \in Seq(Range(d.passages))

NotGiven == "none"
ConflictTypes == {"no_conflict", "factual", "temporal", "opinion", "conditional"}

VARIABLES
  written,      (* the instance as written, << >> before it is             *)
  accepted,     (* the gold instance built from it, << >> if there is none *)
  record        (* what it was projected to                                *)

contractVars == <<written, accepted, record>>

(* Nothing is projected yet; nothing could be.                              *)
NoRecord == [passages |-> << >>, pairs |-> << >>, valid |-> TRUE]
BadRecord == [NoRecord EXCEPT !.valid = FALSE]

------------------------------------------------------------------------------
(* The gold schema.                                                         *)

(* An attribute carries the payload its kind asks for, a range in order.    *)
PayloadMatches(attribute) ==
  CASE attribute.kind \in {"categorical", "ordered_tier"} -> "values" \in attribute.has
    [] attribute.kind = "numeric_range" ->
         attribute.has \cap {"min", "max"} # {} /\ ({"min", "max"} \subseteq attribute.has => attribute.ascending)
    [] OTHER -> attribute.kind \in attribute.has

(* No condition, and only then, means the whole case space.                 *)
BranchOk(b) == (b.conditioned <=> ~b.whole) /\ \A a \in Range(b.attributes) : PayloadMatches(a)

MutantLabelsOk(g) == g.type = "no_conflict" => g.relation = NotGiven
LabelsOk(g) ==
  /\ g.type = "conditional" => g.relation # NotGiven
  /\ g.type = "no_conflict" => g.relation = NotGiven

OppositionOk(g) == g.opposition # NotGiven => g.relation = "opposed"

BranchOf(g, name) == g.branches[SelectLastInSeq(g.branches, LAMBDA b : b.id = name)]
PersonaOf(g, name) == g.personas[SelectLastInSeq(g.personas, LAMBDA p : p.id = name)]

Distinct(s) == \A i, j \in DOMAIN s : i # j => s[i].id # s[j].id
Ids(s) == {s[i].id : i \in DOMAIN s}

OutcomeFor(g, persona) == BranchOf(g, PersonaOf(g, persona).branch).outcome

(* A pair says what changed between two people, which must be what their    *)
(* branches say.                                                            *)
PairOk(g, pair) ==
  /\ pair.base # pair.flipped
  /\ pair.relevant <=> pair.changes
  /\ {pair.base, pair.flipped} \subseteq Ids(g.personas)
  /\ (OutcomeFor(g, pair.base) # OutcomeFor(g, pair.flipped)) <=> pair.changes

PersonasOk(g) ==
  g.personas # << >> \/ g.personaPairs # << >> =>
    /\ g.branches # << >>
    /\ Distinct(g.personas)
    /\ \A p \in Range(g.personas) : p.branch \in Ids(g.branches)
    /\ \A pair \in Range(g.personaPairs) : PairOk(g, pair)

Defaults(g) == {k \in DOMAIN g.branches : ~g.branches[k].conditioned}

(* At most one general rule, and one where the relation needs it; every     *)
(* exception grounded in a passage there is; as many branches as the        *)
(* relation leaves.                                                         *)
BranchesOk(g) ==
  g.branches # << >> =>
    /\ Distinct(g.branches)
    /\ Cardinality(Defaults(g)) <= 1
    /\ Defaults(g) = {} => g.relation \notin {"refinement", "redundant"}
    /\ \A b \in Range(g.branches) :
         /\ b.conditioned => b.support # {}
         /\ b.support \subseteq Ids(g.passages)
    /\ g.type = "conditional" =>
         IF g.relation = "redundant" THEN Len(g.branches) = 1 ELSE Len(g.branches) >= 2

GoldOk(g) ==
  /\ \A b \in Range(g.branches) : BranchOk(b)
  /\ LabelsOk(g) /\ OppositionOk(g) /\ PersonasOk(g) /\ BranchesOk(g)

------------------------------------------------------------------------------
(* The wire schema.                                                         *)

(* A pair is unordered: it is stored in the order of its ids.               *)
ConflictPair(i, j, g) ==
  [key |-> IF i <= j THEN <<i, j>> ELSE <<j, i>>,
   conflict |-> g.type # "no_conflict",
   type |-> g.type, relation |-> g.relation, opposition |-> g.opposition]

ConflictPairOk(pair) ==
  /\ pair.key[1] # pair.key[2]
  /\ pair.conflict <=> pair.type # "no_conflict"
  /\ pair.type = "conditional" => pair.relation # NotGiven
  /\ pair.relation # NotGiven => pair.type \in {"conditional", "factual"}
  /\ pair.opposition # NotGiven => pair.relation = "opposed"

(* Passages of a natural instance are not known to be from one document.    *)
ProvenanceOk(g) ==
  LET known == {i \in DOMAIN g.passages : g.passages[i].doc # NotGiven}
  IN g.construction = "natural" => ~(Cardinality(known) >= 2 /\ Cardinality({g.passages[i].doc : i \in known}) = 1)

RecordOk(g, pairs) ==
  /\ Distinct(g.passages)
  /\ \A p \in Range(pairs) : Range(p.key) \subseteq Ids(g.passages)
  /\ \A i, j \in DOMAIN pairs : i # j => pairs[i].key # pairs[j].key
  /\ ProvenanceOk(g)

------------------------------------------------------------------------------
Annotate(d) ==
  /\ written = << >>
  /\ written' = <<d>>
  /\ UNCHANGED <<accepted, record>>

Accept ==
  /\ written # << >> /\ accepted = << >> /\ GoldOk(written[1])
  /\ accepted' = written
  /\ UNCHANGED <<written, record>>

(* The label is about the first two passages; with one there is no pair,    *)
(* and none when only the input side is asked for.                          *)
Labelling(g, withGold) ==
  IF withGold /\ Len(g.passages) >= 2 THEN <<ConflictPair(g.passages[1].id, g.passages[2].id, g)>> ELSE << >>

ToQueryRecord(withGold) ==
  /\ accepted # << >> /\ record = NoRecord
  /\ LET g == accepted[1]
         pairs == Labelling(g, withGold)
     IN record' = IF (\A p \in Range(pairs) : ConflictPairOk(p)) /\ RecordOk(g, pairs)
                  THEN [passages |-> g.passages, pairs |-> pairs, valid |-> TRUE]
                  ELSE BadRecord
  /\ UNCHANGED <<written, accepted>>

ContractInit == written = << >> /\ accepted = << >> /\ record = NoRecord

ContractNext ==
  \/ \E d \in Drafts : Annotate(d)
  \/ Accept
  \/ \E withGold \in BOOLEAN : ToQueryRecord(withGold)
=============================================================================
