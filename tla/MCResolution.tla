---------------------------- MODULE MCResolution ----------------------------
(* Scopes over a card's tier, an age and whether one is a student, and the  *)
(* lists of up to three or four branches over them.                         *)
EXTENDS ResolutionInv, TLC

Tier == {"premium", "platinum", "other tier"}
(* The ages below, within, between and above the bounds 0..18 and 18..65.   *)
Age == {"minor", "eighteen", "grown", "aged"}
MCDomain == [tier |-> Tier, age |-> Age, student |-> {"true", "false"}]
MCNames == DOMAIN MCDomain

Attr(name, kind, allowed) == [name |-> name, kind |-> kind, allowed |-> allowed]
OfTier(values) == Attr("tier", "categorical", values)
Between(points) == Attr("age", "numeric_range", points)
Student(values) == Attr("student", "boolean", values)

Gold == [
  everyone  |-> <<>>,
  premium   |-> <<OfTier({"premium"})>>,
  platinum  |-> <<OfTier({"platinum"})>>,
  either    |-> <<OfTier({"premium", "platinum"})>>,
  young     |-> <<Between({"minor", "eighteen"})>>,
  adult     |-> <<Between({"eighteen", "grown"})>>,
  youngPrem |-> <<OfTier({"premium"}), Between({"minor", "eighteen"})>>,
  student   |-> <<Student({"true"})>>]

(* Scopes the partition cannot use, or uses with care. *)
Odd == [
  hardship  |-> <<OfTier({"premium"}), Attr("age", "free_text", {})>>,
  other     |-> <<Attr("tier", "free_text", {})>>,
  nobody    |-> <<OfTier({"premium"}), OfTier({"platinum"})>>,
  tiered    |-> <<Attr("tier", "ordered_tier", {"premium", "platinum"})>>,
  mixed     |-> <<Attr("age", "boolean", {"minor"})>>,
  wavering  |-> <<Between({"minor", "eighteen"}), Attr("age", "boolean", {"minor"})>>]

MCAttrs == Gold @@ Odd
MCScopes == DOMAIN MCAttrs
MCUniversal == {"everyone"}

Fee == {"free", "fee"}
SameFee == {<<o, o>> : o \in Fee}

(* Votes and descriptors answer differently in the two directions.          *)
FeeVotes == [o \in Fee |-> [p \in Fee |-> IF o = p THEN 3 ELSE IF o = "fee" THEN 2 ELSE -2]]
MCEntailment == [s \in MCScopes |-> [t \in MCScopes |->
  IF s = "hardship" /\ t = "other" THEN 3
  ELSE IF {s, t} = {"hardship", "young"} THEN 3
  ELSE IF s = "other" /\ t = "premium" THEN 3
  ELSE IF s = "other" THEN 1 ELSE IF t = "hardship" THEN 2 ELSE 0]]

BranchOf(scope, outcome, passage) == [scope |-> scope, outcome |-> outcome, passage |-> passage]
TheRule == <<BranchOf("everyone", "fee", 1)>>

Listed(S, O, lengths) ==
  UNION {{[k \in 1..n |-> BranchOf(sc[k], oc[k], k + 1)] : sc \in [1..n -> S], oc \in [1..n -> O]} : n \in lengths}

Ordinary == DOMAIN Gold \ {"everyone"}
MCLists ==
  {TheRule} \cup Listed(MCScopes, Fee, {1, 2})
  \cup {TheRule \o l : l \in Listed(MCScopes \ MCUniversal, Fee, {1, 2})}
  \cup {TheRule \o l : l \in Listed(Ordinary, Fee, {3})}
  \cup {TheRule \o l : l \in Listed({"premium", "young"}, Fee, {4})}

MCJudgements == {{}, {"refinement"}, {"refinement", "redundant"}, {"redundant"}, {"redundant", "other"},
                 {"other"}, {"disjoint", "other"}, {"refinement", "opposed"}}
Everything == {MCNames, MCNames \ {"age"}}
=============================================================================
