------------------------------ MODULE MCStudy ------------------------------
(***************************************************************************)
(* Two annotators and two reviewers over two instances each, five instances*)
(* to mine that cover a chain of shared documents, an authored one and one *)
(* of the protected stratum, and texts of two or three words.  For the      *)
(* evaluation: every draft over a few fields, dev sets of one and three     *)
(* pairs, two detectors on four pairs, two items a reply, answers of up to  *)
(* two sentences, two instances to judge, and p-values on both sides of     *)
(* every step of the correction.                                            *)
(***************************************************************************)
EXTENDS StudyInv

MCBatch == <<"q1", "q2">>
MCProposals == {[type |-> "conditional", relation |-> None]}

MCInstances == <<"i1", "i2">>

Mined(docs, authored, type, separation) ==
  [docs |-> docs, authored |-> authored, contrast |-> FALSE, type |-> type,
   relation |-> IF type = "conditional" THEN "refinement" ELSE Absent,
   separation |-> separation, opposition |-> Absent, default |-> TRUE, scopes |-> <<1, 2>>]

MCPool == << Mined({"d1", "d2"}, FALSE, "factual", "same_guide"),
             Mined({"d3"}, FALSE, "factual", "same_guide"),
             Mined({"d4"}, FALSE, "conditional", "cross_document"),
             Mined({"d2", "d5"}, TRUE, "conditional", "synthetic_split"),
             Mined({"d4", "d5"}, FALSE, "factual", "same_guide") >>

MCWritten ==
  [w \in {"fees", "apply", "."} |-> <<w>>] @@ ("..." :> <<".", ".", ".">>) @@ [w \in {" ", "\n"} |-> <<" ">>]

MCPages == {<<>>, <<"fees", " ", "apply", ".">>, <<"fees", "\n", "apply", "...">>, <<"fees", " ", "fees">>,
            <<"apply", " ", "fees", " ", "\n", "apply", ".">>}

MCTexts == {<<"fees", " ", "apply", ".">>, <<"fees", " ", "apply">>, <<"apply", " ", "fees", " ", "apply">>}

MCOpenings ==
  {[passages |-> <<[source |-> "bank", text |-> p], [source |-> s, text |-> q]>>, fields |-> <<f>>,
    unsearched |-> {<<"apply", " ", "fees", " ", "apply", " ", "fees">>}] :
     p \in MCTexts, q \in MCTexts, s \in {"bank", "gov"}, f \in {<<"apply">>, <<"fees", " ", "apply", " ", "apply">>}}

(* Instances as they may be written down: a label right or wrong, one, two *)
(* or doubled passages, branches grounded or not, people and their pairs.  *)
Passage(id, doc) == [id |-> id, doc |-> doc]
Rule == [id |-> "b1", conditioned |-> FALSE, whole |-> TRUE, support |-> {}, outcome |-> "fee", attributes |-> << >>]
Exception(id, outcome, support) ==
  [id |-> id, conditioned |-> TRUE, whole |-> FALSE, support |-> support, outcome |-> outcome,
   attributes |-> <<[kind |-> "numeric_range", has |-> {"min", "max"}, ascending |-> TRUE]>>]

MCPeople == <<[id |-> "m1", branch |-> "b1"], [id |-> "m2", branch |-> "b2"]>>
MCPair(relevant, differs) == <<[base |-> "m1", flipped |-> "m2", relevant |-> relevant, changes |-> differs]>>

MCDrafts ==
  [type : ConflictTypes, relation : {NotGiven, "refinement", "redundant", "opposed"},
   opposition : {NotGiven, "crossing"}, construction : {"natural", "split"},
   passages : {<<Passage(1, "d1")>>, <<Passage(2, "d1"), Passage(1, "d2")>>, <<Passage(1, "d1"), Passage(2, "d1")>>,
               <<Passage(1, "d1"), Passage(1, "d2")>>},
   branches : {<<Rule>>, <<Rule, Exception("b2", "free", {1})>>, <<Rule, Exception("b2", "free", {})>>,
               <<Exception("b1", "fee", {1}), Exception("b2", "free", {1})>>,
               <<Exception("b2", "free", {1}), Exception("b2", "fee", {1})>>},
   personas : {<< >>, MCPeople}, personaPairs : {<< >>, MCPair(TRUE, TRUE), MCPair(FALSE, FALSE)}]

MCFixtures == {[n |-> 2, tier2 |-> 1, guarantee |-> FALSE], [n |-> 3, tier2 |-> 0, guarantee |-> TRUE],
               [n |-> 16, tier2 |-> 1, guarantee |-> TRUE]}

Pair(at, truth) == [at |-> at, truth |-> truth]
MCDevSets == UNION {[1..n -> {Pair(a, t) : a \in 0..3, t \in BOOLEAN}] : n \in {1, 3}}
MCStage2 == [num |-> 4, den |-> 5]
MCWants == {[kind |-> "accuracy", num |-> 4, den |-> 5], [kind |-> "budget", num |-> 1, den |-> 2],
            [kind |-> "knee", num |-> 0, den |-> 1]}
Heard(failing, entailment, labels) == [failing |-> failing, entailment |-> entailment, labels |-> labels]
MCAudits ==
  LET agreed == {<<"yes", "yes", "none">>, <<"no", "no", "none">>}
      differing == {<<"yes", "no", "no">>, <<"no", "yes", "none">>, <<"unsure", "yes", "none">>}
      explained == {Heard({}, score, said) : score \in 0..2, said \in agreed} \cup {Heard({}, 1, said) : said \in differing}
               \cup {Heard({"hedged", "matches"}, 2, <<"yes", "yes", "none">>), Heard({"determined", "verbatim"}, 0 - 1, <<"no", "no", "none">>)}
  IN [1..3 -> explained]
MCBar == [num |-> 2, den |-> 3]
MCTest == <<"conditional", "conditional", "factual", "no_conflict">>

MCGoldPairs ==
  << [tier |-> "natural", separation |-> "cross_document", type |-> "conditional", relation |-> "refinement"],
     [tier |-> "split", separation |-> "same_guide", type |-> "factual", relation |-> "opposed"],
     [tier |-> "natural", separation |-> "none", type |-> "no_conflict", relation |-> "none"],
     [tier |-> "split", separation |-> "synthetic_split", type |-> "conditional", relation |-> "redundant"],
     [tier |-> "split", separation |-> "none", type |-> "silent", relation |-> "none"] >>
MCFindings == {[type |-> t, relation |-> "none"] : t \in {"no_conflict", "factual", "temporal"}}
              \cup {[type |-> "conditional", relation |-> r] : r \in {"refinement", "redundant", "opposed"}}

MCContext == <<2019, 0, 2021>>
Item(default, condition, outcome, source) ==
  [default |-> default, condition |-> condition, outcome |-> outcome, source |-> source]
MCItems == {Item(TRUE, "", "fee", {1}), Item(TRUE, "premium", "free", {2}), Item(FALSE, "", "free", {9}),
            Item(FALSE, "premium", "free", {2}), Item(TRUE, "", "", {}), Item(TRUE, "abroad", "fee", {})}

MCPersonas == <<"ordinary", "premium">>
MCGoldOutcome == [ordinary |-> "fee", premium |-> "free"]
MCSentences == {<<"fee">>, <<"free">>, <<"no", "fee">>, <<"may", "fee">>, <<"no", "fee", "free">>, <<"fee", "may", "free">>}
MCReplies == {<<s>> : s \in MCSentences} \cup {<<s, t>> : s, t \in MCSentences}
MCQuotes == {<< >>, <<"no">>, <<"fee">>, <<"free">>, <<"no", "fee">>, <<"may", "fee">>, <<"fee", "free">>, <<"free", "fee">>,
             <<"fee", "no", "fee">>, <<"free", "no">>}

MCCases == << [tier |-> "natural", type |-> "conditional", distractor |-> FALSE, branches |-> <<"default", "implicit">>],
              [tier |-> "synthetic", type |-> "no_conflict", distractor |-> TRUE, branches |-> <<"explicit">>] >>

MCDiscordant == {<<5, 0>>, <<6, 0>>, <<7, 0>>, <<0, 7>>, <<1, 8>>, <<9, 1>>, <<1, 10>>, <<3, 3>>, <<12, 0>>, <<0, 0>>}
MCSecondP == {P(1, 60), P(1, 40), P(1, 20)}

(* No part names the people or the places of another: to swap the two of    *)
(* each group, all groups at once, is all the symmetry there is.             *)
Together(groups, swaps) == {f \in swaps : \A G, H \in groups : (\A p \in G : f[p] = p) <=> (\A p \in H : f[p] = p)}
People ==
  Together({Annotators, Reviewers, Comparators},
           {a @@ r @@ h : a \in Permutations(Annotators), r \in Permutations(Reviewers), h \in Permutations(Comparators)})
Places == Together({Desks, Terminals}, {d @@ t : d \in Permutations(Desks), t \in Permutations(Terminals)})
MCSymmetry == {f @@ p : f \in People, p \in Places}
=============================================================================
