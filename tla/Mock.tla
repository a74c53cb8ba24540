-------------------------------- MODULE Mock --------------------------------
(***************************************************************************)
(* The mock benchmark both members build against (contract/mock.py): gold  *)
(* instances drawn from templates, some of them retagged as cut from one   *)
(* document, and the report of what a fixture covers.  The generator writes*)
(* down labels; nothing in it computes them.  A text is left out but for   *)
(* the outcome it states, and a draw is kept where a label depends on it.  *)
(***************************************************************************)
EXTENDS Contract

CONSTANTS
  Fixtures      (* the fixtures asked for: [n, tier2, guarantee], where    *)
                (* tier2 is how many of the n are retagged                 *)

ASSUME FixturesAssumption == \A f \in Fixtures : {f.n, f.tier2} \subseteq Nat /\ f.tier2 <= f.n /\ f.guarantee \in BOOLEAN

VARIABLES
  ordered,      (* the templates to build, << >> before generate()         *)
  tier2,        (* the positions to retag                                  *)
  mocks,        (* how many are built                                      *)
  mock,         (* the last of them                                        *)
  coverage      (* coverage_report() of what is built                      *)

mockVars == <<ordered, tier2, mocks, mock, coverage>>

NoMock == << >>
NoCoverage == [cell \in {} |-> 0]

------------------------------------------------------------------------------
Template(domain, type, relation) ==
  [domain |-> domain, type |-> type, relation |-> relation, explicitness |-> "explicit", nested |-> FALSE, crossed |-> FALSE]
Implicit(tpl) == [tpl EXCEPT !.explicitness = "implicit"]

Templates ==
  LET refinement(domain) == Template(domain, "conditional", "refinement")
      distractor(domain, type) == Template(domain, type, NotGiven)
  IN << refinement("fin"), Implicit(refinement("fin")), refinement("imm"), Implicit(refinement("imm")),
        Template("fin", "conditional", "disjoint"), Template("fin", "conditional", "redundant"),
        Template("imm", "conditional", "opposed"),
        [refinement("fin") EXCEPT !.nested = TRUE], [refinement("imm") EXCEPT !.crossed = TRUE],
        distractor("fin", "factual"), distractor("imm", "factual"), distractor("fin", "temporal"),
        distractor("imm", "opinion"), distractor("fin", "no_conflict"), distractor("imm", "no_conflict") >>

IsDistractor(tpl) == tpl.type # "conditional"

CardTiers == <<"standard", "classic", "premium", "platinum", "signature">>
From(n) == {CardTiers[k] : k \in n..Len(CardTiers)}
VisaCats == {"F-1", "J-1", "M-1", "H-4", "B-2"}
AccountKinds == {"savings", "current", "student", "joint"}

Listed(kind, name, values) == [kind |-> kind, name |-> name, has |-> {"values"}, ascending |-> TRUE, allowed |-> values]
TierAttr(values) == Listed("ordered_tier", "card_tier", values)
CatAttr(name, value) == Listed("categorical", name, {value})
Flag(name, value) == [kind |-> "boolean", name |-> name, has |-> {"boolean"}, ascending |-> TRUE, allowed |-> {value}]
Above(name) == [kind |-> "numeric_range", name |-> name, has |-> {"min"}, ascending |-> TRUE, allowed |-> {"above"}]

(* The general rule, of the first passage, and a scoped one.                *)
General(outcome) ==
  [id |-> "b0", conditioned |-> FALSE, whole |-> TRUE, support |-> {1}, outcome |-> outcome, attributes |-> << >>,
   explicitness |-> "explicit"]
Scoped(id, outcome, attributes, source) ==
  [General(outcome) EXCEPT !.id = id, !.conditioned = TRUE, !.whole = FALSE, !.support = {source}, !.attributes = attributes]

(* Every passage of an instance comes from a document of its own.           *)
Instance(tpl, documents, branches) ==
  [domain |-> tpl.domain, type |-> tpl.type, relation |-> tpl.relation, opposition |-> NotGiven,
   nested |-> FALSE, crossed |-> FALSE, distractor |-> FALSE, construction |-> "natural", separation |-> NotGiven,
   passages |-> [k \in DOMAIN documents |-> [id |-> k, doc |-> documents[k]]],
   branches |-> branches, personas |-> << >>, personaPairs |-> << >>]

Someone(id, branch, tier, city) == [id |-> id, branch |-> branch, tier |-> tier, city |-> city]

------------------------------------------------------------------------------
(* _build_...(): what a template may come to.                               *)

BuildFinancialRefinement(tpl) ==
  LET for(n) ==
        [Instance(tpl, <<"terms", "prod">>,
           << General("fee"), [Scoped("b1", "none", <<TierAttr(From(n))>>, 2) EXCEPT !.explicitness = tpl.explicitness] >>)
         EXCEPT !.personas = << Someone("u_default", "b0", CardTiers[1], "Leeds"),
                                Someone("u_exception", "b1", CardTiers[n], "Leeds"),
                                Someone("u_default_city", "b0", CardTiers[1], "York") >>,
                !.personaPairs = << [base |-> "u_default", flipped |-> "u_exception", relevant |-> TRUE, changes |-> TRUE],
                                    [base |-> "u_default", flipped |-> "u_default_city", relevant |-> FALSE, changes |-> FALSE] >>]
  IN {for(n) : n \in 3..Len(CardTiers)}

BuildImmigrationRefinement(tpl) ==
  {Instance(tpl, <<"policy", "faq">>,
     << General("prohibited"),
        [Scoped("b1", "permitted", <<CatAttr("visa_category", cat), Flag("authorisation", "yes")>>, 2)
         EXCEPT !.explicitness = tpl.explicitness] >>) : cat \in VisaCats}

(* Two rules, neither of them the general one.                              *)
BuildDisjoint(tpl) ==
  {Instance(tpl, <<"a", "b">>,
     << Scoped("b0", "lower", <<CatAttr("account_kind", pair[1])>>, 1),
        Scoped("b1", "higher", <<CatAttr("account_kind", pair[2])>>, 2) >>) :
     pair \in {p \in AccountKinds \X AccountKinds : p[1] # p[2]}}

(* A restatement is merged: one branch.                                     *)
BuildRedundant(tpl) == {Instance(tpl, <<"terms", "faq">>, <<General("fee")>>)}

(* Scopes that cross.  In an earlier version the second lay inside the      *)
(* first, which is a refinement.                                            *)
MutantBuildOpposed(tpl) ==
  LET first == CatAttr("enrolment_year", "first") IN
  {[Instance(tpl, <<"g", "t">>,
      << Scoped("b0", "permitted", <<first>>, 1),
         Scoped("b1", "prohibited", <<first, CatAttr("enrolment_mode", "part_time")>>, 2) >>) EXCEPT !.opposition = "crossing"]}
BuildOpposed(tpl) ==
  {[Instance(tpl, <<"g", "t">>,
      << Scoped("b0", "permitted", <<CatAttr("enrolment_year", "first")>>, 1),
         Scoped("b1", "prohibited", <<CatAttr("enrolment_mode", "part_time")>>, 2) >>) EXCEPT !.opposition = "crossing"]}

BuildNested(tpl) ==
  {[Instance(tpl, <<"terms", "prod", "amend">>,
      << General("fee"), Scoped("b1", "none", <<TierAttr(From(3))>>, 2),
         Scoped("b2", "fee", <<TierAttr(From(3)), Above("amount")>>, 3) >>) EXCEPT !.nested = TRUE]}

BuildCrossed(tpl) ==
  {[Instance(tpl, <<"policy", "faq", "amend">>,
      << General("prohibited"), Scoped("b1", "permitted", <<Flag("hardship_auth", "yes")>>, 2),
         Scoped("b2", "prohibited", <<Flag("full_time", "no")>>, 3) >>) EXCEPT !.crossed = TRUE]}

BuildDistractor(tpl) == {[Instance(tpl, <<"a", "b">>, << >>) EXCEPT !.distractor = TRUE]}

BuildMock(tpl) ==
  CASE tpl.nested                -> BuildNested(tpl)
    [] tpl.crossed               -> BuildCrossed(tpl)
    [] IsDistractor(tpl)         -> BuildDistractor(tpl)
    [] tpl.relation = "disjoint"  -> BuildDisjoint(tpl)
    [] tpl.relation = "redundant" -> BuildRedundant(tpl)
    [] tpl.relation = "opposed"   -> BuildOpposed(tpl)
    [] OTHER -> IF tpl.domain = "fin" THEN BuildFinancialRefinement(tpl) ELSE BuildImmigrationRefinement(tpl)

------------------------------------------------------------------------------
(* generate(): every template first, if asked, then draws by weight, which  *)
(* leave no template out; a list that is longer than asked is cut.          *)
TemplateOrders(f) ==
  LET first == IF f.guarantee THEN Templates ELSE << >>
      draws == IF f.n > Len(first) THEN [1..(f.n - Len(first)) -> Range(Templates)] ELSE {<< >>}
  IN {SubSeq(first \o drawn, 1, f.n) : drawn \in draws}

GenerateMocks(f) ==
  /\ ordered = << >>
  /\ ordered' \in TemplateOrders(f)
  /\ tier2' \in {T \in SUBSET (1..f.n) : Cardinality(T) = f.tier2}
  /\ UNCHANGED <<mocks, mock, coverage>>

(* Retagged by model_copy(), which looks at nothing: no validator runs.     *)
Retagged(m) ==
  [m EXCEPT !.construction = "split", !.separation = "synthetic_split",
            !.passages = [k \in DOMAIN m.passages |-> [m.passages[k] EXCEPT !.doc = "single"]]]

(* coverage_report(): what an instance counts for, in each section.         *)
CellsOf(m) ==
  {<<"conflict_type", m.type>>, <<"scope_relation", m.relation>>, <<"construction", m.construction>>}
  \cup {<<"flags", "nested">> : on \in {m.nested} \cap {TRUE}}
  \cup {<<"flags", "crossed">> : on \in {m.crossed} \cap {TRUE}}

Explained(m, how) == Cardinality({k \in DOMAIN m.branches : m.branches[k].conditioned /\ m.branches[k].explicitness = how})

CountedIn(report, m) ==
  LET marked == {<<"explicitness", how>> : how \in {h \in {"explicit", "implicit"} : Explained(m, h) > 0}}
      before(cell) == IF cell \in DOMAIN report THEN report[cell] ELSE 0
  IN [cell \in DOMAIN report \cup CellsOf(m) \cup marked |->
        before(cell) + IF cell \in marked THEN Explained(m, cell[2]) ELSE IF cell \in CellsOf(m) THEN 1 ELSE 0]

BuildNext ==
  /\ mocks < Len(ordered)
  /\ mocks' = mocks + 1
  /\ \E built \in {b \in BuildMock(ordered[mocks + 1]) : GoldOk(b)} :
       LET m == IF mocks + 1 \in tier2 THEN Retagged(built) ELSE [built EXCEPT !.separation = "cross_document"]
       IN mock' = <<m>> /\ coverage' = CountedIn(coverage, m)
  /\ UNCHANGED <<ordered, tier2>>

MockInit == ordered = << >> /\ tier2 = {} /\ mocks = 0 /\ mock = NoMock /\ coverage = NoCoverage

MockNext == BuildNext \/ \E f \in Fixtures : GenerateMocks(f)
=============================================================================
