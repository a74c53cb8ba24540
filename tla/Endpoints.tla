----------------------------- MODULE Endpoints -----------------------------
(***************************************************************************)
(* What is planned and what is concluded: gate G1 fits the planned matrix  *)
(* to the quota before the freeze (experiments/g1.py), and the confirmatory*)
(* family tests its hypotheses on paired answers after it                  *)
(* (metrics/stats.py, experiments/analysis.py).  A p-value is a fraction.  *)
(***************************************************************************)
EXTENDS Integers, FiniteSets, FiniteSetsExt, Sequences, Combinatorics

CONSTANTS
  Discordant,   (* on how many items each of two systems alone is right    *)
  SecondP,      (* H2's p-value, where the detection analysis has one      *)
  Sizes,        (* S1 test instances                                       *)
  Floor,        (* fewer than this and the family is exploratory           *)
  Spent,        (* tokens an instance costs a system, as measured          *)
  Controls,     (* instances of the controls, and persona answers, planned *)
  Cap           (* the tokens there are                                    *)

ASSUME EndpointsAssumption == Discordant \subseteq Nat \X Nat /\ SecondP \subseteq [num : Nat, den : Nat \ {0}]

VARIABLES
  tested,       (* per hypothesis: [won, lost, p] once it is tested        *)
  concluded,    (* per hypothesis, whether it survives the correction      *)
  tokens,       (* measured tokens per instance, by system                 *)
  planned,      (* what of the matrix is planned: persona, b8, controls    *)
  cuts,         (* what was cut, in order                                  *)
  gate          (* G1: "open", "pass" or "fail"                            *)

endVars == <<tested, concluded, tokens, planned, cuts, gate>>

P(num, den) == [num |-> num, den |-> den]
AtMost(p, q) == p.num * q.den <= q.num * p.den
Below(p, q) == p.num * q.den < q.num * p.den

Alpha == P(1, 20)
One == P(1, 1)

------------------------------------------------------------------------------
(* The exact two-sided binomial p of won + lost discordant items.           *)
BinomTwoSided(won, lost) ==
  LET n == won + lost
      fewer == IF won <= lost THEN won ELSE lost
      tail == MapThenSumSet(LAMBDA k : choose(n, k), 0..fewer)
      p == P(2 * tail, 2 ^ n)
  IN IF n = 0 \/ AtMost(One, p) THEN One ELSE p

Hypotheses == DOMAIN tested

(* Holm's order: by p, ties in the order of the family.                     *)
Rank(h) == CHOOSE k \in 1..3 : <<"H1", "H3", "H2">>[k] = h
Before(g, h) ==
  Below(tested[g].p, tested[h].p) \/ (~Below(tested[h].p, tested[g].p) /\ Rank(g) < Rank(h))

(* p times the number of hypotheses from h on.                              *)
Stepped(h) ==
  LET left == Cardinality({g \in Hypotheses : ~Before(g, h)}) IN P(left * tested[h].p.num, tested[h].p.den)

(* Rejected while everything before it is: the adjusted p is never below    *)
(* one that went before, and the first that fails stops the rejecting.      *)
MutantRejected(h) == Below(Stepped(h), Alpha)
Rejected(h) == \A g \in Hypotheses : g = h \/ Before(g, h) => Below(Stepped(g), Alpha)

Predicted(h) ==
  CASE h = "H1" -> tested[h].won < tested[h].lost     \* B3 worse than B0
    [] h = "H3" -> tested[h].won > tested[h].lost     \* O3 better than the comparator
    [] OTHER -> TRUE                                  \* part of H2's own test

(* A hypothesis tested on the instances both its systems answered.          *)
TestPaired(h, won, lost) ==
  /\ concluded = << >> /\ h \notin Hypotheses
  /\ tested' = [g \in Hypotheses \cup {h} |->
                  IF g = h THEN [won |-> won, lost |-> lost, p |-> BinomTwoSided(won, lost)] ELSE tested[g]]
  /\ UNCHANGED <<concluded, tokens, planned, cuts, gate>>

(* H2 comes with a p-value of its own, or the family does without it.       *)
TestSecond(p) ==
  /\ {"H1", "H3"} = Hypotheses /\ concluded = << >>
  /\ tested' = [g \in Hypotheses \cup {"H2"} |-> IF g = "H2" THEN [won |-> 0, lost |-> 0, p |-> p] ELSE tested[g]]
  /\ UNCHANGED <<concluded, tokens, planned, cuts, gate>>

(* Supported: significant, as predicted, and on enough of S1.               *)
Conclude(s1) ==
  /\ {"H1", "H3"} \subseteq Hypotheses /\ concluded = << >>
  /\ concluded' = [h \in Hypotheses |->
                     [rejected |-> Rejected(h), supported |-> s1 >= Floor /\ Rejected(h) /\ Predicted(h)]]
  /\ UNCHANGED <<tested, tokens, planned, cuts, gate>>

------------------------------------------------------------------------------
(* Gate G1.  B8 is measured or left out; S1 runs on the four systems of the *)
(* confirmatory cells, the controls and the persona answers on two.         *)

Matrix(plan) ==
  [s \in DOMAIN tokens \ (IF plan.b8 THEN {} ELSE {"B8"}) |->
     IF s \in {"B0", "B3"} THEN plan.s1 + plan.controls + plan.persona ELSE plan.s1]

Total(plan) ==
  LET matrix == Matrix(plan) IN MapThenSumSet(LAMBDA s : tokens[s] * matrix[s], DOMAIN matrix)
Fits(plan) == Total(plan) <= Cap

Measure(measured, s1, controls, persona) ==
  /\ tokens = << >>
  /\ tokens' = measured
  /\ planned' = [s1 |-> s1, b8 |-> "B8" \in DOMAIN measured, controls |-> controls, persona |-> persona]
  /\ UNCHANGED <<tested, concluded, cuts, gate>>

(* The order agreed on: the persona setting, B8, the controls.              *)
ToCut(plan) ==
  CASE plan.persona > 0 -> "persona"
    [] plan.b8 -> "b8"
    [] plan.controls > 0 -> "controls"
    [] OTHER -> "nothing"

Without(plan, what) ==
  CASE what = "persona" -> [plan EXCEPT !.persona = 0]
    [] what = "b8" -> [plan EXCEPT !.b8 = FALSE]
    [] what = "controls" -> [plan EXCEPT !.controls = 0]

Cut ==
  /\ tokens # << >> /\ gate = "open"
  /\ ~Fits(planned) /\ ToCut(planned) # "nothing"
  /\ cuts' = Append(cuts, ToCut(planned))
  /\ planned' = Without(planned, ToCut(planned))
  /\ UNCHANGED <<tested, concluded, tokens, gate>>

UpdateGate ==
  /\ tokens # << >> /\ gate = "open"
  /\ Fits(planned) \/ ToCut(planned) = "nothing"
  /\ gate' = IF Fits(planned) THEN "pass" ELSE "fail"
  /\ UNCHANGED <<tested, concluded, tokens, planned, cuts>>

EndInit ==
  /\ tested = << >> /\ concluded = << >> /\ tokens = << >>
  /\ planned = << >> /\ cuts = << >> /\ gate = "open"

(* The gate is decided long before there is anything to test.               *)
EndNext ==
  \/ tokens = << >> /\ (\/ \E d \in Discordant : TestPaired("H1", d[1], d[2])
                        \/ "H1" \in Hypotheses /\ \E d \in Discordant : TestPaired("H3", d[1], d[2])
                        \/ \E p \in SecondP : TestSecond(p)
                        \/ \E s1 \in Sizes : Conclude(s1))
  \/ tested = << >> /\ (\/ \E s1 \in Sizes, controls, persona \in Controls, b8 \in BOOLEAN :
                             \E measured \in [{"B0", "B3", "B7c", "O3"} \cup (IF b8 THEN {"B8"} ELSE {}) -> Spent] :
                               Measure(measured, s1, controls, persona)
                        \/ Cut
                        \/ UpdateGate)
=============================================================================
