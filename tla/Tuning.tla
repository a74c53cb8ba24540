------------------------------- MODULE Tuning -------------------------------
(***************************************************************************)
(* Three choices made on labelled data before anything is reported: the    *)
(* band of stage-1 probabilities that escalate to a paid stage 2, swept    *)
(* over a dev set (detection/threshold.py), which of the detectors is      *)
(* reported as the detector (detection/variants/compare.py), and from      *)
(* which entailment score a quote is taken to state an outcome, where      *)
(* people have said of a sample of answers whether they do                 *)
(* (experiments/reader_audit.py).                                          *)
(*                                                                         *)
(* A probability is a whole number of grid steps, 0..2 * Reach with the    *)
(* decision boundary at Reach; rates are compared as fractions.            *)
(***************************************************************************)
EXTENDS Integers, Sequences, SequencesExt, FiniteSets, FiniteSetsExt

CONSTANTS
  Reach,        (* widest band to either side, in steps                    *)
  DevSets,      (* labelled dev sets: sequences of [at, truth]             *)
  Stage2,       (* measured accuracy of stage 2: [num, den]                *)
  Wants,        (* what may be asked for: [kind, num, den]                 *)
  Test,         (* the gold types of the pairs the detectors are tested on *)
  Detectors,    (* how many detectors are compared                         *)
  Audits,       (* what an audit may be of: sequences of [failing,         *)
                (* entailment, labels], see below                          *)
  Samples,      (* how many decisions people may be shown                  *)
  Bar           (* the precision asked for: [num, den]                     *)

NotAsked == 0 - 1

ASSUME TestAssumption == Test \in Seq({"conditional", "factual", "no_conflict"})
ASSUME AuditsAssumption ==
  /\ \A a \in Audits : a \in Seq(Range(a)) /\ \A d \in Range(a) : d.entailment \in Nat \cup {NotAsked}
  /\ Samples \subseteq Nat /\ Bar.num \in Nat /\ Bar.den \in Nat \ {0}

VARIABLES
  dev,          (* the dev set, << >> until one is read                    *)
  curve,        (* the bands of the sweep, the narrowest first             *)
  chosen,       (* the recommended band, 0 while there is none             *)
  hardware,     (* what config/hardware.yaml holds: the band, tuned or not *)
  predictions,  (* what each detector made of the test pairs, in turn      *)
  audit,        (* the reader's decisions, << >> until they are explained  *)
  sampled,      (* those that people were shown                            *)
  tau           (* the threshold they lead to                              *)

auditVars == <<audit, sampled, tau>>
tuneVars == <<dev, curve, chosen, hardware, predictions, auditVars>>

AsShipped == [band |-> 0, tuned |-> FALSE]

------------------------------------------------------------------------------
(* One band, from Reach - i to Reach + i, evaluated on the dev set.         *)

Escalates(p, i) == Reach - i <= dev[p].at /\ dev[p].at <= Reach + i
RightAlone(p) == (dev[p].at >= Reach) <=> dev[p].truth

Band(i) ==
  [escalated |-> Cardinality({p \in DOMAIN dev : Escalates(p, i)}),
   correct |-> Cardinality({p \in DOMAIN dev : ~Escalates(p, i) /\ RightAlone(p)})]

(* Stage 2 is credited with its measured accuracy on what it is handed.     *)
Points(b) == curve[b].correct * Stage2.den + curve[b].escalated * Stage2.num
AllPoints == Len(dev) * Stage2.den

Bands == DOMAIN curve
FirstOf(S) == CHOOSE b \in S : \A c \in S : b <= c

(* min() and max() keep the first of equals.                                *)
Cheapest(S) == FirstOf({b \in S : \A c \in S : curve[b].escalated <= curve[c].escalated})
MostAccurate(S) == FirstOf({b \in S : \A c \in S : Points(b) >= Points(c)})

(* The bands no cheaper one does as well as.                                *)
ParetoFront == SelectSeq([b \in Bands |-> b],
                   LAMBDA b : \A c \in Bands : c < b => Points(c) < Points(b))

(* The knee: the step of the front that buys most for what it escalates.    *)
Knee ==
  LET bought(k) == Points(ParetoFront[k + 1]) - Points(ParetoFront[k])
      spent(k) == curve[ParetoFront[k + 1]].escalated - curve[ParetoFront[k]].escalated
      steps == 1..(Len(ParetoFront) - 1)
  IN IF steps = {} THEN ParetoFront[1]
     ELSE ParetoFront[1 + FirstOf({k \in steps : \A j \in steps : bought(k) * spent(j) >= bought(j) * spent(k)})]

Reaches(b, want) == Points(b) * want.den >= want.num * AllPoints
Affordable(b, want) == curve[b].escalated * want.den <= want.num * Len(dev)

(* An accuracy floor, an escalation budget, or neither; what cannot be had  *)
(* is answered by the nearest that can.                                     *)
Recommended(want) ==
  CASE want.kind = "accuracy" ->
         LET ok == {b \in Bands : Reaches(b, want)} IN IF ok = {} THEN MostAccurate(Bands) ELSE Cheapest(ok)
    [] want.kind = "budget" ->
         LET ok == {b \in Bands : Affordable(b, want)} IN IF ok = {} THEN Cheapest(Bands) ELSE MostAccurate(ok)
    [] OTHER -> Knee

(* A curve that cannot tell bands apart: all score the same, or stage 1 is  *)
(* all but perfect without escalating anything.                             *)
Saturated ==
  \/ \A b, c \in Bands : Points(b) = Points(c)
  \/ \E b \in Bands : curve[b].escalated = 0 /\ 100 * curve[b].correct >= 99 * Len(dev)

ReadDev(d) ==
  /\ dev = << >>
  /\ dev' = d
  /\ UNCHANGED <<curve, chosen, hardware, predictions, auditVars>>

Sweep ==
  /\ dev # << >> /\ Len(curve) <= Reach
  /\ curve' = Append(curve, Band(Len(curve)))
  /\ UNCHANGED <<dev, chosen, hardware, predictions, auditVars>>

Recommend(want) ==
  /\ Len(curve) = Reach + 1 /\ chosen = 0
  /\ chosen' = Recommended(want)
  /\ UNCHANGED <<dev, curve, hardware, predictions, auditVars>>

(* Only a curve that could choose is written, and marked tuned.             *)
WriteBand ==
  /\ chosen # 0 /\ ~Saturated
  /\ hardware' = [band |-> chosen, tuned |-> TRUE]
  /\ UNCHANGED <<dev, curve, chosen, predictions, auditVars>>

------------------------------------------------------------------------------
(* The detectors are tested on the same pairs.  One that raises is a result *)
(* without numbers.                                                         *)

Labels == {"conditional", "factual", "no_conflict"}
Raised == << >>

As(d, gold, label) == Cardinality({k \in DOMAIN Test : Test[k] = gold /\ predictions[d][k] = label})
Gold(type) == Cardinality({k \in DOMAIN Test : Test[k] = type})
Right(d) == Cardinality({k \in DOMAIN Test : predictions[d][k] = Test[k]})

Usable == {d \in DOMAIN predictions : predictions[d] # Raised /\ Gold("conditional") > 0}

(* One label covers four predictions in five.                               *)
Degenerate(d) ==
  \E label \in Labels : 5 * Cardinality({k \in DOMAIN Test : predictions[d][k] = label}) >= 4 * Len(Test)

(* Real exceptions lost to the factual label, and contradictions taken for  *)
(* exceptions: the mean of the two rates, over twice the common denominator.*)
MutantLeak(d) == As(d, "conditional", "factual")
Leak(d) ==
  LET conditional == Gold("conditional")
      factual == IF Gold("factual") = 0 THEN 1 ELSE Gold("factual")
  IN As(d, "conditional", "factual") * factual + As(d, "factual", "conditional") * conditional

(* McNemar's table of two detectors, on the pairs both have judged.         *)
BothJudged == {d \in DOMAIN predictions : predictions[d] # Raised}

McNemar(d, e) ==
  LET Times(first, second) ==
        Cardinality({k \in DOMAIN Test : (predictions[d][k] = Test[k]) = first /\ (predictions[e][k] = Test[k]) = second})
  IN [b |-> Times(TRUE, FALSE), c |-> Times(FALSE, TRUE), right |-> Times(TRUE, TRUE), wrong |-> Times(FALSE, FALSE)]

(* The least leak among those that are not degenerate, or among all when    *)
(* all are; accuracy breaks a tie, then the order they were run in.         *)
Reported ==
  LET healthy == {d \in Usable : ~Degenerate(d)}
      pool == IF healthy = {} THEN Usable ELSE healthy
      least == {d \in pool : \A e \in pool : Leak(d) <= Leak(e)}
  IN FirstOf({d \in least : \A e \in least : Right(d) >= Right(e)})

Evaluate(labels) ==
  /\ Len(predictions) < Detectors
  /\ predictions' = Append(predictions, labels)
  /\ UNCHANGED <<dev, curve, chosen, hardware, auditVars>>

------------------------------------------------------------------------------
(* The audit.  A decision is kept with the conditions it fails, apart from  *)
(* entailment, whose score is kept instead, and what two people, and a third*)
(* where they differ, said of it: yes, no, unsure, or nothing.              *)

Uncalibrated == 0 - 2
NoTau == 0 - 1
Preset == 1

StrictAt(d, t) == d.failing = {} /\ d.entailment # NotAsked /\ d.entailment >= t

(* Half of the sample is of what is accepted, the rest of what is not, the  *)
(* reader having committed to an outcome or not; what a stratum lacks is    *)
(* made up from the others.                                                 *)
AuditStratum(name) ==
  LET accepted == {k \in DOMAIN audit : StrictAt(audit[k], Preset)}
      silent == {k \in DOMAIN audit : "determined" \in audit[k].failing}
  IN CASE name = "accepted" -> accepted [] name = "silent" -> silent [] OTHER -> DOMAIN audit \ (accepted \cup silent)

AuditShare(n, name) ==
  CASE name = "accepted" -> n \div 2 [] name = "silent" -> (n - n \div 2) \div 2 [] OTHER -> (n - n \div 2 + 1) \div 2

Least(a, b) == IF a <= b THEN a ELSE b

DrawsOf(n) ==
  LET strata == {"accepted", "committed", "silent"}
      shares == {S \in SUBSET DOMAIN audit :
                   \A name \in strata : Cardinality(S \cap AuditStratum(name)) = Least(AuditShare(n, name), Cardinality(AuditStratum(name)))}
  IN {T \in SUBSET DOMAIN audit : Cardinality(T) = Least(n, Len(audit)) /\ \E S \in shares : S \subseteq T}

(* What people hold to be true, where they agree or the third has decided;  *)
(* nothing is guessed of the rest.                                          *)
Agreed(said) == {said[1], said[2]} \in {{"yes"}, {"no"}}
Adjudicated(said) == {said[1], said[2]} = {"yes", "no"} /\ said[3] # "none"
Settled == {k \in sampled : Agreed(audit[k].labels) \/ Adjudicated(audit[k].labels)}
Established == {k \in Settled : "yes" = (IF Agreed(audit[k].labels) THEN audit[k].labels[1] ELSE audit[k].labels[3])}

V2(t) ==
  LET accepted == {k \in Settled : StrictAt(audit[k], t)} IN
  [tp |-> Cardinality(accepted \cap Established), fp |-> Cardinality(accepted \ Established),
   fn |-> Cardinality(Established \ accepted), tn |-> Cardinality(Settled \ (accepted \cup Established))]

(* The lowest of the observed scores at which precision reaches the bar,    *)
(* among the decisions that fail nothing else.                              *)
Movable == {k \in Settled : audit[k].failing = {} /\ audit[k].entailment # NotAsked}

SafeFrom ==
  {t \in {audit[k].entailment : k \in Movable} :
     LET accepted == {k \in Movable : audit[k].entailment >= t} IN
     Cardinality(accepted \cap Established) * Bar.den >= Bar.num * Cardinality(accepted)}

Explain(a) ==
  /\ audit = << >>
  /\ audit' = a
  /\ UNCHANGED <<dev, curve, chosen, hardware, predictions, sampled, tau>>

DrawSample(n) ==
  /\ audit # << >> /\ sampled = {}
  /\ sampled' \in DrawsOf(n)
  /\ UNCHANGED <<dev, curve, chosen, hardware, predictions, audit, tau>>

Calibrate ==
  /\ sampled # {} /\ tau = Uncalibrated
  /\ tau' = IF SafeFrom = {} THEN NoTau ELSE FirstOf(SafeFrom)
  /\ UNCHANGED <<dev, curve, chosen, hardware, predictions, audit, sampled>>

------------------------------------------------------------------------------
TuneInit ==
  /\ dev = << >> /\ curve = << >> /\ chosen = 0 /\ hardware = AsShipped /\ predictions = << >>
  /\ audit = << >> /\ sampled = {} /\ tau = Uncalibrated

(* Three programs: the sweep, the comparison and the audit.                 *)
TuneNext ==
  \/ predictions = << >> /\ audit = << >> /\ \E d \in DevSets : ReadDev(d)
  \/ Sweep
  \/ \E want \in Wants : Recommend(want)
  \/ WriteBand
  \/ dev = << >> /\ audit = << >> /\ \E labels \in [DOMAIN Test -> Labels] \cup {Raised} : Evaluate(labels)
  \/ dev = << >> /\ predictions = << >> /\ \E a \in Audits : Explain(a)
  \/ \E n \in Samples : DrawSample(n)
  \/ Calibrate
=============================================================================
