---------------------------- MODULE PipelineProofs ----------------------------
(* Pipeline keeps what it promises of an answer and of an evaluation, for   *)
(* any questions, any replies of the models and any thresholds.             *)
EXTENDS Pipeline, FiniteSetTheorems, WellFoundedInduction, TLAPS

------------------------------------------------------------------------------
(* Lists and numbers.                                                       *)

(* A set of numbers has a least one. *)
LEMMA LeastExists ==
  ASSUME NEW S \in SUBSET Nat, S # {}
  PROVE  \E m \in S : \A k \in S : m <= k
<1> DEFINE R == {p \in Nat \X Nat : p[1] < p[2]}
<1>1. IsWellFoundedOn(R, Nat)
  BY NatLessThanWellFounded DEF OpToRel
<1>2. PICK m \in S : \A k \in S : <<k, m>> \notin R
  BY <1>1, WFMin
<1>3. ASSUME NEW k \in S PROVE m <= k
  <2>1. <<k, m>> \in Nat \X Nat /\ ~(<<k, m>>[1] < <<k, m>>[2])
    BY <1>2
  <2> QED
    BY <2>1
<1> QED
  BY <1>3

(* Induction, for a set of numbers. *)
LEMMA AllNumbers ==
  ASSUME NEW G, 0 \in G, \A n \in Nat : n \in G => n + 1 \in G
  PROVE  Nat \subseteq G
<1>1. SUFFICES ASSUME Nat \ G # {} PROVE FALSE
  OBVIOUS
<1>2. PICK m \in Nat \ G : \A k \in Nat \ G : m <= k
  BY <1>1, LeastExists
<1>3. m # 0 /\ m - 1 \in Nat /\ m - 1 \in G
  BY <1>2
<1>4. (m - 1) + 1 \in G
  BY <1>3
<1> QED
  BY <1>2, <1>4

Below(I, k) == {j \in I : j <= k}

(* Of finitely many numbers there is an i-th, up to how many there are.     *)
LEMMA IthExists ==
  ASSUME NEW n \in Nat, NEW I \in SUBSET (1..n)
  PROVE  \A i \in 1..Cardinality(I) : \E k \in I : Cardinality(Below(I, k)) = i
<1> DEFINE Counted(J) == \A i \in 1..Cardinality(J) : \E k \in J : Cardinality(Below(J, k)) = i
           G == {m \in Nat : \A J \in SUBSET (1..m) : Counted(J)}
<1>1. 0 \in G
  <2>1. ASSUME NEW J \in SUBSET (1..0) PROVE Counted(J)
    <3>1. J = {}
      OBVIOUS
    <3>2. Cardinality(J) = 0
      BY <3>1, FS_EmptySet
    <3>3. 1..Cardinality(J) = {}
      BY <3>2
    <3> QED
      BY <3>3
  <2> QED
    BY <2>1
<1>2. ASSUME NEW m \in Nat, m \in G PROVE m + 1 \in G
  <2>1. ASSUME NEW J \in SUBSET (1..(m + 1)) PROVE Counted(J)
    <3>1. CASE m + 1 \notin J
      <4>1. J \in SUBSET (1..m)
        BY <3>1
      <4> QED
        BY <1>2, <4>1
    <3>2. CASE m + 1 \in J
      <4> DEFINE H == J \ {m + 1}
      <4>1. H \in SUBSET (1..m)
        OBVIOUS
      <4>2. Counted(H)
        BY <1>2, <4>1
      <4>3. IsFiniteSet(J)
        <5>1. IsFiniteSet(1..(m + 1))
          BY FS_Interval
        <5> QED
          BY <5>1, FS_Subset
      <4>4. Cardinality(H) = Cardinality(J) - 1 /\ Cardinality(J) \in Nat
        BY <3>2, <4>3, FS_RemoveElement, FS_CardinalityType
      <4>5. ASSUME NEW i \in 1..Cardinality(J) PROVE \E k \in J : Cardinality(Below(J, k)) = i
        <5>1. CASE i = Cardinality(J)
          <6>1. \A j \in J : j <= m + 1
            OBVIOUS
          <6>2. Below(J, m + 1) = J
            BY <6>1 DEF Below
          <6> QED
            BY <3>2, <5>1, <6>2
        <5>2. CASE i # Cardinality(J)
          <6>1. i \in 1..Cardinality(H)
            BY <4>4, <5>2
          <6>2. PICK k \in H : Cardinality(Below(H, k)) = i
            BY <4>2, <6>1
          <6>3. Below(J, k) = Below(H, k)
            BY <4>1 DEF Below
          <6> QED
            BY <6>2, <6>3
        <5> QED
          BY <5>1, <5>2
      <4> QED
        BY <4>5
    <3> QED
      BY <3>1, <3>2
  <2> QED
    BY <2>1
<1> HIDE DEF G
<1>3. n \in G
  BY <1>1, <1>2, AllNumbers
<1> QED
  BY <1>3 DEF G

(* What a list has at some of its places is a list of what it has there. *)
LEMMA AtIsFrom ==
  ASSUME NEW s, NEW n \in Nat, NEW I \in SUBSET (1..n)
  PROVE  /\ Cardinality(I) \in Nat
         /\ DOMAIN At(s, I) = 1..Cardinality(I)
         /\ \A i \in 1..Cardinality(I) : At(s, I)[i] \in {s[k] : k \in I}
<1>1. IsFiniteSet(I)
  <2>1. IsFiniteSet(1..n)
    BY FS_Interval
  <2> QED
    BY <2>1, FS_Subset
<1>2. Cardinality(I) \in Nat
  BY <1>1, FS_CardinalityType
<1>3. ASSUME NEW i \in 1..Cardinality(I) PROVE \E k \in I : At(s, I)[i] = s[k]
  <2>1. \E k \in I : Cardinality({j \in I : j <= k}) = i
    BY <1>3, IthExists DEF Below
  <2> DEFINE k == CHOOSE k \in I : Cardinality({j \in I : j <= k}) = i
  <2>2. k \in I
    BY <2>1
  <2>3. At(s, I)[i] = s[k]
    BY <1>3 DEF At
  <2> QED
    BY <2>2, <2>3
<1>4. DOMAIN At(s, I) = 1..Cardinality(I)
  BY DEF At
<1> QED
  BY <1>2, <1>3, <1>4

(* A function of 1 to n is a list of its values, as any list is. *)
LEMMA ListOfItsOwn ==
  ASSUME NEW s, NEW n \in Nat, s = [i \in 1..n |-> s[i]]
  PROVE  s \in Seq(Range(s))
<1>1. DOMAIN s = 1..n /\ \A i \in 1..n : s[i] \in Range(s)
  BY DEF Range
<1>2. s \in [1..n -> Range(s)]
  BY <1>1
<1> QED
  BY <1>2

LEMMA ListInItsRange ==
  ASSUME NEW T, NEW s \in Seq(T)
  PROVE  s \in Seq(Range(s)) /\ \A i \in DOMAIN s : s[i] \in T
<1>1. Len(s) \in Nat /\ s = [i \in 1..Len(s) |-> s[i]]
  OBVIOUS
<1>2. s \in Seq(Range(s))
  BY <1>1, ListOfItsOwn
<1>3. \A i \in DOMAIN s : s[i] \in T
  OBVIOUS
<1> QED
  BY <1>2, <1>3

(* A set of keys has a first one. *)
LEMMA FirstKeyIsIn ==
  ASSUME NEW K \in SUBSET (Nat \X Nat), K # {}
  PROVE  FirstKey(K) \in K
<1> DEFINE A == {k[1] : k \in K}
<1>1. A \in SUBSET Nat /\ A # {}
  OBVIOUS
<1>2. PICK a \in A : \A x \in A : a <= x
  BY <1>1, LeastExists
<1> DEFINE B == {k[2] : k \in {l \in K : l[1] = a}}
<1>3. B \in SUBSET Nat /\ B # {}
  BY <1>2
<1>4. PICK b \in B : \A x \in B : b <= x
  BY <1>3, LeastExists
<1>5. PICK k \in K : k[1] = a /\ k[2] = b
  BY <1>4
<1>6. ASSUME NEW l \in K PROVE Before(k, l)
  <2>1. a \in Nat /\ l[1] \in Nat /\ l[2] \in Nat /\ a <= l[1] /\ (l[1] = a => b <= l[2])
    BY <1>1, <1>2, <1>4, <1>6
  <2> QED
    BY <1>5, <2>1 DEF Before
<1> QED
  BY <1>5, <1>6 DEF FirstKey

------------------------------------------------------------------------------
(* What a question has earned by the time it reaches a stage.               *)

Asked == UNION {Range(r.questions) : r \in Requests}

Fields == {"at", "scores", "pairs", "verdicts", "override", "claims", "decisions", "admitted", "branches", "composed",
           "answer", "calls"}

Began == {"detect", "policy", "describe", "analyse", "extract"}
Joining == {"compose", "generate", "score"}

PairsFound == run.at # "detect" => DOMAIN run.pairs = Keys

(* A gold override has put a conflict in. *)
OverrideShows ==
  /\ run.at \in {"detect", "policy"} => run.override = "none"
  /\ run.override = "gold" => Conflicts # {}

(* Of a pair the default is one of the two. *)
DecidesPair == \A k \in DOMAIN run.decisions : run.decisions[k].default \in {k[1], k[2]}

Supported(x) == x \in Question.conditions /\ <<Exception, x>> \in Question.grounded

GateHeld ==
  /\ run.at \in Began => run.admitted = <<>>
  /\ run.at \notin Began => /\ run.admitted \in Seq(Range(run.admitted))
                           /\ \A i \in DOMAIN run.admitted : Supported(run.admitted[i])

GoldBranches == {Question.gold.branches[i] : i \in DOMAIN Question.gold.branches}

BranchesEarned ==
  run.at \in Joining =>
    /\ run.branches \in Seq(Range(run.branches)) \ {<<>>}
    /\ Conflicts = {} => \A i \in DOMAIN run.branches : IsRule(run.branches[i])
    /\ \A i \in DOMAIN run.branches :
         IF run.override = "gold" /\ Question.gold.branches # <<>> THEN run.branches[i] \in GoldBranches
         ELSE IsRule(run.branches[i]) \/ Entailed(run.branches[i])

KeptOfBranches ==
  run.at \in {"generate", "score"} =>
    /\ run.composed.kept \subseteq DOMAIN run.branches /\ run.composed.kept # {}
    /\ Conflicts = {} => run.composed.resolution = "pass_through"

AnswerOfKept ==
  run.at = "score" =>
    /\ ~run.answer.text.invents /\ ~run.answer.text.ranks
    /\ IF run.answer.method = "llm"
       THEN \A b \in Surviving : \E c \in run.answer.text.states : <<b.outcome, c.outcome>> \in OutcomesMatch
       ELSE run.answer.text.states # {} /\ run.answer.text.states \subseteq Surviving

Shaped == left \in Seq(Asked) /\ DOMAIN run = Fields

EarnedSoFar ==
  /\ Shaped
  /\ left = <<>> => run.at = "detect"
  /\ left # <<>> =>
       /\ PairsFound /\ OverrideShows /\ DecidesPair /\ GateHeld
       /\ BranchesEarned /\ KeptOfBranches /\ AnswerOfKept

(* It is enough: what survives are branches, and these have been earned. *)
LEMMA EarnedIsEnough ==
  ASSUME EarnedSoFar
  PROVE  AnswerIsEarned
<1>1. SUFFICES ASSUME run.at = "score", left # <<>> PROVE AnswerIsEarned
  BY DEF AnswerIsEarned, EarnedSoFar
<1>2. \A b \in Surviving : \E i \in DOMAIN run.branches : b = run.branches[i]
  BY <1>1 DEF EarnedSoFar, KeptOfBranches, Surviving
<1>3. \A i \in DOMAIN run.branches : Permitted(run.branches[i])
  BY <1>1 DEF EarnedSoFar, BranchesEarned, Joining, GoldBranches, Permitted
<1>4. Conflicts = {} => run.composed.resolution = "pass_through"
  BY <1>1 DEF EarnedSoFar, KeptOfBranches
<1> QED
  BY <1>1, <1>2, <1>3, <1>4 DEF AnswerIsEarned, EarnedSoFar, AnswerOfKept

(* A question has two passages or more. *)
LEMMA QuestionAsked ==
  ASSUME Shaped, left # <<>>
  PROVE  /\ Question \in Asked /\ Tail(left) \in Seq(Asked)
         /\ Question.n \in Nat \ {0, 1}
         /\ Question.gold.branches \in Seq(Range(Question.gold.branches))
         /\ Keys \subseteq Nat \X Nat /\ <<1, 2>> \in Keys
<1>1. Question \in Asked
  BY DEF Shaped, Question
<1>2. Tail(left) \in Seq(Asked)
  BY DEF Shaped
<1>3. Question.n \in Nat \ {0, 1} /\ Question.gold.branches \in Seq(Range(Question.gold.branches))
  BY <1>1, PipelineAssumption DEF Asked
<1>4. Ids \subseteq Nat /\ 1 \in Ids /\ 2 \in Ids
  BY <1>3 DEF Ids
<1>5. Keys \subseteq Nat \X Nat
  BY <1>4 DEF Keys
<1>6. <<1, 2>> \in Keys
  BY <1>4 DEF Keys
<1> QED
  BY <1>1, <1>2, <1>3, <1>5, <1>6

(* The main pair is one of the conflicts, and its passages are two.         *)
LEMMA MainIsConflict ==
  ASSUME Shaped, left # <<>>, DOMAIN run.pairs = Keys, Conflicts # {}
  PROVE  Main \in Conflicts /\ Main \in Keys /\ Main[1] \in Nat /\ Main[2] \in Nat /\ Main[1] # Main[2]
<1>1. Conflicts \subseteq Keys /\ Keys \subseteq Nat \X Nat
  BY QuestionAsked DEF Conflicts
<1>2. Main \in Conflicts
  BY <1>1, FirstKeyIsIn DEF Main
<1>3. Main \in Keys /\ Main \in Nat \X Nat
  BY <1>1, <1>2
<1>4. Main[1] < Main[2]
  BY <1>3 DEF Keys
<1> QED
  BY <1>2, <1>3, <1>4

(* The base of the main pair is one of the two, the exception the other.    *)
LEMMA SidesDiffer ==
  ASSUME Shaped, left # <<>>, DOMAIN run.pairs = Keys, Conflicts # {}, DecidesPair
  PROVE  Exception \in {Main[1], Main[2]} \ {Base}
<1>1. Main[1] # Main[2]
  BY MainIsConflict
<1>2. Base \in {Main[1], Main[2]}
  BY DEF Base, DecidesPair
<1> QED
  BY <1>1, <1>2 DEF Exception

(* What a fresh run has earned is nothing. *)
LEMMA FreshIsEarned ==
  ASSUME left \in Seq(Asked), run = Fresh
  PROVE  EarnedSoFar
<1>1. DOMAIN run = Fields
  BY DEF Fresh, Fields
<1>2. run.at = "detect" /\ run.override = "none" /\ run.admitted = <<>> /\ run.decisions = Nothing
  BY DEF Fresh
<1>3. DOMAIN Nothing = {}
  BY DEF Nothing
<1> QED
  BY <1>1, <1>2, <1>3 DEF EarnedSoFar, Shaped, PairsFound, OverrideShows, DecidesPair, GateHeld, Began,
                          BranchesEarned, Joining, KeptOfBranches, AnswerOfKept

------------------------------------------------------------------------------
(* What is kept of a list of branches, whatever was said of its pairs.      *)
LEMMA ComposedKeeps ==
  ASSUME run.branches \in Seq(Range(run.branches)) \ {<<>>}, NEW kinds, NEW winner
  PROVE  /\ B2!Composed(kinds, winner).kept \subseteq DOMAIN run.branches
         /\ B2!Composed(kinds, winner).kept # {}
         /\ kinds = {} => B2!Composed(kinds, winner).resolution = "pass_through"
<1> DEFINE I == DOMAIN run.branches
<1>1. I \subseteq Nat /\ 1 \in I /\ B2!Ids = I
  BY DEF B2!Ids
<1>2. ASSUME NEW J \in SUBSET I, J # {} PROVE B2!First(J) \in J
  BY <1>1, <1>2, LeastExists DEF B2!First
<1>3. B2!Defaults \subseteq I
  BY <1>1 DEF B2!Defaults
<1>4. B2!Defaults # {} => B2!First(B2!Defaults) \in I
  BY <1>2, <1>3
<1>5. B2!Merged \subseteq I /\ B2!Merged # {}
  BY <1>1, <1>4 DEF B2!Merged, B2!Exceptions
<1>6. ASSUME NEW J, J \subseteq I, NEW first \in I
      PROVE  B2!Survivors(J, winner, first) \subseteq I /\ B2!Survivors(J, winner, first) # {}
  BY <1>6 DEF B2!Survivors
<1> DEFINE actions == {B2!Route(k) : k \in kinds}
           merging == "merge" \in actions
           kept == IF merging THEN B2!Merged ELSE I
           lead == IF merging /\ B2!Defaults # {} THEN B2!First(B2!Defaults) ELSE 1
           out == B2!Composed(kinds, winner)
<1>7. kept \subseteq I /\ kept # {} /\ lead \in I
  BY <1>1, <1>4, <1>5
<1>8. \/ out = B2!Answer("pass_through", {IF B2!Defaults # {} THEN B2!First(B2!Defaults) ELSE 1}, {})
      \/ /\ kinds # {}
         /\ \/ out = B2!Answer("selected", B2!Survivors(I, winner, 1), {})
            \/ out = B2!Answer("prior_work", I, {})
            \/ out = B2!Answer("merged", kept, {})
            \/ out = B2!Answer("selected", B2!Survivors(kept, winner, lead), B2!Flags(kept))
            \/ out = B2!Answer("composed", kept, {})
  BY <1>1 DEF B2!Composed
<1> SUFFICES out.kept \subseteq I /\ out.kept # {} /\ (kinds = {} => out.resolution = "pass_through")
  OBVIOUS
<1> HIDE DEF out, kept, lead, I
<1>9. \A r, J, f : B2!Answer(r, J, f).kept = J /\ B2!Answer(r, J, f).resolution = r
  BY DEF B2!Answer
<1>10. CASE out = B2!Answer("pass_through", {IF B2!Defaults # {} THEN B2!First(B2!Defaults) ELSE 1}, {})
  <2> DEFINE J == {IF B2!Defaults # {} THEN B2!First(B2!Defaults) ELSE 1}
  <2>1. J \subseteq I /\ J # {}
    BY <1>1, <1>4
  <2>2. out = B2!Answer("pass_through", J, {})
    BY <1>10
  <2> HIDE DEF J
  <2> QED
    BY <1>9, <2>1, <2>2
<1>11. CASE kinds # {} /\ out = B2!Answer("selected", B2!Survivors(I, winner, 1), {})
  BY <1>1, <1>6, <1>9, <1>11
<1>12. CASE kinds # {} /\ out = B2!Answer("prior_work", I, {})
  BY <1>1, <1>9, <1>12
<1>13. CASE kinds # {} /\ out = B2!Answer("merged", kept, {})
  BY <1>7, <1>9, <1>13
<1>14. CASE kinds # {} /\ out = B2!Answer("selected", B2!Survivors(kept, winner, lead), B2!Flags(kept))
  BY <1>6, <1>7, <1>9, <1>14
<1>15. CASE kinds # {} /\ out = B2!Answer("composed", kept, {})
  BY <1>7, <1>9, <1>15
<1> QED
  BY <1>8, <1>10, <1>11, <1>12, <1>13, <1>14, <1>15

(* What a stage leaves alone stays what it was. *)
LEMMA SameMain ==
  ASSUME left' = left, run'.pairs = run.pairs, run'.decisions = run.decisions
  PROVE  /\ Question' = Question /\ Keys' = Keys /\ Conflicts' = Conflicts
         /\ Main' = Main /\ Base' = Base /\ Exception' = Exception
         /\ \A x : Supported(x)' <=> Supported(x)
         /\ \A b : Entailed(b)' <=> Entailed(b)
<1>1. Question' = Question
  BY DEF Question
<1>2. Keys' = Keys
  BY <1>1 DEF Keys, Ids
<1>3. Conflicts' = Conflicts
  BY DEF Conflicts
<1>4. Main' = Main
  BY <1>3 DEF Main
<1>5. Base' = Base
  BY <1>4 DEF Base
<1>6. Exception' = Exception
  BY <1>4, <1>5 DEF Exception
<1>7. \A x : Supported(x)' <=> Supported(x)
  BY <1>1, <1>6 DEF Supported
<1>8. \A b : Entailed(b)' <=> Entailed(b)
  BY <1>1, <1>4, <1>5, <1>6 DEF Entailed
<1> QED
  BY <1>1, <1>2, <1>3, <1>4, <1>5, <1>6, <1>7, <1>8

LEMMA DetectEarns ==
  ASSUME EarnedSoFar, Detect
  PROVE  EarnedSoFar'
<1>1. left # <<>> /\ left' = left /\ run.at = "detect" /\ DOMAIN run = Fields
  BY DEF Detect, Running, Elsewhere, EarnedSoFar, Shaped
<1>2. PICK f \in [Keys -> Question.features] : \E s \in [Keys -> UNION {Scores(f[k]) : k \in Keys}] :
        \E r \in [Keys -> Replies \cup {Unasked}] :
          run' = [run EXCEPT !.at = "policy", !.scores = s, !.pairs = [k \in Keys |-> ToPair(f[k], s[k], r[k])],
                             !.verdicts = [k \in Keys |-> ToPair(f[k], s[k], r[k])],
                             !.calls = @ + Asking(Cardinality({k \in Keys : Uncertain(s[k])}))]
  BY DEF Detect
<1>3. /\ run'.at = "policy" /\ DOMAIN run'.pairs = Keys /\ DOMAIN run' = Fields
      /\ run'.override = run.override /\ run'.decisions = run.decisions /\ run'.admitted = run.admitted
  BY <1>1, <1>2 DEF Fields
<1>4. Keys' = Keys
  BY <1>1 DEF Keys, Ids, Question
<1> QED
  BY <1>1, <1>2, <1>3, <1>4 DEF EarnedSoFar, Shaped, PairsFound, OverrideShows, DecidesPair, GateHeld, Began,
                                BranchesEarned, Joining, KeptOfBranches, AnswerOfKept

LEMMA PolicyEarns ==
  ASSUME EarnedSoFar, Policy
  PROVE  EarnedSoFar'
<1>1. left # <<>> /\ left' = left /\ run.at = "policy" /\ DOMAIN run = Fields
  BY DEF Policy, Running, Elsewhere, EarnedSoFar, Shaped
<1>2. DOMAIN run.pairs = Keys /\ run.override = "none" /\ run.admitted = <<>>
  BY <1>1 DEF EarnedSoFar, PairsFound, OverrideShows, GateHeld, Began
<1>3. Keys' = Keys
  BY <1>1 DEF Keys, Ids, Question
<1>4. /\ run'.at = "describe" /\ DOMAIN run' = Fields /\ DOMAIN run'.pairs = Keys
      /\ run'.decisions = run.decisions /\ run'.admitted = <<>>
  BY <1>1, <1>2 DEF Policy, Fields
<1>5. run'.override = "gold" => Conflicts' # {}
  <2>1. SUFFICES ASSUME run'.override = "gold" PROVE Conflicts' # {}
    OBVIOUS
  <2>2. /\ Question.gold # NoGold /\ Question.gold.type # "no_conflict"
        /\ run' = [run EXCEPT !.at = "describe", !.scores = Nothing, !.pairs[<<1, 2>>] = Forced,
                             !.override = IF Question.gold = NoGold THEN "assumed" ELSE "gold"]
    BY <1>1, <1>2, <2>1 DEF Policy, Fields
  <2>3. <<1, 2>> \in Keys
    BY <1>1, QuestionAsked DEF EarnedSoFar
  <2>4. run'.pairs[<<1, 2>>] = Forced
    BY <1>1, <1>2, <2>2, <2>3 DEF Fields
  <2>5. Forced.conflict = TRUE
    BY <2>2 DEF Forced, Judged
  <2> QED
    BY <1>4, <2>3, <2>4, <2>5 DEF Conflicts
<1> QED
  BY <1>1, <1>3, <1>4, <1>5 DEF EarnedSoFar, Shaped, PairsFound, OverrideShows, DecidesPair, GateHeld, Began,
                                BranchesEarned, Joining, KeptOfBranches, AnswerOfKept

LEMMA DescribeEarns ==
  ASSUME EarnedSoFar, Describe
  PROVE  EarnedSoFar'
<1>1. left # <<>> /\ left' = left /\ run.at = "describe" /\ DOMAIN run = Fields
  BY DEF Describe, Running, Elsewhere, EarnedSoFar, Shaped
<1>2. /\ run'.at \in {"analyse", "extract"} /\ DOMAIN run' = Fields /\ run'.pairs = run.pairs
      /\ run'.override = run.override /\ run'.decisions = run.decisions /\ run'.admitted = run.admitted
  BY <1>1 DEF Describe, Fields
<1>3. Keys' = Keys /\ Conflicts' = Conflicts
  BY <1>1, <1>2, SameMain
<1> QED
  BY <1>1, <1>2, <1>3 DEF EarnedSoFar, Shaped, PairsFound, OverrideShows, DecidesPair, GateHeld, Began,
                          BranchesEarned, Joining, KeptOfBranches, AnswerOfKept

LEMMA AnalyseEarns ==
  ASSUME EarnedSoFar, Analyse
  PROVE  EarnedSoFar'
<1>1. left # <<>> /\ left' = left /\ run.at = "analyse" /\ DOMAIN run = Fields
  BY DEF Analyse, Running, Elsewhere, EarnedSoFar, Shaped
<1> DEFINE d == [k \in Analysed |-> A4!Decide(k[1], k[2])]
           found == [k \in DOMAIN run.pairs |->
                       IF k \in Analysed THEN [run.pairs[k] EXCEPT !.relation = d[k].relation] ELSE run.pairs[k]]
<1>2. run' = [run EXCEPT !.at = "extract", !.decisions = d, !.pairs = found]
  BY DEF Analyse
<1>3. \A k \in Analysed : d[k].default \in {k[1], k[2]}
  BY DEF A4!Decide, A4!General
<1>4. \A k \in DOMAIN run.pairs : found[k].conflict = run.pairs[k].conflict
  OBVIOUS
<1> HIDE DEF d, found
<1>5. /\ run'.at = "extract" /\ DOMAIN run' = Fields /\ run'.pairs = found /\ run'.decisions = d
      /\ run'.override = run.override /\ run'.admitted = run.admitted
  BY <1>1, <1>2 DEF Fields
<1>6. DOMAIN found = DOMAIN run.pairs /\ DOMAIN d = Analysed
  BY DEF found, d
<1>7. Keys' = Keys
  BY <1>1 DEF Keys, Ids, Question
<1>8. Conflicts' = Conflicts
  BY <1>4, <1>5, <1>6 DEF Conflicts
<1> QED
  BY <1>1, <1>3, <1>5, <1>6, <1>7, <1>8
     DEF EarnedSoFar, Shaped, PairsFound, OverrideShows, DecidesPair, GateHeld, Began,
         BranchesEarned, Joining, KeptOfBranches, AnswerOfKept

(* The gate lets through what is supported. *)
LEMMA GateSupports ==
  ASSUME NEW n \in Nat, NEW d, DOMAIN d = 1..n, \A i \in 1..n : d[i] \in Question.conditions
  PROVE  Gate(d) \in Seq(Range(Gate(d))) /\ \A i \in DOMAIN Gate(d) : Supported(Gate(d)[i])
<1>1. PICK J : J = {i \in DOMAIN d : <<Exception, d[i]>> \in Question.grounded}
  OBVIOUS
<1>2. J \in SUBSET (1..n) /\ Gate(d) = At(d, J) /\ \A i \in J : Supported(d[i])
  BY <1>1 DEF Gate, Supported
<1>3. J \in SUBSET (1..n)
  BY <1>2
<1>4. Cardinality(J) \in Nat
  BY <1>3, AtIsFrom
<1>5. DOMAIN At(d, J) = 1..Cardinality(J)
  BY <1>3, AtIsFrom
<1>6. \A i \in 1..Cardinality(J) : At(d, J)[i] \in {d[k] : k \in J}
  BY <1>3, AtIsFrom
<1>7. At(d, J) \in Seq(Range(At(d, J)))
  BY <1>4, <1>5, ListOfItsOwn DEF At
<1> QED
  BY <1>2, <1>4, <1>5, <1>6, <1>7

LEMMA ExtractEarns ==
  ASSUME EarnedSoFar, Extract
  PROVE  EarnedSoFar'
<1>1. left # <<>> /\ left' = left /\ run.at = "extract" /\ DOMAIN run = Fields
  BY DEF Extract, Running, Elsewhere, EarnedSoFar, Shaped
<1>2. PICK a : run'.admitted = a /\ a \in Seq(Range(a)) /\ \A i \in DOMAIN a : Supported(a[i])
  <2>1. CASE Conflicts = {}
    <3>1. run'.admitted = <<>>
      BY <1>1, <2>1 DEF Extract, Fields, EarnedSoFar, GateHeld, Began
    <3> DEFINE a == <<>>
    <3>2. a \in Seq(Range(a)) /\ DOMAIN a = {}
      OBVIOUS
    <3> HIDE DEF a
    <3>3. run'.admitted = a
      BY <3>1 DEF a
    <3> QED
      BY <3>2, <3>3
  <2>2. CASE Conflicts # {}
    <3>1. PICK found \in 0..MaxQuestions : \E c \in [1..found -> Question.conditions] : run'.admitted = Gate(Distinct(c))
      BY <1>1, <2>2 DEF Extract, Fields
    <3>2. PICK c \in [1..found -> Question.conditions] : run'.admitted = Gate(Distinct(c))
      BY <3>1
    <3> DEFINE I == {i \in DOMAIN c : \A j \in 1..(i - 1) : c[j].condition # c[i].condition}
               d == Distinct(c)
    <3>3. found \in Nat /\ I \in SUBSET (1..found)
      BY PipelineAssumption
    <3>4. d = At(c, I)
      BY DEF Distinct
    <3> HIDE DEF I, d
    <3>5. Cardinality(I) \in Nat /\ DOMAIN d = 1..Cardinality(I) /\ \A i \in DOMAIN d : d[i] \in Question.conditions
      <4>1. Cardinality(I) \in Nat /\ DOMAIN d = 1..Cardinality(I) /\ \A i \in 1..Cardinality(I) : d[i] \in {c[k] : k \in I}
        BY <3>3, <3>4, AtIsFrom
      <4>2. \A k \in I : c[k] \in Question.conditions
        BY <3>3
      <4> QED
        BY <4>1, <4>2
    <3> QED
      BY <3>2, <3>5, GateSupports DEF d
  <2> QED
    BY <2>1, <2>2
<1>3. /\ run'.at = "branches" /\ DOMAIN run' = Fields /\ run'.pairs = run.pairs
      /\ run'.override = run.override /\ run'.decisions = run.decisions
  BY <1>1 DEF Extract, Fields
<1>4. Keys' = Keys /\ Conflicts' = Conflicts /\ \A x : Supported(x)' <=> Supported(x)
  BY <1>1, <1>3, SameMain
<1>5. /\ PairsFound' /\ OverrideShows' /\ DecidesPair' /\ BranchesEarned' /\ KeptOfBranches' /\ AnswerOfKept' /\ Shaped'
  BY <1>1, <1>3, <1>4 DEF EarnedSoFar, Shaped, PairsFound, OverrideShows, DecidesPair, BranchesEarned, Joining,
                          KeptOfBranches, AnswerOfKept
<1>6. GateHeld'
  BY <1>2, <1>3, <1>4 DEF GateHeld, Began
<1> QED
  BY <1>1, <1>5, <1>6 DEF EarnedSoFar

(* What is assembled is earned. *)
LEMMA AssembledIsEarned ==
  ASSUME EarnedSoFar, left # <<>>, run.at = "branches"
  PROVE  /\ Assembled \in Seq(Range(Assembled)) \ {<<>>}
         /\ Conflicts = {} => \A i \in DOMAIN Assembled : IsRule(Assembled[i])
         /\ \A i \in DOMAIN Assembled :
              IF run.override = "gold" /\ Question.gold.branches # <<>> THEN Assembled[i] \in GoldBranches
              ELSE IsRule(Assembled[i]) \/ Entailed(Assembled[i])
<1> DEFINE gold == run.override = "gold" /\ Question.gold.branches # <<>>
<1>1. CASE gold
  <2>1. Assembled = Question.gold.branches
    BY <1>1 DEF Assembled
  <2>2. Conflicts # {}
    BY <1>1 DEF EarnedSoFar, OverrideShows
  <2> QED
    BY <1>1, <2>1, <2>2, QuestionAsked DEF EarnedSoFar, GoldBranches
<1>2. CASE ~gold /\ Conflicts # {}
  <2>1. Assembled = <<DefaultOf(Base)>> \o Extracted
    BY <1>2 DEF Assembled
  <2>2. run.admitted \in Seq(Range(run.admitted)) /\ \A i \in DOMAIN run.admitted : Supported(run.admitted[i])
    BY DEF EarnedSoFar, GateHeld, Began
  <2>3. DOMAIN Extracted = 1..Len(run.admitted) /\ Len(run.admitted) \in Nat
    BY <2>2 DEF Extracted
  <2>4. Extracted \in Seq(Range(Extracted))
    BY <2>3, ListOfItsOwn DEF Extracted
  <2>5. ASSUME NEW i \in DOMAIN Extracted PROVE Entailed(Extracted[i])
    <3>1. i \in DOMAIN run.admitted /\ Supported(run.admitted[i])
      BY <2>2 DEF Extracted
    <3>2. /\ Extracted[i].passage = Exception /\ Extracted[i].scope = run.admitted[i].scope
          /\ Extracted[i].outcome = run.admitted[i].outcome
      BY DEF Extracted
    <3>3. Exception \in {Main[1], Main[2]} \ {Base}
      BY <1>2, SidesDiffer DEF EarnedSoFar, PairsFound
    <3> QED
      BY <3>1, <3>2, <3>3 DEF Entailed, Supported
  <2>6. IsRule(DefaultOf(Base))
    BY PipelineAssumption DEF IsRule, DefaultOf
  <2> DEFINE T == {DefaultOf(Base)} \cup Range(Extracted)
  <2>7. \A b \in T : IsRule(b) \/ Entailed(b)
    BY <2>5, <2>6 DEF Range
  <2> HIDE DEF T
  <2>8. DefaultOf(Base) \in T /\ Extracted \in Seq(T)
    BY <2>4 DEF T
  <2>9. Assembled \in Seq(T) /\ Assembled # <<>>
    BY <2>1, <2>8
  <2>10. Assembled \in Seq(Range(Assembled)) /\ \A i \in DOMAIN Assembled : Assembled[i] \in T
    BY <2>9, ListInItsRange
  <2> QED
    BY <1>2, <2>7, <2>9, <2>10
<1>3. CASE ~gold /\ Conflicts = {}
  <2> DEFINE b == [scope |-> Everyone, passage |-> 1, outcome |-> Question.sentence[1]]
  <2>1. Assembled = <<b>>
    BY <1>3 DEF Assembled
  <2>2. IsRule(b)
    BY PipelineAssumption DEF IsRule
  <2> HIDE DEF b
  <2>3. Assembled \in Seq({b}) /\ Assembled # <<>> /\ \A i \in DOMAIN Assembled : Assembled[i] = b
    BY <2>1
  <2>4. Assembled \in Seq(Range(Assembled))
    BY <2>3, ListInItsRange
  <2> QED
    BY <1>3, <2>2, <2>3, <2>4
<1> QED
  BY <1>1, <1>2, <1>3

LEMMA AssembleEarns ==
  ASSUME EarnedSoFar, Assemble
  PROVE  EarnedSoFar'
<1>1. left # <<>> /\ left' = left /\ run.at = "branches" /\ DOMAIN run = Fields
  BY DEF Assemble, Running, Elsewhere, EarnedSoFar, Shaped
<1>2. /\ run'.at = "compose" /\ run'.branches = Assembled /\ DOMAIN run' = Fields /\ run'.pairs = run.pairs
      /\ run'.override = run.override /\ run'.decisions = run.decisions /\ run'.admitted = run.admitted
  BY <1>1 DEF Assemble, Fields
<1>3. /\ Keys' = Keys /\ Conflicts' = Conflicts /\ Question' = Question
      /\ \A x : Supported(x)' <=> Supported(x)
      /\ \A b : Entailed(b)' <=> Entailed(b)
  BY <1>1, <1>2, SameMain
<1>4. BranchesEarned'
  BY <1>1, <1>2, <1>3, AssembledIsEarned DEF BranchesEarned, GoldBranches, IsRule
<1>5. /\ PairsFound' /\ OverrideShows' /\ DecidesPair' /\ GateHeld' /\ KeptOfBranches' /\ AnswerOfKept' /\ Shaped'
  BY <1>1, <1>2, <1>3 DEF EarnedSoFar, Shaped, PairsFound, OverrideShows, DecidesPair, GateHeld, Began,
                          KeptOfBranches, AnswerOfKept
<1> QED
  BY <1>1, <1>4, <1>5 DEF EarnedSoFar

(* The last two stages leave what was found and assembled alone. *)
LEMMA SameBranches ==
  ASSUME EarnedSoFar, left # <<>>, run.at \in {"compose", "generate"}, left' = left, run'.at \in {"generate", "score"},
         DOMAIN run' = Fields, run'.pairs = run.pairs, run'.override = run.override, run'.decisions = run.decisions,
         run'.admitted = run.admitted, run'.branches = run.branches
  PROVE  /\ Shaped' /\ PairsFound' /\ OverrideShows' /\ DecidesPair' /\ GateHeld' /\ BranchesEarned'
         /\ Conflicts' = Conflicts
<1>1. /\ Keys' = Keys /\ Conflicts' = Conflicts /\ Question' = Question
      /\ \A x : Supported(x)' <=> Supported(x)
      /\ \A b : Entailed(b)' <=> Entailed(b)
  BY SameMain
<1>2. BranchesEarned'
  BY <1>1 DEF EarnedSoFar, BranchesEarned, Joining, GoldBranches, IsRule
<1>3. Shaped' /\ PairsFound' /\ OverrideShows' /\ DecidesPair' /\ GateHeld'
  BY <1>1 DEF EarnedSoFar, Shaped, PairsFound, OverrideShows, DecidesPair, GateHeld, Began
<1> QED
  BY <1>1, <1>2, <1>3

LEMMA ComposeEarns ==
  ASSUME EarnedSoFar, ComposeBranches
  PROVE  EarnedSoFar'
<1>1. left # <<>> /\ left' = left /\ run.at = "compose" /\ DOMAIN run = Fields
  BY DEF ComposeBranches, Running, Elsewhere, EarnedSoFar, Shaped
<1> DEFINE kinds == {KindOf(run.pairs[k]) : k \in Conflicts}
<1>2. /\ run'.at = "generate" /\ run'.composed = B2!Composed(kinds, MostCredible) /\ DOMAIN run' = Fields
      /\ run'.pairs = run.pairs /\ run'.branches = run.branches
      /\ run'.override = run.override /\ run'.decisions = run.decisions /\ run'.admitted = run.admitted
  BY <1>1 DEF ComposeBranches, Fields
<1>3. Conflicts = {} => kinds = {}
  OBVIOUS
<1> HIDE DEF kinds
<1>4. run.branches \in Seq(Range(run.branches)) \ {<<>>}
  BY <1>1 DEF EarnedSoFar, BranchesEarned, Joining
<1>5. /\ Shaped' /\ PairsFound' /\ OverrideShows' /\ DecidesPair' /\ GateHeld' /\ BranchesEarned'
      /\ Conflicts' = Conflicts
  BY <1>1, <1>2, SameBranches
<1>6. KeptOfBranches'
  BY <1>2, <1>3, <1>4, <1>5, ComposedKeeps DEF KeptOfBranches
<1> QED
  BY <1>1, <1>2, <1>5, <1>6 DEF EarnedSoFar, AnswerOfKept

(* What the template states is kept. *)
LEMMA TemplateStates ==
  ASSUME run.branches \in Seq(Range(run.branches)), run.composed.kept \subseteq DOMAIN run.branches, run.composed.kept # {}
  PROVE  Template.states # {} /\ Template.states \subseteq Surviving /\ Template.invents = FALSE /\ Template.ranks = FALSE
<1>1. DOMAIN run.branches \subseteq Nat
  OBVIOUS
<1>2. ASSUME NEW J \in SUBSET run.composed.kept, J # {} PROVE B2!First(J) \in J
  BY <1>1, <1>2, LeastExists DEF B2!First
<1>3. Lead \in Surviving
  <2> DEFINE rules == {i \in run.composed.kept : IsRule(run.branches[i])}
             J == IF (\E k \in Conflicts : Route(run.pairs[k]) = "merge") /\ run.composed.flags # {} /\ rules # {}
                  THEN rules ELSE run.composed.kept
  <2>1. J \in SUBSET run.composed.kept /\ J # {}
    OBVIOUS
  <2>2. Lead = run.branches[B2!First(J)]
    BY DEF Lead
  <2> HIDE DEF J
  <2> QED
    BY <1>2, <2>1, <2>2 DEF Surviving
<1>4. Surviving # {}
  BY <1>3
<1> QED
  BY <1>3, <1>4 DEF Template, Text

LEMMA GenerateEarns ==
  ASSUME EarnedSoFar, Generate
  PROVE  EarnedSoFar'
<1>1. left # <<>> /\ left' = left /\ run.at = "generate" /\ DOMAIN run = Fields
  BY DEF Generate, Running, Elsewhere, EarnedSoFar, Shaped
<1>2. /\ run'.at = "score" /\ run'.composed = run.composed /\ DOMAIN run' = Fields
      /\ run'.pairs = run.pairs /\ run'.branches = run.branches
      /\ run'.override = run.override /\ run'.decisions = run.decisions /\ run'.admitted = run.admitted
  BY <1>1 DEF Generate, Fields
<1>3. run.branches \in Seq(Range(run.branches)) /\ run.composed.kept \subseteq DOMAIN run.branches /\ run.composed.kept # {}
  BY <1>1 DEF EarnedSoFar, BranchesEarned, Joining, KeptOfBranches
<1>4. /\ Shaped' /\ PairsFound' /\ OverrideShows' /\ DecidesPair' /\ GateHeld' /\ BranchesEarned'
      /\ Conflicts' = Conflicts
  BY <1>1, <1>2, SameBranches
<1>5. KeptOfBranches'
  BY <1>1, <1>2, <1>4 DEF EarnedSoFar, KeptOfBranches
<1>6. Surviving' = Surviving
  BY <1>2 DEF Surviving
<1>7. \A t, m : Answered(t, m).text = t /\ Answered(t, m).method = m
  BY DEF Answered
<1>8. \/ \E m \in {"template", "template_after_unfaithful_llm"} : run'.answer = Answered(Template, m)
      \/ \E t : Faithful(t) /\ run'.answer = Answered(t, "llm")
  <2>1. CASE ~(Live /\ request.generation = "llm")
    BY <1>1, <2>1 DEF Generate, Fields
  <2>2. CASE Live /\ request.generation = "llm"
    <3>1. PICK said \in SUBSET Sayable, invents \in BOOLEAN, ranks \in BOOLEAN :
            LET t == [states |-> said, invents |-> invents, ranks |-> ranks] IN
            run'.answer = IF Faithful(t) THEN Answered(t, "llm") ELSE Answered(Template, "template_after_unfaithful_llm")
      BY <1>1, <2>2 DEF Generate, Fields
    <3> DEFINE t == [states |-> said, invents |-> invents, ranks |-> ranks]
    <3> HIDE DEF t
    <3>2. run'.answer = IF Faithful(t) THEN Answered(t, "llm") ELSE Answered(Template, "template_after_unfaithful_llm")
      BY <3>1 DEF t
    <3> QED
      BY <3>2
  <2> QED
    BY <2>1, <2>2
<1>9. CASE \E m \in {"template", "template_after_unfaithful_llm"} : run'.answer = Answered(Template, m)
  <2>1. run'.answer.text = Template /\ run'.answer.method # "llm"
    BY <1>7, <1>9
  <2>2. Template.states # {} /\ Template.states \subseteq Surviving /\ Template.invents = FALSE /\ Template.ranks = FALSE
    BY <1>3, TemplateStates
  <2>3. AnswerOfKept'
    BY <1>6, <2>1, <2>2 DEF AnswerOfKept
  <2> QED
    BY <1>1, <1>2, <1>4, <1>5, <2>3 DEF EarnedSoFar
<1>10. CASE \E t : Faithful(t) /\ run'.answer = Answered(t, "llm")
  <2>1. PICK t : Faithful(t) /\ run'.answer = Answered(t, "llm")
    BY <1>10
  <2>2. run'.answer.text = t /\ run'.answer.method = "llm"
    BY <1>7, <2>1
  <2>3. AnswerOfKept'
    BY <1>6, <2>1, <2>2 DEF AnswerOfKept, Faithful
  <2> QED
    BY <1>1, <1>2, <1>4, <1>5, <2>3 DEF EarnedSoFar
<1> QED
  BY <1>8, <1>9, <1>10

LEMMA EndEarns ==
  ASSUME EarnedSoFar, left # <<>>, left' = Tail(left), run' = Fresh
  PROVE  EarnedSoFar'
<1>1. Shaped'
  BY QuestionAsked DEF EarnedSoFar, Shaped, Fresh, Fields
<1>2. run'.at = "detect" /\ run'.override = "none" /\ run'.admitted = <<>> /\ run'.decisions = Nothing
  BY DEF Fresh
<1>3. DOMAIN Nothing = {}
  BY DEF Nothing
<1> QED
  BY <1>1, <1>2, <1>3 DEF EarnedSoFar, PairsFound, OverrideShows, DecidesPair, GateHeld, Began,
                          BranchesEarned, Joining, KeptOfBranches, AnswerOfKept

LEMMA EarnedThroughout == Spec => []EarnedSoFar
<1>1. Init => EarnedSoFar
  <2>1. ASSUME Init PROVE left \in Seq(Asked) /\ run = Fresh
    <3>1. left \in Seq(Range(left)) /\ Range(left) \subseteq Asked
      BY <2>1, PipelineAssumption DEF Init, Asked
    <3> QED
      BY <2>1, <3>1 DEF Init
  <2> QED
    BY <2>1, FreshIsEarned
<1>2. ASSUME EarnedSoFar, [Next]_vars
      PROVE  EarnedSoFar'
  <2>1. CASE UNCHANGED vars
    <3>1. left' = left /\ run' = run
      BY <2>1 DEF vars
    <3>2. /\ Question' = Question /\ Keys' = Keys /\ Conflicts' = Conflicts
          /\ \A x : Supported(x)' <=> Supported(x)
          /\ \A b : Entailed(b)' <=> Entailed(b)
      BY <3>1, SameMain
    <3>3. Shaped' /\ (run'.at = "detect" <=> run.at = "detect")
      BY <1>2, <3>1 DEF EarnedSoFar, Shaped
    <3>4. ASSUME left # <<>>
          PROVE  PairsFound' /\ OverrideShows' /\ DecidesPair' /\ GateHeld'
      BY <1>2, <3>1, <3>2, <3>4 DEF EarnedSoFar, PairsFound, OverrideShows, DecidesPair, GateHeld, Began
    <3>5. ASSUME left # <<>>
          PROVE  BranchesEarned'
      BY <1>2, <3>1, <3>2, <3>5 DEF EarnedSoFar, BranchesEarned, Joining, GoldBranches, IsRule
    <3>6. ASSUME left # <<>>
          PROVE  KeptOfBranches' /\ AnswerOfKept'
      BY <1>2, <3>1, <3>2, <3>6 DEF EarnedSoFar, KeptOfBranches, AnswerOfKept, Surviving
    <3> QED
      BY <1>2, <3>1, <3>3, <3>4, <3>5, <3>6 DEF EarnedSoFar
  <2>2. CASE Score \/ Fail
    <3>1. left # <<>> /\ left' = Tail(left) /\ run' = Fresh
      BY <2>2 DEF Score, Fail, Running, Ended
    <3> QED
      BY <1>2, <3>1, EndEarns
  <2> QED
    BY <1>2, <2>1, <2>2, DetectEarns, PolicyEarns, DescribeEarns, AnalyseEarns, ExtractEarns, AssembleEarns, ComposeEarns,
       GenerateEarns DEF Next
<1> QED
  BY <1>1, <1>2, PTL DEF Spec

(* service/orchestrator.py:500-585: whatever the models reply to whatever   *)
(* questions, what an answer is made from is the rule, what the cited       *)
(* passage supports, or the benchmark's own under an override; a template   *)
(* states nothing else, and a model's text that is kept states the outcome  *)
(* of all of it and has no figure and no ranking cue of its own.  That such *)
(* a text states nothing else is not claimed, for no check compares it.     *)
THEOREM NothingUnearned == Spec => []AnswerIsEarned
BY EarnedThroughout, EarnedIsEnough, PTL

------------------------------------------------------------------------------
(* What an evaluation adds up.                                              *)

TallyFields == {"scored", "tp", "fp", "fn", "tn", "faithful", "calls", "rates"}

TallyHolds ==
  /\ history \in Seq(Range(history))
  /\ DOMAIN tally = TallyFields /\ tally.rates \in Seq(Range(tally.rates))
  /\ OverrideDoesNotFlatter

(* One more is counted as one more. *)
LEMMA OneMore ==
  ASSUME NEW n \in Nat, NEW S \in SUBSET (1..n)
  PROVE  /\ IsFiniteSet(S) /\ Cardinality(S) \in Nat
         /\ Cardinality(S \cup {n + 1}) = Cardinality(S) + 1
<1>1. IsFiniteSet(1..n)
  BY FS_Interval
<1>2. IsFiniteSet(S)
  BY <1>1, FS_Subset
<1>3. n + 1 \notin S
  OBVIOUS
<1> QED
  BY <1>2, <1>3, FS_AddElement, FS_CardinalityType

(* What a question more adds to the four cells, A and B when it clashes and *)
(* when it is found to.                                                     *)
CellsAdded(n, R, C, P, A, B) ==
  /\ Cardinality((C \cup A) \cap (P \cup B)) = Cardinality(C \cap P) + (IF A # {} /\ B # {} THEN 1 ELSE 0)
  /\ Cardinality((C \cup A) \ (P \cup B)) = Cardinality(C \ P) + (IF A # {} /\ B = {} THEN 1 ELSE 0)
  /\ Cardinality((P \cup B) \ (C \cup A)) = Cardinality(P \ C) + (IF A = {} /\ B # {} THEN 1 ELSE 0)
  /\ Cardinality((R \cup {n + 1}) \ ((C \cup A) \cup (P \cup B)))
       = Cardinality(R \ (C \cup P)) + (IF A = {} /\ B = {} THEN 1 ELSE 0)

(* A question more is in one of the four cells. *)
LEMMA CellsGrow ==
  ASSUME NEW n \in Nat, NEW R \in SUBSET (1..n), NEW C \in SUBSET (1..n), NEW P \in SUBSET (1..n),
         NEW A, NEW B,
         A = {} \/ A = {n + 1}, B = {} \/ B = {n + 1}
  PROVE  CellsAdded(n, R, C, P, A, B)
<1>1. n + 1 \notin R /\ n + 1 \notin C /\ n + 1 \notin P
  OBVIOUS
<1>2. ASSUME NEW S \in SUBSET (1..n), NEW T
      PROVE  /\ Cardinality(S) \in Nat
             /\ T = S => Cardinality(T) = Cardinality(S) + 0
             /\ T = S \cup {n + 1} => Cardinality(T) = Cardinality(S) + 1
  <2>1. IsFiniteSet(S) /\ Cardinality(S) \in Nat /\ Cardinality(S \cup {n + 1}) = Cardinality(S) + 1
    BY OneMore
  <2>2. Cardinality(S) + 0 = Cardinality(S)
    BY <2>1
  <2> QED
    BY <2>1, <2>2
<1> DEFINE x == n + 1
<1>3. (C \cup A) \cap (P \cup B) = (C \cap P) \cup (IF A # {} /\ B # {} THEN {x} ELSE {})
  BY <1>1
<1>4. (C \cup A) \ (P \cup B) = (C \ P) \cup (IF A # {} /\ B = {} THEN {x} ELSE {})
  BY <1>1
<1>5. (P \cup B) \ (C \cup A) = (P \ C) \cup (IF A = {} /\ B # {} THEN {x} ELSE {})
  BY <1>1
<1>6. (R \cup {n + 1}) \ ((C \cup A) \cup (P \cup B)) = (R \ (C \cup P)) \cup (IF A = {} /\ B = {} THEN {x} ELSE {})
  BY <1>1
<1>7. Cardinality((C \cup A) \cap (P \cup B)) = Cardinality(C \cap P) + (IF A # {} /\ B # {} THEN 1 ELSE 0)
  BY <1>2, <1>3
<1>8. Cardinality((C \cup A) \ (P \cup B)) = Cardinality(C \ P) + (IF A # {} /\ B = {} THEN 1 ELSE 0)
  BY <1>2, <1>4
<1>9. Cardinality((P \cup B) \ (C \cup A)) = Cardinality(P \ C) + (IF A = {} /\ B # {} THEN 1 ELSE 0)
  BY <1>2, <1>5
<1>10. Cardinality((R \cup {n + 1}) \ ((C \cup A) \cup (P \cup B)))
         = Cardinality(R \ (C \cup P)) + (IF A = {} /\ B = {} THEN 1 ELSE 0)
  BY <1>2, <1>6
<1> QED
  BY <1>7, <1>8, <1>9, <1>10 DEF CellsAdded

(* What a question that ends adds to the sets that are counted. *)
LEMMA SetsGrow ==
  ASSUME history \in Seq(Range(history)), NEW o, history' = Append(history, o), NEW n, n = Len(history)
  PROVE  /\ n \in Nat /\ history' \in Seq(Range(history'))
         /\ DOMAIN history = 1..n /\ history'[n + 1] = o
         /\ \A i \in 1..n : history'[i] = history[i]
         /\ Replied \subseteq 1..n /\ Clashing \subseteq 1..n /\ Positive \subseteq 1..n /\ Branched \subseteq 1..n
         /\ Replied' = Replied \cup (IF o.ok THEN {n + 1} ELSE {})
         /\ Clashing' = Clashing \cup (IF o.ok /\ o.gold.type # "no_conflict" THEN {n + 1} ELSE {})
         /\ Positive' = Positive \cup (IF o.ok /\ \E k \in DOMAIN o.verdicts : o.verdicts[k].conflict THEN {n + 1} ELSE {})
         /\ Branched' = Branched \cup (IF o.ok /\ o.gold.branches # <<>> THEN {n + 1} ELSE {})
<1>1. n \in Nat /\ DOMAIN history = 1..n
  OBVIOUS
<1>2. history \in Seq(Range(history) \cup {o})
  <2>1. Range(history) \subseteq Range(history) \cup {o}
    OBVIOUS
  <2> QED
    BY <2>1
<1>3. history' \in Seq(Range(history) \cup {o}) /\ Len(history') = n + 1
  BY <1>2
<1>4. DOMAIN history' = 1..(n + 1) /\ history'[n + 1] = o /\ \A i \in 1..n : history'[i] = history[i]
  BY <1>2, <1>3
<1>5. history' \in Seq(Range(history'))
  BY <1>3, <1>4 DEF Range
<1>6. n + 1 \notin 1..n /\ 1..(n + 1) = (1..n) \cup {n + 1}
  BY <1>1
<1>7. Replied \subseteq 1..n /\ Clashing \subseteq 1..n /\ Positive \subseteq 1..n /\ Branched \subseteq 1..n
  BY <1>1 DEF Replied, Clashing, Positive, Branched
<1>8. Replied' = Replied \cup (IF o.ok THEN {n + 1} ELSE {})
  BY <1>1, <1>4, <1>6 DEF Replied
<1>9. \A i : i \in Replied' <=> i \in Replied \/ (o.ok /\ i = n + 1)
  BY <1>8
<1>10. Clashing' = Clashing \cup (IF o.ok /\ o.gold.type # "no_conflict" THEN {n + 1} ELSE {})
  <2>1. \A i : i \in Clashing' <=> i \in Replied' /\ history'[i].gold.type # "no_conflict"
    BY DEF Clashing
  <2>2. \A i : i \in Clashing <=> i \in Replied /\ history[i].gold.type # "no_conflict"
    BY DEF Clashing
  <2>3. n + 1 \in Clashing' <=> o.ok /\ o.gold.type # "no_conflict"
    BY <1>4, <1>6, <1>7, <1>9, <2>1
  <2>4. \A i : i # n + 1 => (i \in Clashing' <=> i \in Clashing)
    BY <1>4, <1>7, <1>9, <2>1, <2>2
  <2>5. n + 1 \notin Clashing
    BY <1>6, <1>7
  <2> QED
    BY <2>3, <2>4, <2>5
<1>11. Positive' = Positive \cup (IF o.ok /\ \E k \in DOMAIN o.verdicts : o.verdicts[k].conflict THEN {n + 1} ELSE {})
  <2>1. \A i : i \in Positive' <=> i \in Replied' /\ \E k \in DOMAIN history'[i].verdicts : history'[i].verdicts[k].conflict
    BY DEF Positive
  <2>2. \A i : i \in Positive <=> i \in Replied /\ \E k \in DOMAIN history[i].verdicts : history[i].verdicts[k].conflict
    BY DEF Positive
  <2>3. n + 1 \in Positive' <=> o.ok /\ \E k \in DOMAIN o.verdicts : o.verdicts[k].conflict
    BY <1>4, <1>6, <1>7, <1>9, <2>1
  <2>4. \A i : i # n + 1 => (i \in Positive' <=> i \in Positive)
    BY <1>4, <1>7, <1>9, <2>1, <2>2
  <2>5. n + 1 \notin Positive
    BY <1>6, <1>7
  <2> QED
    BY <2>3, <2>4, <2>5
<1>12. Branched' = Branched \cup (IF o.ok /\ o.gold.branches # <<>> THEN {n + 1} ELSE {})
  <2>1. \A i : i \in Branched' <=> i \in Replied' /\ history'[i].gold.branches # <<>>
    BY DEF Branched
  <2>2. \A i : i \in Branched <=> i \in Replied /\ history[i].gold.branches # <<>>
    BY DEF Branched
  <2>3. n + 1 \in Branched' <=> o.ok /\ o.gold.branches # <<>>
    BY <1>4, <1>6, <1>7, <1>9, <2>1
  <2>4. \A i : i # n + 1 => (i \in Branched' <=> i \in Branched)
    BY <1>4, <1>7, <1>9, <2>1, <2>2
  <2>5. n + 1 \notin Branched
    BY <1>6, <1>7
  <2> QED
    BY <2>3, <2>4, <2>5
<1> QED
  BY <1>1, <1>4, <1>5, <1>7, <1>8, <1>10, <1>11, <1>12

(* A question that failed counts nowhere. *)
LEMMA FailCounts ==
  ASSUME TallyHolds, Fail
  PROVE  TallyHolds'
<1> DEFINE o == Outcome(FALSE)
           n == Len(history)
<1>1. history' = Append(history, o) /\ request' = request /\ tally' = tally
  BY DEF Fail
<1>2. o.ok = FALSE
  BY DEF Outcome
<1>3. history \in Seq(Range(history))
  BY DEF TallyHolds
<1> HIDE DEF o
<1>4. /\ n \in Nat /\ history' \in Seq(Range(history'))
      /\ \A i \in 1..n : history'[i] = history[i]
      /\ Replied \subseteq 1..n /\ Clashing \subseteq 1..n /\ Positive \subseteq 1..n /\ Branched \subseteq 1..n
      /\ Replied' = Replied \cup (IF o.ok THEN {n + 1} ELSE {})
      /\ Clashing' = Clashing \cup (IF o.ok /\ o.gold.type # "no_conflict" THEN {n + 1} ELSE {})
      /\ Positive' = Positive \cup (IF o.ok /\ \E k \in DOMAIN o.verdicts : o.verdicts[k].conflict THEN {n + 1} ELSE {})
      /\ Branched' = Branched \cup (IF o.ok /\ o.gold.branches # <<>> THEN {n + 1} ELSE {})
  BY <1>1, <1>3, SetsGrow
<1>5. Replied' = Replied /\ Clashing' = Clashing /\ Positive' = Positive /\ Branched' = Branched
  BY <1>2, <1>4
<1>6. OverrideDoesNotFlatter'
  <2>1. SUFFICES ASSUME request.kind = "eval"
                 PROVE  /\ tally.tp = Cardinality(Clashing \cap Positive)
                        /\ tally.fn = Cardinality(Clashing \ Positive)
                        /\ tally.fp = Cardinality(Positive \ Clashing)
                        /\ tally.tn = Cardinality(Replied \ (Clashing \cup Positive))
                        /\ tally.scored = tally.tp + tally.fn + tally.fp + tally.tn
                        /\ Len(tally.rates) = Cardinality(Branched)
                        /\ \A i \in Branched : tally.rates[Cardinality({j \in Branched : j <= i})] = RatesOf(history'[i].rows)
    BY <1>1, <1>5 DEF OverrideDoesNotFlatter, RatesOf
  <2>2. \A i \in Branched : history'[i] = history[i]
    BY <1>4
  <2> QED
    BY <2>1, <2>2 DEF TallyHolds, OverrideDoesNotFlatter
<1> QED
  BY <1>1, <1>4, <1>6 DEF TallyHolds

(* One that was answered counts in one cell, and its rates come last. *)
LEMMA AddedUp ==
  ASSUME TallyHolds, tally' = Added
  PROVE  /\ DOMAIN tally' = TallyFields /\ tally'.rates \in Seq(Range(tally'.rates))
         /\ tally'.scored = tally.scored + 1 /\ tally'.rates = tally.rates \o Rated
         /\ tally'.tp = (IF Cell = "tp" THEN tally.tp + 1 ELSE tally.tp)
         /\ tally'.fn = (IF Cell = "fn" THEN tally.fn + 1 ELSE tally.fn)
         /\ tally'.fp = (IF Cell = "fp" THEN tally.fp + 1 ELSE tally.fp)
         /\ tally'.tn = (IF Cell = "tn" THEN tally.tn + 1 ELSE tally.tn)
<1>1. DOMAIN tally = TallyFields /\ tally.rates \in Seq(Range(tally.rates))
  BY DEF TallyHolds
<1>2. Cell \in {"tp", "fn", "fp", "tn"}
  BY DEF Cell
<1>3. DOMAIN tally' = TallyFields
  BY <1>1 DEF Added
<1>4. /\ tally'.scored = tally.scored + 1 /\ tally'.rates = tally.rates \o Rated
      /\ tally'.tp = (IF Cell = "tp" THEN tally.tp + 1 ELSE tally.tp)
      /\ tally'.fn = (IF Cell = "fn" THEN tally.fn + 1 ELSE tally.fn)
      /\ tally'.fp = (IF Cell = "fp" THEN tally.fp + 1 ELSE tally.fp)
      /\ tally'.tn = (IF Cell = "tn" THEN tally.tn + 1 ELSE tally.tn)
  BY <1>1, <1>2 DEF Added, TallyFields
<1>5. tally'.rates \in Seq(Range(tally'.rates))
  <2>1. tally.rates \in Seq(Range(tally.rates) \cup Range(Rated))
    <3>1. Range(tally.rates) \subseteq Range(tally.rates) \cup Range(Rated)
      OBVIOUS
    <3> QED
      BY <1>1, <3>1
  <2>2. Rated \in Seq(Range(tally.rates) \cup Range(Rated))
    <3> DEFINE x == RatesOf(Scored)
    <3>1. Rated = <<>> \/ Rated = <<x>>
      BY DEF Rated
    <3> HIDE DEF x
    <3>2. CASE Rated = <<>>
      BY <3>2
    <3>3. CASE Rated = <<x>>
      <4>1. Range(Rated) = {x}
        BY <3>3 DEF Range
      <4> QED
        BY <3>3, <4>1
    <3> QED
      BY <3>1, <3>2, <3>3
  <2> DEFINE r == tally'.rates
  <2>3. r \in Seq(Range(tally.rates) \cup Range(Rated))
    BY <1>4, <2>1, <2>2
  <2> HIDE DEF r
  <2>4. r \in Seq(Range(r))
    BY <2>3 DEF Range
  <2> QED
    BY <2>4 DEF r
<1> QED
  BY <1>3, <1>4, <1>5

(* How many are at or before one of them is the place it has. *)
LEMMA Places ==
  ASSUME NEW n \in Nat, NEW S \in SUBSET (1..n)
  PROVE  /\ \A i \in S : /\ Cardinality(Below(S, i)) \in 1..Cardinality(S)
                         /\ Below(S \cup {n + 1}, i) = Below(S, i)
         /\ Below(S \cup {n + 1}, n + 1) = S \cup {n + 1}
<1>1. IsFiniteSet(S) /\ Cardinality(S) \in Nat
  BY OneMore
<1>2. ASSUME NEW i \in S
      PROVE  Cardinality(Below(S, i)) \in 1..Cardinality(S)
  <2>1. i \in Below(S, i) /\ Below(S, i) \subseteq S
    BY DEF Below
  <2>2. IsFiniteSet(Below(S, i)) /\ Cardinality(Below(S, i)) <= Cardinality(S) /\ Cardinality(Below(S, i)) \in Nat
    BY <1>1, <2>1, FS_Subset, FS_CardinalityType
  <2>3. Cardinality(Below(S, i)) # 0
    BY <2>1, <2>2, FS_EmptySet
  <2> QED
    BY <1>1, <2>2, <2>3
<1>3. ASSUME NEW i \in S
      PROVE  Below(S \cup {n + 1}, i) = Below(S, i)
  <2>1. ~(n + 1 <= i)
    OBVIOUS
  <2> QED
    BY <2>1 DEF Below
<1>4. \A j \in S \cup {n + 1} : j <= n + 1
  OBVIOUS
<1>5. Below(S \cup {n + 1}, n + 1) = S \cup {n + 1}
  BY <1>4 DEF Below
<1> QED
  BY <1>2, <1>3, <1>5

(* r has what f says, and with x behind it what g says, each at its place.  *)
Placed(S, f, r) ==
  /\ r \in Seq(Range(r)) /\ Len(r) = Cardinality(S)
  /\ \A i \in S : r[Cardinality(Below(S, i))] = f[i]
Following(n, S, g, x, r) ==
  /\ Len(r \o <<x>>) = Cardinality(S \cup {n + 1})
  /\ \A i \in S \cup {n + 1} : (r \o <<x>>)[Cardinality(Below(S \cup {n + 1}, i))] = g[i]

(* The rates of a question that has gold branches come after the others'. *)
LEMMA RatesFollow ==
  ASSUME NEW n \in Nat, NEW S \in SUBSET (1..n), NEW f, NEW g, NEW x, NEW r, Placed(S, f, r),
         \A i \in S : g[i] = f[i],
         g[n + 1] = x
  PROVE  Following(n, S, g, x, r)
<1>0. /\ r \in Seq(Range(r)) /\ Len(r) = Cardinality(S)
      /\ \A i \in S : r[Cardinality(Below(S, i))] = f[i]
  BY DEF Placed
<1>1. Cardinality(S) \in Nat /\ Cardinality(S \cup {n + 1}) = Cardinality(S) + 1
  BY OneMore
<1>2. r \in Seq(Range(r) \cup {x})
  <2>1. Range(r) \subseteq Range(r) \cup {x}
    OBVIOUS
  <2> QED
    BY <1>0, <2>1
<1>3. /\ Len(r \o <<x>>) = Cardinality(S) + 1 /\ (r \o <<x>>)[Cardinality(S) + 1] = x
      /\ \A k \in 1..Cardinality(S) : (r \o <<x>>)[k] = r[k]
  BY <1>0, <1>1, <1>2
<1>4. ASSUME NEW i \in S
      PROVE  (r \o <<x>>)[Cardinality(Below(S \cup {n + 1}, i))] = g[i]
  BY <1>0, <1>3, Places
<1>5. (r \o <<x>>)[Cardinality(Below(S \cup {n + 1}, n + 1))] = g[n + 1]
  <2>1. Below(S \cup {n + 1}, n + 1) = S \cup {n + 1}
    BY Places
  <2> QED
    BY <1>1, <1>3, <2>1
<1> QED
  BY <1>1, <1>3, <1>4, <1>5 DEF Following

(* A question that was answered is counted, once, and as its own verdicts   *)
(* say.                                                                     *)
LEMMA ScoreCounts ==
  ASSUME TallyHolds, Score
  PROVE  TallyHolds'
<1> DEFINE o == Outcome(TRUE)
           n == Len(history)
           A == IF Question.gold.type # "no_conflict" THEN {n + 1} ELSE {}
           B == IF Detected THEN {n + 1} ELSE {}
<1>1. history' = Append(history, o) /\ request' = request
  BY DEF Score
<1>2. o.ok /\ o.gold = Question.gold /\ o.verdicts = run.verdicts /\ o.rows = Scored
  BY DEF Outcome
<1>3. history \in Seq(Range(history))
  BY DEF TallyHolds
<1> HIDE DEF o
<1>4. /\ n \in Nat /\ history' \in Seq(Range(history'))
      /\ history'[n + 1] = o /\ \A i \in 1..n : history'[i] = history[i]
      /\ Replied \subseteq 1..n /\ Clashing \subseteq 1..n /\ Positive \subseteq 1..n /\ Branched \subseteq 1..n
      /\ Replied' = Replied \cup (IF o.ok THEN {n + 1} ELSE {})
      /\ Clashing' = Clashing \cup (IF o.ok /\ o.gold.type # "no_conflict" THEN {n + 1} ELSE {})
      /\ Positive' = Positive \cup (IF o.ok /\ \E k \in DOMAIN o.verdicts : o.verdicts[k].conflict THEN {n + 1} ELSE {})
      /\ Branched' = Branched \cup (IF o.ok /\ o.gold.branches # <<>> THEN {n + 1} ELSE {})
  BY <1>1, <1>3, SetsGrow
<1>5. /\ Replied' = Replied \cup {n + 1} /\ Clashing' = Clashing \cup A /\ Positive' = Positive \cup B
      /\ Branched' = Branched \cup (IF Question.gold.branches # <<>> THEN {n + 1} ELSE {})
  BY <1>2, <1>4 DEF Detected
<1>6. CASE request.kind # "eval"
  <2>1. tally' = tally
    BY <1>6 DEF Score
  <2> QED
    BY <1>1, <1>4, <1>6, <2>1 DEF TallyHolds, OverrideDoesNotFlatter
<1>7. CASE request.kind = "eval"
  <2>1. tally' = Added
    BY <1>7 DEF Score
  <2>2. /\ DOMAIN tally' = TallyFields /\ tally'.rates \in Seq(Range(tally'.rates))
        /\ tally'.scored = tally.scored + 1 /\ tally'.rates = tally.rates \o Rated
        /\ tally'.tp = (IF Cell = "tp" THEN tally.tp + 1 ELSE tally.tp)
        /\ tally'.fn = (IF Cell = "fn" THEN tally.fn + 1 ELSE tally.fn)
        /\ tally'.fp = (IF Cell = "fp" THEN tally.fp + 1 ELSE tally.fp)
        /\ tally'.tn = (IF Cell = "tn" THEN tally.tn + 1 ELSE tally.tn)
    BY <2>1, AddedUp
  <2>3. /\ tally.tp = Cardinality(Clashing \cap Positive) /\ tally.fn = Cardinality(Clashing \ Positive)
        /\ tally.fp = Cardinality(Positive \ Clashing) /\ tally.tn = Cardinality(Replied \ (Clashing \cup Positive))
        /\ tally.scored = tally.tp + tally.fn + tally.fp + tally.tn
        /\ tally.rates \in Seq(Range(tally.rates)) /\ Len(tally.rates) = Cardinality(Branched)
        /\ \A i \in Branched : tally.rates[Cardinality({j \in Branched : j <= i})] = RatesOf(history[i].rows)
    BY <1>7 DEF TallyHolds, OverrideDoesNotFlatter
  <2>4. tally.tp \in Nat /\ tally.fn \in Nat /\ tally.fp \in Nat /\ tally.tn \in Nat
    <3>1. /\ Clashing \cap Positive \in SUBSET (1..n) /\ Clashing \ Positive \in SUBSET (1..n)
          /\ Positive \ Clashing \in SUBSET (1..n) /\ Replied \ (Clashing \cup Positive) \in SUBSET (1..n)
      BY <1>4
    <3>2. \A S \in SUBSET (1..n) : Cardinality(S) \in Nat
      BY <1>4, OneMore
    <3> QED
      BY <2>3, <3>1, <3>2
  <2>5. /\ Cell = "tp" <=> A # {} /\ B # {}
        /\ Cell = "fn" <=> A # {} /\ B = {}
        /\ Cell = "fp" <=> A = {} /\ B # {}
        /\ Cell = "tn" <=> A = {} /\ B = {}
    BY DEF Cell
  <2>6. /\ A = {} \/ A = {n + 1}
        /\ B = {} \/ B = {n + 1}
    OBVIOUS
  <2> HIDE DEF A, B, n
  <2>7. /\ n \in Nat /\ Replied \in SUBSET (1..n) /\ Clashing \in SUBSET (1..n) /\ Positive \in SUBSET (1..n)
        /\ A = {} \/ A = {n + 1}
        /\ B = {} \/ B = {n + 1}
    BY <1>4, <2>6 DEF n
  <2>8. CellsAdded(n, Replied, Clashing, Positive, A, B)
    BY <2>7, CellsGrow
  <2>9. Cardinality((Clashing \cup A) \cap (Positive \cup B))
          = Cardinality(Clashing \cap Positive) + (IF A # {} /\ B # {} THEN 1 ELSE 0)
    BY <2>8 DEF CellsAdded
  <2>10. Cardinality((Clashing \cup A) \ (Positive \cup B))
           = Cardinality(Clashing \ Positive) + (IF A # {} /\ B = {} THEN 1 ELSE 0)
    BY <2>8 DEF CellsAdded
  <2>11. Cardinality((Positive \cup B) \ (Clashing \cup A))
           = Cardinality(Positive \ Clashing) + (IF A = {} /\ B # {} THEN 1 ELSE 0)
    BY <2>8 DEF CellsAdded
  <2>12. Cardinality((Replied \cup {n + 1}) \ ((Clashing \cup A) \cup (Positive \cup B)))
           = Cardinality(Replied \ (Clashing \cup Positive)) + (IF A = {} /\ B = {} THEN 1 ELSE 0)
    BY <2>8 DEF CellsAdded
  <2>13. tally'.tp = Cardinality(Clashing' \cap Positive')
    BY <1>5, <2>2, <2>3, <2>4, <2>5, <2>9
  <2>14. tally'.fn = Cardinality(Clashing' \ Positive')
    BY <1>5, <2>2, <2>3, <2>4, <2>5, <2>10
  <2>15. tally'.fp = Cardinality(Positive' \ Clashing')
    BY <1>5, <2>2, <2>3, <2>4, <2>5, <2>11
  <2>16. tally'.tn = Cardinality(Replied' \ (Clashing' \cup Positive'))
    BY <1>5, <2>2, <2>3, <2>4, <2>5, <2>12
  <2>17. tally'.scored = tally'.tp + tally'.fn + tally'.fp + tally'.tn
    <3>1. \/ A # {} /\ B # {}
          \/ A # {} /\ B = {}
          \/ A = {} /\ B # {}
          \/ A = {} /\ B = {}
      OBVIOUS
    <3> QED
      BY <2>2, <2>3, <2>4, <2>5, <3>1
  <2>18. /\ Len(tally'.rates) = Cardinality(Branched')
         /\ \A i \in Branched' : tally'.rates[Cardinality({j \in Branched' : j <= i})] = RatesOf(history'[i].rows)
    <3>1. CASE Question.gold.branches = <<>>
      <4>1. Branched' = Branched /\ tally'.rates = tally.rates
        BY <1>5, <2>2, <2>3, <3>1 DEF Rated
      <4>2. \A i \in Branched : history'[i] = history[i]
        BY <1>4 DEF n
      <4> QED
        BY <2>3, <4>1, <4>2
    <3>2. CASE Question.gold.branches # <<>>
      <4> DEFINE f == [i \in Branched |-> RatesOf(history[i].rows)]
                 g == [i \in Branched' |-> RatesOf(history'[i].rows)]
                 x == RatesOf(Scored)
                 r == tally.rates
      <4>1. Branched' = Branched \cup {n + 1} /\ tally'.rates = r \o <<x>>
        BY <1>5, <2>2, <3>2 DEF Rated
      <4>2. \A i \in Branched : r[Cardinality(Below(Branched, i))] = f[i]
        BY <2>3 DEF Below
      <4>3. \A i \in Branched : g[i] = f[i]
        BY <1>4, <4>1 DEF n
      <4>4. g[n + 1] = x
        BY <1>2, <1>4, <4>1 DEF n
      <4>5. n \in Nat /\ Branched \in SUBSET (1..n)
        BY <1>4 DEF n
      <4>6. r \in Seq(Range(r)) /\ Len(r) = Cardinality(Branched)
        BY <2>3
      <4>7. \A i \in Branched' : g[i] = RatesOf(history'[i].rows)
        OBVIOUS
      <4> HIDE DEF f, g, x, r
      <4>8. Placed(Branched, f, r)
        BY <4>2, <4>6 DEF Placed
      <4>9. Following(n, Branched, g, x, r)
        BY <4>3, <4>4, <4>5, <4>8, RatesFollow
      <4> QED
        BY <4>1, <4>7, <4>9 DEF Following, Below
    <3> QED
      BY <3>1, <3>2
  <2>19. OverrideDoesNotFlatter'
    BY <2>13, <2>14, <2>15, <2>16, <2>17, <2>18 DEF OverrideDoesNotFlatter
  <2> QED
    BY <1>4, <2>2, <2>19 DEF TallyHolds
<1> QED
  BY <1>6, <1>7

(* So what is added up is always what was seen. *)
LEMMA TallyThroughout == Spec => []TallyHolds
<1>1. Init => TallyHolds
  <2>1. ASSUME Init PROVE TallyHolds
    <3>1. history = <<>> /\ tally = NoTally
      BY <2>1 DEF Init
    <3>2. history \in Seq(Range(history)) /\ DOMAIN tally = TallyFields /\ tally.rates = <<>>
      BY <3>1 DEF NoTally, TallyFields
    <3>3. tally.rates \in Seq(Range(tally.rates))
      BY <3>2
    <3>4. DOMAIN history = {}
      BY <3>1
    <3>5. Replied = {} /\ Clashing = {} /\ Positive = {} /\ Branched = {}
      BY <3>4 DEF Replied, Clashing, Positive, Branched
    <3>6. Cardinality({}) = 0
      BY FS_EmptySet
    <3>7. /\ Clashing \cap Positive = {} /\ Clashing \ Positive = {} /\ Positive \ Clashing = {}
          /\ Replied \ (Clashing \cup Positive) = {}
      BY <3>5
    <3>8. tally.scored = 0 /\ tally.tp = 0 /\ tally.fn = 0 /\ tally.fp = 0 /\ tally.tn = 0
      BY <3>1 DEF NoTally
    <3>9. OverrideDoesNotFlatter
      BY <3>2, <3>5, <3>6, <3>7, <3>8 DEF OverrideDoesNotFlatter
    <3> QED
      BY <3>2, <3>3, <3>9 DEF TallyHolds
  <2> QED
    BY <2>1
<1>2. ASSUME TallyHolds, [Next]_vars
      PROVE  TallyHolds'
  <2>1. CASE UNCHANGED <<request, tally, history>>
    BY <1>2, <2>1 DEF TallyHolds, OverrideDoesNotFlatter, Replied, Clashing, Positive, Branched
  <2>2. Detect \/ Policy \/ Describe \/ Analyse \/ Extract \/ Assemble \/ ComposeBranches \/ Generate
          => UNCHANGED <<request, tally, history>>
    BY DEF Detect, Policy, Describe, Analyse, Extract, Assemble, ComposeBranches, Generate, Elsewhere
  <2>3. UNCHANGED vars => UNCHANGED <<request, tally, history>>
    BY DEF vars
  <2> QED
    BY <1>2, <2>1, <2>2, <2>3, ScoreCounts, FailCounts DEF Next
<1> QED
  BY <1>1, <1>2, PTL DEF Spec

(* service/evals.py:44-100: for any evaluation, what is reported of the     *)
(* detector counts each answered question once and by what the detector     *)
(* itself said, and each question's rates stand at its own place.           *)
THEOREM TallyIsTrue == Spec => []OverrideDoesNotFlatter
<1>1. TallyHolds => OverrideDoesNotFlatter
  BY DEF TallyHolds
<1> QED
  BY <1>1, TallyThroughout, PTL
=============================================================================
