--------------------------- MODULE ResolutionProofs ---------------------------
(* Resolution keeps what ResolutionInv says, for any scopes, outcomes,      *)
(* thresholds, scores and lists: a behaviour is one call, so each theorem   *)
(* is about what one action returns for the list that Init chose.  First,   *)
(* that the algebra of applicability sets is exact.                         *)
(*                                                                         *)
(* Then ScopeCompose, which is built of it: what detection decides, what a   *)
(* group is folded into and what the answer says are true of the cases the   *)
(* frames speak of, for any taxonomies, vocabulary, replies and drafts.     *)
EXTENDS ResolutionInv, ScopeCompose, WellFoundedInduction, FiniteSetTheorems, TLAPS

------------------------------------------------------------------------------
(* What satisfiable() and compare() say is true of the sets of cases.       *)

LEMMA AttributeType ==
  ASSUME NEW s \in Scopes, NEW i \in 1..Len(Attrs[s])
  PROVE  Attrs[s][i] \in Attribute
<1>1. Attrs[s] \in Seq(Attribute)
  BY ScopeAssumption
<1> QED
  BY <1>1

(* To hold is to be allowed in every dimension. *)
LEMMA HoldsByDimension ==
  ASSUME NEW s \in Scopes, NEW c \in Cases
  PROVE  Holds(s, c) <=> \A n \in Names : c[n] \in Allowed({s}, n)
<1>1. \A n \in Names : c[n] \in Domain[n]
  BY DEF Cases
<1>2. \A i \in 1..Len(Attrs[s]) : Attrs[s][i].name \in Names
  BY AttributeType DEF Attribute
<1> QED
  BY <1>1, <1>2 DEF Holds, Allowed

LEMMA AllowedByAll ==
  ASSUME NEW S \in SUBSET Scopes, NEW c \in Cases
  PROVE  (\A s \in S : Holds(s, c)) <=> (\A n \in Names : c[n] \in Allowed(S, n))
<1>1. \A n \in Names : c[n] \in Domain[n]
  BY DEF Cases
<1>2. \A s \in S : \A i \in 1..Len(Attrs[s]) : Attrs[s][i].name \in Names
  BY AttributeType DEF Attribute
<1> QED
  BY <1>1, <1>2 DEF Holds, Allowed

(* satisfiable(): exact, not a heuristic. *)
THEOREM SatisfiableIsExact ==
  ASSUME NEW I \in SUBSET Scopes, NEW O \in SUBSET Scopes
  PROVE  Satisfiable(I, O) <=>
           \E c \in Cases : (\A s \in I : Holds(s, c)) /\ (\A s \in O : ~Holds(s, c))
<1>1. ASSUME Satisfiable(I, O)
      PROVE  \E c \in Cases : (\A s \in I : Holds(s, c)) /\ (\A s \in O : ~Holds(s, c))
  <2>1. PICK w \in [O -> Names] :
          /\ \A o \in O : w[o] \in Dims(o)
          /\ \A n \in Names : Allowed(I, n) \ UNION {Allowed({o}, n) : o \in {p \in O : w[p] = n}} # {}
    BY <1>1 DEF Satisfiable
  <2> DEFINE Left(n) == Allowed(I, n) \ UNION {Allowed({o}, n) : o \in {p \in O : w[p] = n}}
             pick(n) == CHOOSE v \in Left(n) : TRUE
             case == [n \in Names |-> pick(n)]
  <2>2. \A n \in Names : pick(n) \in Left(n)
    BY <2>1
  <2>3. \A n \in Names : pick(n) \in Allowed(I, n) /\ pick(n) \in Domain[n]
    BY <2>2 DEF Allowed
  <2> HIDE DEF pick
  <2>4. case \in Cases /\ \A n \in Names : case[n] = pick(n)
    BY <2>3 DEF Cases, Values
  <2> HIDE DEF case
  <2>5. \A s \in I : Holds(s, case)
    BY <2>3, <2>4, AllowedByAll
  <2>6. ASSUME NEW o \in O PROVE ~Holds(o, case)
    <3>1. w[o] \in Names
      BY <2>1
    <3>2. case[w[o]] \notin Allowed({o}, w[o])
      BY <2>2, <2>4, <3>1
    <3> QED
      BY <3>1, <3>2, <2>4, HoldsByDimension
  <2> QED
    BY <2>4, <2>5, <2>6
<1>2. ASSUME NEW c \in Cases, \A s \in I : Holds(s, c), \A s \in O : ~Holds(s, c)
      PROVE  Satisfiable(I, O)
  <2> DEFINE w == [o \in O |-> CHOOSE n \in Dims(o) : c[n] \notin Allowed({o}, n)]
  <2>1. ASSUME NEW o \in O
        PROVE  \E n \in Dims(o) : n \in Names /\ c[n] \notin Allowed({o}, n)
    <3>1. PICK i \in 1..Len(Attrs[o]) : c[Attrs[o][i].name] \notin Attrs[o][i].allowed
      BY <1>2 DEF Holds
    <3>2. Attrs[o][i].name \in Dims(o) /\ Attrs[o][i].name \in Names
      BY <3>1, AttributeType DEF Dims, Attribute
    <3> QED
      BY <3>1, <3>2 DEF Allowed
  <2>2. \A o \in O : w[o] \in Dims(o) /\ c[w[o]] \notin Allowed({o}, w[o])
    BY <2>1
  <2>3. \A o \in O : Dims(o) \subseteq Names
    BY AttributeType DEF Dims, Attribute
  <2>4. w \in [O -> Names]
    BY <2>2, <2>3
  <2> HIDE DEF w
  <2>5. \A n \in Names : c[n] \in Allowed(I, n)
    BY <1>2, AllowedByAll
  <2>6. \A n \in Names : c[n] \notin UNION {Allowed({o}, n) : o \in {p \in O : w[p] = n}}
    BY <2>2
  <2> QED
    BY <2>2, <2>4, <2>5, <2>6 DEF Satisfiable
<1> QED
  BY <1>1, <1>2

------------------------------------------------------------------------------
(* compare().                                                               *)

LEMMA KeptAttribute ==
  ASSUME NEW s \in Scopes
  PROVE  /\ \A k \in Kept(s) : \E i \in 1..Len(Attrs[s]) : k = Attrs[s][i]
         /\ \A k \in Kept(s) : k \in Attribute
         /\ Once(s) => \A i \in 1..Len(Attrs[s]) : Attrs[s][i] \in Kept(s)
<1>1. Len(Attrs[s]) \in Nat
  BY ScopeAssumption
<1>2. \A k \in Kept(s) : \E i \in 1..Len(Attrs[s]) : k = Attrs[s][i]
  BY DEF Kept
<1>3. ASSUME Once(s), NEW i \in 1..Len(Attrs[s])
      PROVE  Attrs[s][i] \in Kept(s)
  <2>1. \A k \in (i + 1)..Len(Attrs[s]) : k \in 1..Len(Attrs[s]) /\ k # i
    BY <1>1
  <2>2. \A k \in (i + 1)..Len(Attrs[s]) : Attrs[s][k].name # Attrs[s][i].name
    BY <1>3, <2>1 DEF Once
  <2> QED
    BY <2>2 DEF Kept
<1> QED
  BY <1>2, <1>3, AttributeType

LEMMA HoldsForKept ==
  ASSUME NEW s \in Scopes, NEW c \in Cases, Holds(s, c)
  PROVE  \A k \in Kept(s) : c[k.name] \in k.allowed
BY KeptAttribute DEF Holds

(* What "disjoint" says is true, of any scopes. *)
LEMMA ApartIsDisjoint ==
  ASSUME NEW a \in Scopes, NEW b \in Scopes, Apart(a, b)
  PROVE  \A c \in Cases : ~(Holds(a, c) /\ Holds(b, c))
<1>1. PICK k \in Kept(a), l \in Kept(b) : k.name = l.name /\ k.allowed \cap l.allowed = {}
  BY DEF Apart, Comparable
<1>2. SUFFICES ASSUME NEW c \in Cases, Holds(a, c), Holds(b, c) PROVE FALSE
  OBVIOUS
<1>3. c[k.name] \in k.allowed /\ c[l.name] \in l.allowed
  BY <1>2, HoldsForKept
<1> QED
  BY <1>1, <1>3

(* Two typed scopes that hold for one case are neither disjoint nor unknown. *)
LEMMA CommonCaseIsSeen ==
  ASSUME NEW a \in Scopes, NEW b \in Scopes, Typed(a), Typed(b), NEW c \in Cases, Holds(a, c), Holds(b, c)
  PROVE  Compare(a, b) \notin {"disjoint", "unknown"}
<1>1. CASE a \in Universal \/ b \in Universal
  BY <1>1 DEF Compare
<1>2. CASE a \notin Universal /\ b \notin Universal
  <2>1. ASSUME NEW s \in Scopes, Typed(s), s \notin Universal
        PROVE  Dims(s) # {} /\ ~Untyped(s)
    <3>1. Attrs[s] # <<>> /\ \A i \in 1..Len(Attrs[s]) : Attrs[s][i].kind # "free_text"
      BY <2>1 DEF Typed
    <3>2. Attrs[s] \in Seq(Attribute)
      BY ScopeAssumption
    <3>3. 1 \in 1..Len(Attrs[s])
      BY <3>1, <3>2
    <3>4. Dims(s) # {}
      BY <3>3 DEF Dims
    <3>5. ~Untyped(s)
      BY <3>1, KeptAttribute DEF Untyped
    <3> QED
      BY <3>4, <3>5
  <2>2. ~Apart(a, b)
    BY ApartIsDisjoint
  <2> QED
    BY <1>2, <2>1, <2>2 DEF Compare
<1> QED
  BY <1>1, <1>2

(* compare() says the same of two scopes in either order. *)
LEMMA CompareMirrors ==
  ASSUME NEW a \in Scopes, NEW b \in Scopes
  PROVE  /\ Compare(a, b) = "subset" <=> Compare(b, a) = "superset"
         /\ Compare(a, b) = "superset" <=> Compare(b, a) = "subset"
         /\ \A r \in {"equal", "disjoint", "overlapping", "unknown"} : Compare(a, b) = r <=> Compare(b, a) = r
<1>1. Apart(a, b) <=> Apart(b, a)
  BY DEF Apart, Comparable
<1> QED
  BY <1>1 DEF Compare

Textless(s) == \A i \in 1..Len(Attrs[s]) : Attrs[s][i].kind # "free_text"

Included(s, t) == \A c \in Cases : Holds(s, c) => Holds(t, c)

(* A case can be moved out of a constraint without leaving a scope that     *)
(* does not imply it.                                                       *)
LEMMA InsideIfIncluded ==
  ASSUME NEW a \in Scopes, NEW b \in Scopes, Once(a), Alike(a, b), Textless(a), Textless(b),
         NEW c0 \in Cases, Holds(a, c0), Included(a, b)
  PROVE  Inside(a, b)
<1>1. SUFFICES ASSUME NEW l \in Kept(b),
                      \A k \in Kept(a) : ~(Comparable(k, l) /\ k.allowed \subseteq l.allowed)
               PROVE  FALSE
  BY DEF Inside
<1>2. PICK j \in 1..Len(Attrs[b]) : l = Attrs[b][j]
  BY KeptAttribute
<1>3. l.kind # "free_text" /\ l.name \in Names
  BY <1>2, AttributeType DEF Textless, Attribute
<1>4. l.allowed \subseteq Domain[l.name] /\ l.allowed # Domain[l.name]
  BY <1>2, <1>3, ScopeAssumption
<1>5. \E v \in Domain[l.name] :
        v \notin l.allowed /\ \A i \in 1..Len(Attrs[a]) : Attrs[a][i].name = l.name => v \in Attrs[a][i].allowed
  <2>1. CASE \E i \in 1..Len(Attrs[a]) : Attrs[a][i].name = l.name
    <3>1. PICK i \in 1..Len(Attrs[a]) : Attrs[a][i].name = l.name
      BY <2>1
    <3>2. Attrs[a][i] \in Kept(a)
      BY KeptAttribute
    <3>3. Comparable(Attrs[a][i], l)
      BY <3>1, <3>2, <1>3 DEF Alike, Comparable
    <3>4. PICK v \in Attrs[a][i].allowed : v \notin l.allowed
      BY <3>2, <3>3, <1>1
    <3>5. v \in Domain[l.name]
      BY <3>1, <3>4, ScopeAssumption DEF Textless
    <3>6. \A h \in 1..Len(Attrs[a]) : Attrs[a][h].name = l.name => h = i
      BY <3>1 DEF Once
    <3> QED
      BY <3>4, <3>5, <3>6
  <2>2. CASE ~ \E i \in 1..Len(Attrs[a]) : Attrs[a][i].name = l.name
    BY <2>2, <1>4
  <2> QED
    BY <2>1, <2>2
<1>6. PICK v \in Domain[l.name] :
        v \notin l.allowed /\ \A i \in 1..Len(Attrs[a]) : Attrs[a][i].name = l.name => v \in Attrs[a][i].allowed
  BY <1>5
<1> DEFINE c == [c0 EXCEPT ![l.name] = v]
<1>7. c0 \in [Names -> Values] /\ \A n \in Names : c0[n] \in Domain[n]
  BY DEF Cases
<1>8. v \in Values
  BY <1>3, <1>6 DEF Values
<1>9. c \in Cases
  BY <1>3, <1>6, <1>7, <1>8 DEF Cases
<1>10. \A i \in 1..Len(Attrs[a]) : Attrs[a][i].name \in Names
  BY AttributeType DEF Attribute
<1>11. Holds(a, c)
  BY <1>3, <1>6, <1>7, <1>10 DEF Holds
<1>12. Holds(b, c)
  BY <1>9, <1>11 DEF Included
<1>13. c[l.name] \in l.allowed
  BY <1>2, <1>12 DEF Holds
<1> QED
  BY <1>3, <1>6, <1>7, <1>13

LEMMA IncludedIfInside ==
  ASSUME NEW a \in Scopes, NEW b \in Scopes, Once(b), Inside(a, b)
  PROVE  Included(a, b)
<1>1. SUFFICES ASSUME NEW c \in Cases, Holds(a, c), NEW i \in 1..Len(Attrs[b])
               PROVE  c[Attrs[b][i].name] \in Attrs[b][i].allowed
  BY DEF Included, Holds
<1>2. Attrs[b][i] \in Kept(b)
  BY KeptAttribute
<1>3. PICK k \in Kept(a) : k.name = Attrs[b][i].name /\ k.allowed \subseteq Attrs[b][i].allowed
  BY <1>2 DEF Inside, Comparable
<1>4. c[k.name] \in k.allowed
  BY <1>1, HoldsForKept
<1> QED
  BY <1>3, <1>4

(* compare(): "subset" and "equal" are inclusion of the sets of cases, for  *)
(* scopes that are typed, hold for somebody and name each dimension once    *)
(* and alike.                                                               *)
THEOREM CompareIsInclusion ==
  ASSUME NEW a \in Scopes, NEW b \in Scopes, Typed(a), Typed(b), Once(a), Once(b), Alike(a, b),
         NEW c0 \in Cases, Holds(a, c0)
  PROVE  Compare(a, b) \in {"subset", "equal"} <=> Included(a, b)
<1>1. \A s \in Universal : s \in Scopes /\ Len(Attrs[s]) = 0 /\ Kept(s) = {}
  BY ScopeAssumption DEF Kept
<1>2. \A s \in Universal : Textless(s) /\ \A c \in Cases : Holds(s, c)
  BY <1>1 DEF Textless, Holds
<1>3. ASSUME NEW s \in Scopes, Typed(s), Once(s), s \notin Universal
      PROVE  Textless(s) /\ Dims(s) # {} /\ Kept(s) # {} /\ ~Untyped(s)
  <2>1. Attrs[s] # <<>> /\ Attrs[s] \in Seq(Attribute) /\ Textless(s)
    BY <1>3, ScopeAssumption DEF Typed, Textless
  <2>2. 1 \in 1..Len(Attrs[s])
    BY <2>1
  <2>3. Kept(s) # {}
    BY <1>3, <2>2, KeptAttribute
  <2>4. Dims(s) # {}
    BY <2>2 DEF Dims
  <2>5. ~Untyped(s)
    BY <2>1, KeptAttribute DEF Untyped, Textless
  <2> QED
    BY <2>1, <2>3, <2>4, <2>5
<1>4. CASE b \in Universal
  BY <1>2, <1>4 DEF Compare, Included
<1>5. CASE a \in Universal /\ b \notin Universal
  <2>1. ~Inside(a, b)
    BY <1>1, <1>3, <1>5 DEF Inside
  <2>2. ~Included(a, b)
    BY <1>2, <1>3, <1>5, <2>1, InsideIfIncluded
  <2> QED
    BY <1>5, <2>2 DEF Compare
<1>6. CASE a \notin Universal /\ b \notin Universal
  <2>1. Textless(a) /\ Textless(b)
    BY <1>3, <1>6
  <2>2. Inside(a, b) <=> Included(a, b)
    BY <2>1, InsideIfIncluded, IncludedIfInside
  <2>3. Apart(a, b) => ~Included(a, b)
    BY ApartIsDisjoint DEF Included
  <2>4. Dims(a) # {} /\ Dims(b) # {} /\ ~Untyped(a) /\ ~Untyped(b)
    BY <1>3, <1>6
  <2> QED
    BY <1>6, <2>2, <2>3, <2>4 DEF Compare
<1> QED
  BY <1>4, <1>5, <1>6

------------------------------------------------------------------------------
(* The operations on lists of branches.                                     *)

ListOK == branches \in Lists

LEMMA Scoped ==
  ASSUME ListOK
  PROVE  /\ \A i \in Ids : branches[i] \in Branch /\ ScopeOf(i) \in Scopes
         /\ Ids \subseteq Int
<1>1. branches \in Seq(Branch)
  BY ResolutionAssumption DEF ListOK
<1>2. Ids = 1..Len(branches) /\ Len(branches) \in Nat
  BY <1>1 DEF Ids
<1>3. \A i \in Ids : branches[i] \in Branch
  BY <1>1, <1>2
<1>4. \A i \in Ids : ScopeOf(i) \in Scopes
  BY <1>3 DEF Branch, ScopeOf
<1>5. Ids \subseteq Int
  BY <1>2
<1> QED
  BY <1>3, <1>4, <1>5

(* A set of numbers has a least one. *)
LEMMA LeastExists ==
  ASSUME NEW S \in SUBSET Nat, S # {}
  PROVE  \E m \in S : \A k \in S : m <= k
<1> DEFINE R == {p \in Nat \X Nat : p[1] < p[2]}
<1>1. IsWellFoundedOn(R, Nat)
  BY NatLessThanWellFounded DEF OpToRel
<1>2. PICK m \in S : \A k \in S : <<k, m>> \notin R
  BY <1>1, WFMin
<1>3. ASSUME NEW k \in S PROVE m <= k
  <2>1. <<k, m>> \in Nat \X Nat /\ ~(<<k, m>>[1] < <<k, m>>[2])
    BY <1>2
  <2> QED
    BY <2>1
<1> QED
  BY <1>3

LEMMA FirstIsIn ==
  ASSUME ListOK, NEW I \in SUBSET Ids, I # {}
  PROVE  First(I) \in I /\ \A j \in I : First(I) <= j
<1>1. branches \in Seq(Branch)
  BY ResolutionAssumption DEF ListOK
<1>2. I \in SUBSET Nat
  BY <1>1 DEF Ids
<1> QED
  BY <1>2, LeastExists DEF First

LEMMA ListKept == Spec => []ListOK
<1>1. Init => ListOK
  BY DEF Init, ListOK
<1>2. ListOK /\ [Next]_vars => ListOK'
  BY DEF ListOK, Next, vars, Analyse, Partition, Compose, Read
<1> QED
  BY <1>1, <1>2, PTL DEF Spec

(* What another call returns is not what a property is about. *)
LEMMA Operations ==
  ASSUME [Next]_vars
  PROVE  /\ branches' = branches
         /\ result'.op = "analyse" => result' = result \/ \E i, j \in Ids : Analyse(i, j)
         /\ result'.op = "partition" => result' = result \/ Partition
         /\ result'.op = "compose" =>
              result' = result \/ \E kinds \in Judgements, winner \in Passages : Compose(kinds, winner)
         /\ result'.op = "read" => result' = result \/ \E K \in Known : Read(K)
<1>1. CASE UNCHANGED vars
  BY <1>1 DEF vars
<1>2. ASSUME NEW i \in Ids, NEW j \in Ids, Analyse(i, j)
      PROVE  result'.op = "analyse" /\ branches' = branches
  BY <1>2 DEF Analyse
<1>3. ASSUME Partition
      PROVE  result'.op \in {"partition", "too_many"} /\ branches' = branches
  BY <1>3 DEF Partition
<1>4. ASSUME NEW kinds \in Judgements, NEW winner \in Passages, Compose(kinds, winner)
      PROVE  result'.op = "compose" /\ branches' = branches
  BY <1>4 DEF Compose, Composed, Answer
<1>5. ASSUME NEW K \in Known, Read(K)
      PROVE  result'.op = "read" /\ branches' = branches
  BY <1>5 DEF Read
<1> QED
  BY <1>1, <1>2, <1>3, <1>4, <1>5 DEF Next

------------------------------------------------------------------------------
(* The order of two claims.                                                 *)

LEMMA RelationMirrors ==
  ASSUME NEW s \in Scopes, NEW t \in Scopes
  PROVE  /\ ScopeRelation(s, t) = "subset" <=> ScopeRelation(t, s) = "superset"
         /\ ScopeRelation(s, t) = "superset" <=> ScopeRelation(t, s) = "subset"
         /\ ScopeRelation(s, t) \notin {"subset", "superset"} => ScopeRelation(s, t) = ScopeRelation(t, s)
<1>1. Entailment[s][t] \in Int /\ Entailment[t][s] \in Int /\ OverlapThreshold \in Int /\ NestThreshold \in Int
  BY ResolutionAssumption
<1>2. CASE Compare(s, t) = "unknown"
  <2>1. Compare(t, s) = "unknown"
    BY <1>2, CompareMirrors
  <2> QED
    BY <1>1, <1>2, <2>1 DEF ScopeRelation
<1>3. CASE Compare(s, t) # "unknown"
  <2>1. Compare(t, s) # "unknown"
    BY <1>3, CompareMirrors
  <2>2. Compare(s, t) \in {"equal", "superset", "subset", "unknown", "disjoint", "overlapping"}
    BY DEF Compare
  <2> QED
    BY <1>3, <2>1, <2>2, CompareMirrors DEF ScopeRelation
<1> QED
  BY <1>2, <1>3

LEMMA DecisionMirrors ==
  ASSUME ListOK, NEW i \in Ids, NEW j \in Ids, branches[i].passage # branches[j].passage
  PROVE  Decide(i, j) = Decide(j, i)
<1> DEFINE rel == ScopeRelation(ScopeOf(i), ScopeOf(j))
           ler == ScopeRelation(ScopeOf(j), ScopeOf(i))
           agree == OutcomesAgree(branches[i].outcome, branches[j].outcome)
<1>1. /\ rel = "subset" <=> ler = "superset"
      /\ rel = "superset" <=> ler = "subset"
      /\ rel \notin {"subset", "superset"} => rel = ler
  BY Scoped, RelationMirrors
<1>2. agree <=> OutcomesAgree(branches[j].outcome, branches[i].outcome)
  <2>1. branches[i].outcome \in Outcomes /\ branches[j].outcome \in Outcomes
    BY Scoped DEF Branch
  <2>2. Votes[branches[i].outcome][branches[j].outcome] \in Int /\ Votes[branches[j].outcome][branches[i].outcome] \in Int
    BY <2>1, ResolutionAssumption
  <2> QED
    BY <2>2 DEF OutcomesAgree
<1>3. branches[i].passage \in Int /\ branches[j].passage \in Int
  BY Scoped, ResolutionAssumption DEF Branch
<1>4. i # j
  OBVIOUS
<1> HIDE DEF rel, ler, agree
<1>5. Combine(rel, agree) = Combine(ler, agree) /\ Canonical(rel) = Canonical(ler)
  BY <1>1 DEF Combine, Canonical
<1>6. General(rel, i, j) = General(ler, j, i) /\ General(rel, i, j) \in {i, j}
  BY <1>1, <1>3 DEF General
<1>7. Decide(i, j) = [relation |-> Combine(rel, agree), default |-> General(rel, i, j),
                      exception |-> IF General(rel, i, j) = i THEN j ELSE i, canonical |-> Canonical(rel)]
  BY DEF Decide, rel, agree
<1>8. Combine(ler, OutcomesAgree(branches[j].outcome, branches[i].outcome)) = Combine(ler, agree)
  BY <1>2 DEF Combine
<1>9. Decide(j, i) = [relation |-> Combine(ler, agree), default |-> General(ler, j, i),
                      exception |-> IF General(ler, j, i) = j THEN i ELSE j, canonical |-> Canonical(ler)]
  BY <1>8 DEF Decide, ler
<1>10. (IF General(rel, i, j) = i THEN j ELSE i) = (IF General(ler, j, i) = j THEN i ELSE j)
  BY <1>4, <1>6
<1> QED
  BY <1>5, <1>6, <1>7, <1>9, <1>10

(* order_invariance.py: swapping two claims changes nothing of the decision *)
(* on them.                                                                 *)
THEOREM OrderDoesNotMatter == Spec => []OrderInvariant
<1>1. Init => OrderInvariant
  BY DEF Init, OrderInvariant
<1>2. ASSUME ListOK, OrderInvariant, [Next]_vars
      PROVE  OrderInvariant'
  <2>1. SUFFICES ASSUME result'.op = "analyse" PROVE result'.forward = result'.backward
    BY DEF OrderInvariant
  <2>2. CASE result' = result
    BY <1>2, <2>1, <2>2 DEF OrderInvariant
  <2>3. ASSUME NEW i \in Ids, NEW j \in Ids, Analyse(i, j)
        PROVE  result'.forward = result'.backward
    BY <1>2, <2>3, DecisionMirrors DEF Analyse
  <2> QED
    BY <1>2, <2>1, <2>2, <2>3, Operations
<1> QED
  BY <1>1, <1>2, ListKept, PTL DEF Spec
------------------------------------------------------------------------------
(* The partition.                                                           *)

LEMMA FramesScoped ==
  ASSUME ListOK
  PROVE  /\ Frames \subseteq Ids
         /\ \A i \in Frames : /\ ScopeOf(i) \in Scopes
                             /\ Typed(ScopeOf(i))
                             /\ \E c \in Cases : Holds(ScopeOf(i), c)
<1>1. ASSUME NEW i \in Frames
      PROVE  i \in Ids /\ Typed(ScopeOf(i)) /\ Satisfiable({ScopeOf(i)}, {})
  BY DEF Frames, Usable, Discarded, TypedOnes
<1>2. ASSUME NEW i \in Frames
      PROVE  \E c \in Cases : Holds(ScopeOf(i), c)
  <2>1. {ScopeOf(i)} \in SUBSET Scopes /\ {} \in SUBSET Scopes
    BY <1>1, Scoped
  <2>2. \E c \in Cases : (\A s \in {ScopeOf(i)} : Holds(s, c)) /\ (\A s \in {} : ~Holds(s, c))
    BY <1>1, <2>1, SatisfiableIsExact
  <2> QED
    BY <2>2
<1> QED
  BY <1>1, <1>2, Scoped

LEMMA IdsFinite ==
  ASSUME ListOK
  PROVE  IsFiniteSet(Ids) /\ Ids \subseteq Nat \ {0}
<1>1. branches \in Seq(Branch)
  BY ResolutionAssumption DEF ListOK
<1>2. Ids = 1..Len(branches) /\ Len(branches) \in Nat
  BY <1>1 DEF Ids
<1>3. IsFiniteSet(Ids)
  BY <1>2, FS_Interval
<1>4. Ids \subseteq Nat \ {0}
  BY <1>2
<1> QED
  BY <1>3, <1>4

LEMMA FramesFinite ==
  ASSUME ListOK
  PROVE  IsFiniteSet(Frames)
BY IdsFinite, FramesScoped, FS_Subset

(* The candidates are the ways in which the frames hold for somebody. *)
LEMMA CandidatesAreCases ==
  ASSUME ListOK
  PROVE  Candidates(Frames) = {{i \in Frames : Holds(ScopeOf(i), c)} : c \in Cases}
<1> DEFINE In(I) == {ScopeOf(i) : i \in I}
           Of(c) == {i \in Frames : Holds(ScopeOf(i), c)}
<1>1. ASSUME NEW I \in SUBSET Frames
      PROVE  Satisfiable(In(I), In(Frames \ I)) <=> \E c \in Cases : I = Of(c)
  <2>1. In(I) \in SUBSET Scopes /\ In(Frames \ I) \in SUBSET Scopes
    BY FramesScoped
  <2>2. Satisfiable(In(I), In(Frames \ I)) <=>
          \E c \in Cases : (\A s \in In(I) : Holds(s, c)) /\ (\A s \in In(Frames \ I) : ~Holds(s, c))
    BY <2>1, SatisfiableIsExact
  <2>3. ASSUME NEW c \in Cases
        PROVE  (\A s \in In(I) : Holds(s, c)) /\ (\A s \in In(Frames \ I) : ~Holds(s, c)) <=> I = Of(c)
    OBVIOUS
  <2> QED
    BY <2>2, <2>3
<1>2. \A c \in Cases : Of(c) \in SUBSET Frames
  OBVIOUS
<1>3. Candidates(Frames) = {I \in SUBSET Frames : Satisfiable(In(I), In(Frames \ I))}
  BY DEF Candidates
<1> HIDE DEF In, Of
<1>4. Candidates(Frames) = {Of(c) : c \in Cases}
  BY <1>1, <1>2, <1>3
<1> QED
  BY <1>4 DEF Of

(* What a partition returns, and of which frames. *)
LEMMA PartitionReturns ==
  ASSUME Partition, result'.op = "partition"
  PROVE  /\ result'.frames = Frames
         /\ result'.regions = {Region(I) : I \in Candidates(Frames)}
         /\ result'.overridden = Overridden(Frames, {Region(I) : I \in Candidates(Frames)})
<1> DEFINE out == [op |-> "partition", frames |-> Frames, discarded |-> Discarded,
                   indeterminate |-> Ids \ (Frames \cup Discarded),
                   regions |-> {Region(I) : I \in Candidates(Frames)},
                   overridden |-> Overridden(Frames, {Region(I) : I \in Candidates(Frames)})]
<1>1. result' = [op |-> "too_many"] \/ result' = out
  BY DEF Partition
<1>2. result' = out
  BY <1>1
<1> QED
  BY <1>2

(* test_partition.py:300-318: no case is in no region, and no region is     *)
(* empty, for any scopes whatever.                                          *)
THEOREM RegionsPartition == Spec => []RegionsAreCases
<1>1. Init => RegionsAreCases
  BY DEF Init, RegionsAreCases
<1>2. ASSUME ListOK, RegionsAreCases, [Next]_vars
      PROVE  RegionsAreCases'
  <2>0. branches' = branches
    BY <1>2, Operations
  <2>1. SUFFICES ASSUME result'.op = "partition"
                 PROVE  {r.inside : r \in result'.regions} =
                          {{i \in result'.frames : Holds(ScopeOf(i), c)} : c \in Cases}
    BY <2>0 DEF RegionsAreCases, ScopeOf
  <2>2. CASE result' = result
    BY <1>2, <2>1, <2>2 DEF RegionsAreCases
  <2>3. CASE Partition
    <3>1. \A I : Region(I).inside = I
      BY DEF Region
    <3>2. {r.inside : r \in {Region(I) : I \in Candidates(Frames)}} = {Region(I).inside : I \in Candidates(Frames)}
      OBVIOUS
    <3>3. {Region(I).inside : I \in Candidates(Frames)} = Candidates(Frames)
      BY <3>1
    <3> QED
      BY <1>2, <2>1, <2>3, <3>2, <3>3, PartitionReturns, CandidatesAreCases
  <2> QED
    BY <1>2, <2>1, <2>2, <2>3, Operations
<1> QED
  BY <1>1, <1>2, ListKept, PTL DEF Spec

(* Below is strict inclusion of the sets of cases, among branches that are  *)
(* typed, hold for somebody and name each dimension once and alike; the     *)
(* frames are such branches.                                                *)
LEMMA BelowAmong ==
  ASSUME ListOK, NEW I \in SUBSET Ids, Uniform(I),
         \A i \in I : Typed(ScopeOf(i)) /\ \E c \in Cases : Holds(ScopeOf(i), c)
  PROVE  \A i, j \in I : Below(i, j) <=> Strictly(i, j)
<1> SUFFICES ASSUME NEW i \in I, NEW j \in I PROVE Below(i, j) <=> Strictly(i, j)
  OBVIOUS
<1> DEFINE s == ScopeOf(i)
           t == ScopeOf(j)
<1>1. s \in Scopes /\ t \in Scopes /\ Typed(s) /\ Typed(t)
  BY Scoped
<1>2. PICK c \in Cases : Holds(s, c)
  OBVIOUS
<1>3. PICK d \in Cases : Holds(t, d)
  OBVIOUS
<1>4. Once(s) /\ Once(t) /\ Alike(s, t) /\ Alike(t, s)
  BY DEF Uniform
<1> HIDE DEF s, t
<1>5. Contains(s, t) <=> Included(s, t)
  BY <1>1, <1>2, <1>4, CompareIsInclusion DEF Contains
<1>6. Contains(t, s) <=> Included(t, s)
  BY <1>1, <1>3, <1>4, CompareIsInclusion DEF Contains
<1>7. Included(s, t) <=> Extension[s] \subseteq Extension[t]
  BY <1>1 DEF Included, Extension
<1>8. Included(t, s) <=> Extension[t] \subseteq Extension[s]
  BY <1>1 DEF Included, Extension
<1>9. Below(i, j) <=> Contains(s, t) /\ ~Contains(t, s)
  BY DEF Below, s, t
<1>10. Strictly(i, j) <=> Extension[s] \subseteq Extension[t] /\ Extension[s] # Extension[t]
  BY DEF Strictly, s, t
<1> QED
  BY <1>5, <1>6, <1>7, <1>8, <1>9, <1>10

LEMMA BelowIsStrict ==
  ASSUME ListOK, Uniform(Frames), NEW i \in Frames, NEW j \in Frames
  PROVE  Below(i, j) <=> Strictly(i, j)
BY FramesScoped, BelowAmong

(* partition.py:20-22: specificity decides who governs a region. *)
THEOREM MostSpecificGovern == Spec => []SpecificityGoverns
<1>1. Init => SpecificityGoverns
  BY DEF Init, SpecificityGoverns
<1>2. ASSUME ListOK, SpecificityGoverns, [Next]_vars
      PROVE  SpecificityGoverns'
  <2>0. branches' = branches
    BY <1>2, Operations
  <2>1. SUFFICES ASSUME result'.op = "partition", Uniform(result'.frames)
                 PROVE  \A r \in result'.regions :
                          r.governing = {i \in r.inside : \A j \in r.inside : ~Strictly(j, i)}
    <3>1. \A i, j : Strictly(i, j)' <=> Strictly(i, j)
      BY <2>0 DEF Strictly, ScopeOf, Extension
    <3>2. Uniform(result.frames)' <=> Uniform(result'.frames)
      BY <2>0 DEF Uniform, ScopeOf
    <3> QED
      BY <3>1, <3>2 DEF SpecificityGoverns
  <2>2. CASE result' = result
    BY <1>2, <2>1, <2>2 DEF SpecificityGoverns
  <2>3. CASE Partition
    <3>1. result'.frames = Frames /\ result'.regions = {Region(I) : I \in Candidates(Frames)}
      BY <2>1, <2>3, PartitionReturns
    <3>2. ASSUME NEW I \in SUBSET Frames
          PROVE  Governing(I) = {i \in I : \A j \in I : ~Strictly(j, i)}
      BY <1>2, <2>1, <3>1, BelowIsStrict DEF Governing
    <3>3. \A I \in Candidates(Frames) : I \in SUBSET Frames
      BY DEF Candidates
    <3> QED
      BY <3>1, <3>2, <3>3 DEF Region
  <2> QED
    BY <1>2, <2>1, <2>2, <2>3, Operations
<1> QED
  BY <1>1, <1>2, ListKept, PTL DEF Spec

(* Among finitely many branches one holds for the fewest cases.  The chain  *)
(* below each is counted: the one with the shortest has nothing below it.   *)
LEMMA LeastScope ==
  ASSUME NEW B, IsFiniteSet(B), B # {}
  PROVE  \E j \in B : \A k \in B : ~Strictly(k, j)
<1> DEFINE under(j) == {k \in B : Strictly(k, j)}
           Sizes == {Cardinality(under(j)) : j \in B}
<1>1. \A j \in B : IsFiniteSet(under(j)) /\ Cardinality(under(j)) \in Nat
  BY FS_Subset, FS_CardinalityType
<1>2. Sizes \in SUBSET Nat /\ Sizes # {}
  BY <1>1
<1>3. PICK m \in Sizes : \A n \in Sizes : m <= n
  BY <1>2, LeastExists
<1>4. PICK j \in B : m = Cardinality(under(j))
  BY <1>3
<1>5. ASSUME NEW k \in B, Strictly(k, j) PROVE FALSE
  <2>1. under(k) \subseteq under(j)
    BY <1>5 DEF Strictly
  <2>2. k \in under(j) /\ k \notin under(k)
    BY <1>5 DEF Strictly
  <2>3. under(k) # under(j)
    BY <2>2
  <2>4. Cardinality(under(k)) < Cardinality(under(j))
    <3> DEFINE U == under(k)
               W == under(j)
    <3>1. IsFiniteSet(W) /\ Cardinality(W) \in Nat /\ Cardinality(U) \in Nat /\ U \in SUBSET W /\ U # W
      BY <1>1, <1>5, <2>1, <2>3
    <3> HIDE DEF U, W
    <3>2. Cardinality(U) <= Cardinality(W) /\ Cardinality(U) # Cardinality(W)
      BY <3>1, FS_Subset
    <3>3. Cardinality(U) < Cardinality(W)
      BY <3>1, <3>2
    <3> QED
      BY <3>3 DEF U, W
  <2>5. m <= Cardinality(under(k))
    BY <1>3, <1>5
  <2> QED
    BY <1>1, <1>4, <1>5, <2>4, <2>5
<1> QED
  BY <1>5

(* Proposition 3: a frame that governs nowhere is overridden, for whoever   *)
(* it holds for, by a more specific one, and none of the frames is lost.    *)
THEOREM NothingIsDeleted == Spec => []OverriddenIsCovered
<1>1. Init => OverriddenIsCovered
  BY DEF Init, OverriddenIsCovered
<1>2. ASSUME ListOK, OverriddenIsCovered, [Next]_vars
      PROVE  OverriddenIsCovered'
  <2> DEFINE Recorded(F, R, over) ==
               /\ F = DOMAIN over \cup UNION {r.governing : r \in R}
               /\ \A i \in DOMAIN over : \A c \in Extension[ScopeOf(i)] :
                    \E j \in over[i] : Holds(ScopeOf(j), c) /\ Strictly(j, i)
  <2>0. branches' = branches
    BY <1>2, Operations
  <2>1. SUFFICES ASSUME result'.op = "partition", Uniform(result'.frames)
                 PROVE  Recorded(result'.frames, result'.regions, result'.overridden)
    <3>1. \A i, j : Strictly(i, j)' <=> Strictly(i, j)
      BY <2>0 DEF Strictly, ScopeOf, Extension
    <3>2. Uniform(result.frames)' <=> Uniform(result'.frames)
      BY <2>0 DEF Uniform, ScopeOf
    <3>3. \A i : ScopeOf(i)' = ScopeOf(i)
      BY <2>0 DEF ScopeOf
    <3>4. Extension' = Extension
      BY DEF Extension
    <3> QED
      BY <3>1, <3>2, <3>3, <3>4 DEF OverriddenIsCovered
  <2>2. CASE result' = result
    BY <1>2, <2>1, <2>2 DEF OverriddenIsCovered
  <2>3. CASE Partition
    <3> DEFINE R == {Region(I) : I \in Candidates(Frames)}
               G == UNION {r.governing : r \in R}
               over == Overridden(Frames, R)
               Of(c) == {k \in Frames : Holds(ScopeOf(k), c)}
    <3>1. result'.frames = Frames /\ result'.regions = R /\ result'.overridden = over
      BY <2>1, <2>3, PartitionReturns
    <3>2. DOMAIN over = {j \in Frames : \A r \in R : j \notin r.governing}
      BY DEF Overridden
    <3>3. ASSUME NEW r \in R PROVE r.governing \subseteq Frames
      <4>1. PICK I \in Candidates(Frames) : r = Region(I)
        OBVIOUS
      <4>2. r.governing = Governing(I)
        BY <4>1 DEF Region
      <4>3. I \subseteq Frames
        BY DEF Candidates
      <4> QED
        BY <4>2, <4>3 DEF Governing
    <3>4. Frames = DOMAIN over \cup G
      BY <3>2, <3>3
    <3>5. ASSUME NEW i \in DOMAIN over, NEW c \in Extension[ScopeOf(i)]
          PROVE  \E j \in over[i] : Holds(ScopeOf(j), c) /\ Strictly(j, i)
      <4>1. i \in Frames /\ ScopeOf(i) \in Scopes
        BY <1>2, <3>2, <3>5, FramesScoped
      <4>2. c \in Cases /\ Holds(ScopeOf(i), c)
        BY <3>5, <4>1 DEF Extension
      <4>3. i \in Of(c) /\ Of(c) \in Candidates(Frames)
        BY <1>2, <4>1, <4>2, CandidatesAreCases
      <4>4. Region(Of(c)) \in R /\ Region(Of(c)).inside = Of(c)
            /\ Region(Of(c)).governing = Governing(Of(c))
        BY <4>3 DEF Region
      <4>5. i \notin Governing(Of(c))
        BY <3>2, <3>5, <4>4
      <4>6. over[i] = UNION {r.governing : r \in {q \in R : i \in q.inside}}
        BY <3>2, <3>5 DEF Overridden
      <4>7. Governing(Of(c)) \subseteq over[i]
        BY <4>3, <4>4, <4>6
      <4> DEFINE B == {k \in Of(c) : Strictly(k, i)}
      <4>8. \A k \in Of(c), l \in Of(c) : Below(k, l) <=> Strictly(k, l)
        BY <1>2, <2>1, <3>1, BelowIsStrict
      <4>9. B # {}
        BY <4>3, <4>5, <4>8 DEF Governing
      <4>10. IsFiniteSet(B)
        BY <1>2, FramesFinite, FS_Subset
      <4>11. PICK j \in B : \A k \in B : ~Strictly(k, j)
        BY <4>9, <4>10, LeastScope
      <4>12. \A k \in Of(c) : ~Strictly(k, j)
        BY <4>11 DEF Strictly
      <4>13. j \in Governing(Of(c))
        BY <4>8, <4>12 DEF Governing
      <4> QED
        BY <4>7, <4>13
    <3> QED
      BY <3>1, <3>4, <3>5
  <2> QED
    BY <1>2, <2>1, <2>2, <2>3, Operations
<1> QED
  BY <1>1, <1>2, ListKept, PTL DEF Spec

------------------------------------------------------------------------------
(* The composition.                                                         *)

LEMMA ComposeReturns ==
  ASSUME NEW kinds, NEW winner, Compose(kinds, winner), result'.resolution = "composed"
  PROVE  /\ result'.kept \in {Ids, Merged}
         /\ Flags(result'.kept) = {}
BY DEF Compose, Composed, Answer

(* A pair that holds for one case and disagrees is flagged. *)
LEMMA DisagreementIsFlagged ==
  ASSUME ListOK, NEW i \in Ids, NEW j \in Ids, Typed(ScopeOf(i)), Typed(ScopeOf(j)), Both(i, j),
         Flag(i, j) = "none"
  PROVE  <<branches[i].outcome, branches[j].outcome>> \in OutcomesMatch
<1>1. ScopeOf(i) \in Scopes /\ ScopeOf(j) \in Scopes
  BY Scoped
<1>2. PICK c \in Cases : Holds(ScopeOf(i), c) /\ Holds(ScopeOf(j), c)
  BY <1>1 DEF Both, Extension
<1>3. Compare(ScopeOf(i), ScopeOf(j)) \notin {"disjoint", "unknown"}
  BY <1>1, <1>2, CommonCaseIsSeen
<1> QED
  BY <1>3 DEF Flag

(* operator.py:311-313: a composed answer does not contradict itself for    *)
(* anybody, whatever the scopes and the judgements of the pairs.            *)
THEOREM ComposedHoldsTogether == Spec => []ComposedConsistent
<1>1. Init => ComposedConsistent
  BY DEF Init, ComposedConsistent
<1>2. ASSUME ListOK, ComposedConsistent, [Next]_vars
      PROVE  ComposedConsistent'
  <2>0. branches' = branches
    BY <1>2, Operations
  <2>1. SUFFICES ASSUME result'.op = "compose", result'.resolution = "composed",
                        NEW i \in Exceptions(result'.kept), NEW j \in Exceptions(result'.kept),
                        i < j, Typed(ScopeOf(i)), Typed(ScopeOf(j)), Both(i, j)
                 PROVE  <<branches[i].outcome, branches[j].outcome>> \in OutcomesMatch
    BY <2>0 DEF ComposedConsistent, Exceptions, Both, IsDefault, ScopeOf
  <2>2. CASE result' = result
    BY <1>2, <2>1, <2>2 DEF ComposedConsistent
  <2>3. ASSUME NEW kinds \in Judgements, NEW winner \in Passages, Compose(kinds, winner)
        PROVE  <<branches[i].outcome, branches[j].outcome>> \in OutcomesMatch
    <3>1. result'.kept \in {Ids, Merged} /\ Flags(result'.kept) = {}
      BY <2>1, <2>3, ComposeReturns
    <3>2. Defaults # {} => First(Defaults) \in Ids
      BY <1>2, FirstIsIn DEF Defaults
    <3>3. Merged \subseteq Ids
      BY <3>2 DEF Merged, Exceptions
    <3>4. i \in Ids /\ j \in Ids
      BY <2>1, <3>1, <3>3 DEF Exceptions
    <3>5. <<i, j>> \in {q \in Exceptions(result'.kept) \X Exceptions(result'.kept) : q[1] < q[2]}
      BY <2>1
    <3>6. Flag(<<i, j>>[1], <<i, j>>[2]) = "none"
      BY <3>1, <3>5 DEF Flags
    <3>7. Flag(i, j) = "none"
      BY <3>6
    <3> QED
      BY <1>2, <2>1, <3>4, <3>7, DisagreementIsFlagged
  <2> QED
    BY <1>2, <2>1, <2>2, <2>3, Operations
<1> QED
  BY <1>1, <1>2, ListKept, PTL DEF Spec

------------------------------------------------------------------------------
(* The branch for a reader.                                                 *)

(* A reader who filled in every dimension is in the branches that hold for  *)
(* his case, where what a branch says is typed and no Boolean.              *)
LEMMA SatisfiesIsHolds ==
  ASSUME NEW s \in Scopes, NEW c \in Cases, Typed(s),
         \A k \in DOMAIN Attrs[s] : Attrs[s][k].kind # "boolean"
  PROVE  Satisfies(s, c, Names) <=> Holds(s, c)
<1>1. Attrs[s] \in Seq(Attribute) /\ DOMAIN Attrs[s] = 1..Len(Attrs[s])
  BY ScopeAssumption
<1>2. CASE s \in Universal
  BY <1>2, ScopeAssumption DEF Satisfies, Holds
<1>3. CASE s \notin Universal
  <2>1. Attrs[s] # <<>> /\ \A i \in 1..Len(Attrs[s]) : Attrs[s][i].kind # "free_text"
    BY <1>3 DEF Typed
  <2>2. \A i \in 1..Len(Attrs[s]) : /\ Attrs[s][i].name \in Names
                                    /\ Attrs[s][i].kind \in {"categorical", "ordered_tier", "numeric_range"}
    BY <1>1, <2>1, AttributeType DEF Attribute, Kinds
  <2> QED
    BY <1>1, <1>3, <2>1, <2>2 DEF Satisfies, Holds
<1> QED
  BY <1>2, <1>3

(* The first exception that holds for a case and the most specific one are  *)
(* the same or agree; without an exception the first default governs.       *)
LEMMA ReaderGetsGoverning ==
  ASSUME ListOK, Flags(Ids) = {}, Uniform(Ids),
         \A i \in Ids : Typed(ScopeOf(i)) /\ ~Boolean(i),
         NEW c \in Cases
  PROVE  LET b == BranchFor(c, Names) G == Governing({i \in Ids : Holds(ScopeOf(i), c)}) IN
           IF b = 0 THEN G = {}
           ELSE \E g \in G : \/ b = g
                             \/ <<branches[First({b, g})].outcome,
                                  branches[IF First({b, g}) = b THEN g ELSE b].outcome>> \in OutcomesMatch
<1> DEFINE I == {i \in Ids : Holds(ScopeOf(i), c)}
           E == {i \in I : ~IsDefault(i)}
           b == BranchFor(c, Names)
           G == Governing(I)
           Agree(g) == \/ b = g
                       \/ <<branches[First({b, g})].outcome,
                            branches[IF First({b, g}) = b THEN g ELSE b].outcome>> \in OutcomesMatch
<1>1. Applies(c, Names) = E
  <2>1. \A i \in Ids : ScopeOf(i) \in Scopes /\ (Satisfies(ScopeOf(i), c, Names) <=> Holds(ScopeOf(i), c))
    BY Scoped, SatisfiesIsHolds DEF Boolean
  <2> QED
    BY <2>1 DEF Applies
<1>2. E \subseteq Ids /\ Defaults \subseteq Ids /\ Ids \subseteq Nat \ {0} /\ IsFiniteSet(E)
  BY IdsFinite, FS_Subset DEF Defaults
<1>3. \A i \in Defaults : i \in I /\ ScopeOf(i) \in Scopes /\ Extension[ScopeOf(i)] = Cases
  BY Scoped, ScopeAssumption DEF Defaults, IsDefault, Holds, Extension
<1>4. \A i \in I : i \in E \/ i \in Defaults
  BY DEF Defaults
<1>5. \A i, j \in I : Below(i, j) <=> Strictly(i, j)
  <2>1. I \in SUBSET Ids /\ Uniform(I)
    BY DEF Uniform
  <2> QED
    BY <2>1, BelowAmong
<1>6. CASE E # {}
  <2>1. b = First(E)
    BY <1>1, <1>6 DEF BranchFor
  <2> HIDE DEF b
  <2>2. b \in E /\ \A j \in E : b <= j
    BY <1>2, <1>6, <2>1, FirstIsIn
  <2>3. PICK g \in E : \A k \in E : ~Strictly(k, g)
    BY <1>2, <1>6, LeastScope
  <2>4. \A k \in Defaults : ~Strictly(k, g)
    <3>1. Extension[ScopeOf(g)] \subseteq Cases
      BY <1>2, Scoped DEF Extension
    <3> QED
      BY <1>3, <3>1 DEF Strictly
  <2>5. g \in G
    BY <1>4, <1>5, <2>3, <2>4 DEF Governing
  <2>6. b # g => First({b, g}) = b
    <3>1. {b, g} \in SUBSET Ids /\ b \in Nat /\ g \in Nat /\ b <= g
      BY <1>2, <2>2
    <3>2. First({b, g}) \in {b, g} /\ First({b, g}) <= b
      BY <3>1, FirstIsIn
    <3> QED
      BY <3>1, <3>2
  <2>7. ASSUME b # g
        PROVE  <<branches[b].outcome, branches[g].outcome>> \in OutcomesMatch
    <3>1. b \in Ids /\ g \in Ids /\ b < g
      BY <1>2, <2>2, <2>7
    <3>2. <<b, g>> \in {q \in Exceptions(Ids) \X Exceptions(Ids) : q[1] < q[2]}
      BY <2>2, <3>1 DEF Exceptions
    <3>3. Flag(<<b, g>>[1], <<b, g>>[2]) = "none"
      BY <3>2 DEF Flags
    <3>4. Flag(b, g) = "none"
      BY <3>3
    <3>5. Both(b, g)
      <4>1. Holds(ScopeOf(b), c) /\ Holds(ScopeOf(g), c) /\ ScopeOf(b) \in Scopes /\ ScopeOf(g) \in Scopes
        BY <2>2, <3>1, Scoped
      <4>2. c \in Extension[ScopeOf(b)] /\ c \in Extension[ScopeOf(g)]
        BY <4>1 DEF Extension
      <4> QED
        BY <4>2 DEF Both
    <3> QED
      BY <3>1, <3>4, <3>5, DisagreementIsFlagged
  <2>8. Agree(g)
    BY <2>6, <2>7
  <2>9. b # 0
    BY <1>2, <2>2
  <2> QED
    BY <2>5, <2>8, <2>9 DEF b
<1>7. CASE E = {} /\ Defaults # {}
  <2>1. b = First(Defaults)
    BY <1>1, <1>7 DEF BranchFor
  <2> HIDE DEF b
  <2>2. b \in Defaults
    BY <1>2, <1>7, <2>1, FirstIsIn
  <2>3. \A j \in I : Extension[ScopeOf(j)] = Extension[ScopeOf(b)]
    BY <1>3, <1>4, <1>7, <2>2
  <2>4. \A j \in I : ~Below(j, b)
    BY <1>3, <1>5, <2>2, <2>3 DEF Strictly
  <2>5. b \in G
    BY <1>3, <2>2, <2>4 DEF Governing
  <2>6. b # 0
    BY <1>2, <2>2
  <2> QED
    BY <2>5, <2>6 DEF b
<1>8. CASE E = {} /\ Defaults = {}
  <2>1. b = 0
    BY <1>1, <1>8 DEF BranchFor
  <2>2. I = {}
    BY <1>4, <1>8
  <2>3. G = {}
    BY <2>2 DEF Governing
  <2> QED
    BY <2>1, <2>3
<1> QED
  BY <1>6, <1>7, <1>8

(* service/branches.py and composition/partition.py answer a reader alike:  *)
(* the branch he is shown governs his case or says the same as one that     *)
(* does, for any list whose exceptions do not disagree.                     *)
THEOREM ReaderAgreesWithPartition == Spec => []ReaderAgrees
<1>1. Init => ReaderAgrees
  BY DEF Init, ReaderAgrees
<1>2. ASSUME ListOK, ReaderAgrees, [Next]_vars
      PROVE  ReaderAgrees'
  <2> DEFINE Fits(c, b) ==
               LET G == Governing({i \in Ids : Holds(ScopeOf(i), c)}) IN
               IF b = 0 THEN G = {}
               ELSE \E g \in G : \/ b = g
                                 \/ <<branches[First({b, g})].outcome,
                                      branches[IF First({b, g}) = b THEN g ELSE b].outcome>> \in OutcomesMatch
             Plain == Flags(Ids) = {} /\ Uniform(Ids) /\ \A i \in Ids : Typed(ScopeOf(i)) /\ ~Boolean(i)
  <2>0. branches' = branches
    BY <1>2, Operations
  <2>1. SUFFICES ASSUME result'.op = "read", result'.known = Names, Plain
                 PROVE  \A c \in Cases : Fits(c, result'.branch[c])
    <3>1. Ids' = Ids /\ \A i : ScopeOf(i)' = ScopeOf(i)
      BY <2>0 DEF Ids, ScopeOf
    <3>2. \A J : Governing(J)' = Governing(J)
      BY <3>1 DEF Governing, Below
    <3>3. Flags(Ids)' = Flags(Ids)
      <4>1. \A i, j : Flag(i, j)' = Flag(i, j)
        BY <2>0, <3>1 DEF Flag
      <4>2. Exceptions(Ids)' = Exceptions(Ids)
        BY <3>1 DEF Exceptions, IsDefault
      <4> QED
        BY <4>1, <4>2 DEF Flags
    <3>4. Uniform(Ids)' <=> Uniform(Ids)
      BY <3>1 DEF Uniform
    <3>5. \A i : Boolean(i)' <=> Boolean(i)
      BY <3>1 DEF Boolean
    <3> QED
      BY <2>0, <3>1, <3>2, <3>3, <3>4, <3>5 DEF ReaderAgrees
  <2>2. CASE result' = result
    BY <1>2, <2>1, <2>2 DEF ReaderAgrees
  <2>3. ASSUME NEW K \in Known, Read(K)
        PROVE  \A c \in Cases : Fits(c, result'.branch[c])
    <3>1. result' = [op |-> "read", known |-> K, branch |-> [c \in Cases |-> BranchFor(c, K)]]
      BY <2>3 DEF Read
    <3>2. K = Names
      BY <2>1, <3>1
    <3>3. \A c \in Cases : result'.branch[c] = BranchFor(c, Names)
      BY <3>1, <3>2
    <3>4. \A c \in Cases : Fits(c, BranchFor(c, Names))
      BY <1>2, <2>1, ReaderGetsGoverning
    <3> HIDE DEF Fits
    <3> QED
      BY <3>3, <3>4
  <2> QED
    BY <1>2, <2>1, <2>2, <2>3, Operations
<1> QED
  BY <1>1, <1>2, ListKept, PTL DEF Spec

------------------------------------------------------------------------------
(* A finite set as a list, and the elements of a list at some positions.    *)

(* An order of the members of S, each of them up to itself.                 *)
Orders(order, S) ==
  /\ \A x, y \in S : <<x, y>> \in order \/ <<y, x>> \in order
  /\ \A x, y \in S : <<x, y>> \in order /\ <<y, x>> \in order => x = y
  /\ \A x, y, z \in S : <<x, y>> \in order /\ <<y, z>> \in order => <<x, z>> \in order

UpTo(x, S, order) == {y \in S : <<y, x>> \in order}

(* s lists the members of S, each of them once.                             *)
ListsAll(s, S) ==
  /\ IsFiniteSet(S) /\ Cardinality(S) \in Nat
  /\ s \in [1..Cardinality(S) -> S]
  /\ \A x \in S : \E n \in 1..Cardinality(S) : s[n] = x
  /\ \A m, n \in 1..Cardinality(S) : s[m] = s[n] => m = n

(* There are more members up to a later one.                                *)
LEMMA LaterHasMore ==
  ASSUME NEW S, IsFiniteSet(S), NEW order, Orders(order, S),
         NEW x \in S, NEW y \in S, x # y, <<x, y>> \in order
  PROVE  Cardinality(UpTo(x, S, order)) < Cardinality(UpTo(y, S, order))
<1>1. UpTo(x, S, order) \subseteq UpTo(y, S, order) /\ UpTo(y, S, order) \subseteq S
  BY DEF Orders, UpTo
<1>2. y \in UpTo(y, S, order) /\ y \notin UpTo(x, S, order)
  BY DEF Orders, UpTo
<1>3. IsFiniteSet(UpTo(y, S, order))
  BY <1>1, FS_Subset
<1>4. /\ IsFiniteSet(UpTo(x, S, order))
      /\ Cardinality(UpTo(x, S, order)) <= Cardinality(UpTo(y, S, order))
      /\ Cardinality(UpTo(y, S, order)) = Cardinality(UpTo(x, S, order)) => UpTo(y, S, order) = UpTo(x, S, order)
  BY <1>1, <1>3, FS_Subset
<1>5. Cardinality(UpTo(y, S, order)) \in Nat /\ Cardinality(UpTo(x, S, order)) \in Nat
  BY <1>3, <1>4, FS_CardinalityType
<1> QED
  BY <1>2, <1>4, <1>5

LEMMA ListedIs ==
  ASSUME NEW S, IsFiniteSet(S), NEW order, Orders(order, S)
  PROVE  ListsAll(Listed(S, order), S)
<1> DEFINE n == Cardinality(S)
           place == [x \in S |-> Cardinality(UpTo(x, S, order))]
<1>1. n \in Nat /\ IsFiniteSet(1..n) /\ Cardinality(1..n) = n
  <2>1. n \in Nat /\ n \in Int
    BY FS_CardinalityType
  <2>2. IsFiniteSet(1..n) /\ Cardinality(1..n) = IF 1 > n THEN 0 ELSE n - 1 + 1
    BY <2>1, FS_Interval
  <2> QED
    BY <2>1, <2>2
<1>2. ASSUME NEW x \in S PROVE place[x] \in 1..n
  <2>1. UpTo(x, S, order) \subseteq S /\ x \in UpTo(x, S, order)
    BY DEF Orders, UpTo
  <2>2. /\ IsFiniteSet(UpTo(x, S, order))
        /\ Cardinality(UpTo(x, S, order)) <= n
    BY <2>1, FS_Subset
  <2>3. Cardinality(UpTo(x, S, order)) \in Nat /\ Cardinality(UpTo(x, S, order)) # 0
    BY <2>1, <2>2, FS_CardinalityType, FS_EmptySet
  <2> HIDE DEF n
  <2> QED
    BY <1>1, <2>2, <2>3
<1>3. ASSUME NEW x \in S, NEW y \in S, x # y PROVE place[x] # place[y]
  <2>1. <<x, y>> \in order \/ <<y, x>> \in order
    BY DEF Orders
  <2>2. place[x] < place[y] \/ place[y] < place[x]
    BY <1>3, <2>1, LaterHasMore
  <2>3. place[x] \in Nat /\ place[y] \in Nat
    BY <1>1, <1>2
  <2> HIDE DEF place
  <2> QED
    BY <2>2, <2>3
<1>4. \A i \in 1..n : \E x \in S : place[x] = i
  <2>1. place \in Injection(S, 1..n)
    <3>1. place \in [S -> 1..n]
      BY <1>2
    <3> HIDE DEF place, n
    <3> QED
      BY <1>3, <3>1 DEF Injection, IsInjective
  <2> HIDE DEF place
  <2>2. place \in Surjection(S, 1..n)
    BY <1>1, <2>1, FS_Injection
  <2> QED
    BY <2>2 DEF Surjection
<1>5. Listed(S, order) = [i \in 1..n |-> CHOOSE x \in S : place[x] = i]
  <2>1. \A x \in S : place[x] = Cardinality({y \in S : <<y, x>> \in order})
    BY DEF UpTo
  <2> HIDE DEF place
  <2>2. ASSUME NEW i \in 1..n
        PROVE  (CHOOSE x \in S : place[x] = i) = CHOOSE x \in S : Cardinality({y \in S : <<y, x>> \in order}) = i
    BY <2>1
  <2> QED
    BY <2>2 DEF Listed
<1> HIDE DEF place
<1>6. ASSUME NEW i \in 1..n PROVE Listed(S, order)[i] \in S /\ place[Listed(S, order)[i]] = i
  BY <1>4, <1>5
<1>7. ASSUME NEW x \in S PROVE \E i \in 1..n : Listed(S, order)[i] = x
  BY <1>2, <1>3, <1>6
<1>8. ASSUME NEW i \in 1..n, NEW j \in 1..n, Listed(S, order)[i] = Listed(S, order)[j] PROVE i = j
  BY <1>6, <1>8
<1>9. Listed(S, order) \in [1..n -> S]
  BY <1>5, <1>6
<1> QED
  BY <1>1, <1>7, <1>8, <1>9 DEF ListsAll

(* Positions in their order.                                                *)
LEMMA InTurnIs ==
  ASSUME NEW n \in Nat, NEW I \in SUBSET (1..n)
  PROVE  ListsAll(InTurn(I), I)
<1> DEFINE order == {p \in I \X I : p[1] <= p[2]}
<1>1. I \subseteq Nat /\ \A x, y \in I : <<x, y>> \in order <=> x <= y
  OBVIOUS
<1>2. IsFiniteSet(I)
  <2>1. IsFiniteSet(1..n)
    <3>1. 1 \in Int /\ n \in Int
      OBVIOUS
    <3> QED
      BY <3>1, FS_Interval
  <2> QED
    BY <2>1, FS_Subset
<1> HIDE DEF order
<1>3. Orders(order, I)
  <2>1. \A x, y \in I : x <= y \/ y <= x
    BY <1>1
  <2>2. \A x, y \in I : x <= y /\ y <= x => x = y
    BY <1>1
  <2>3. \A x, y, z \in I : x <= y /\ y <= z => x <= z
    BY <1>1
  <2> QED
    BY <1>1, <2>1, <2>2, <2>3 DEF Orders
<1>4. ListsAll(Listed(I, order), I)
  BY <1>2, <1>3, ListedIs
<1> QED
  BY <1>4 DEF InTurn, order

(* What is kept of a list: the elements at these positions, each once.      *)
LEMMA KeepIs ==
  ASSUME NEW T, NEW list \in Seq(T), NEW I \in SUBSET DOMAIN list
  PROVE  /\ IsFiniteSet(I) /\ Cardinality(I) \in Nat
         /\ Keep(list, I) \in Seq(T) /\ Len(Keep(list, I)) = Cardinality(I)
         /\ ListsAll(InTurn(I), I)
         /\ \A n \in 1..Cardinality(I) : Keep(list, I)[n] = list[InTurn(I)[n]]
<1> DEFINE m == Len(list)
           b == InTurn(I)
           c == Cardinality(I)
<1>1. m \in Nat /\ DOMAIN list = 1..m /\ \A i \in 1..m : list[i] \in T
  OBVIOUS
<1> HIDE DEF m
<1>2. ListsAll(b, I)
  BY <1>1, InTurnIs
<1> HIDE DEF b
<1>3. IsFiniteSet(I) /\ c \in Nat /\ b \in [1..c -> I]
  BY <1>2 DEF ListsAll
<1> HIDE DEF c
<1>4. Keep(list, I) = [n \in 1..c |-> list[b[n]]]
  BY DEF Keep, b, c
<1>5. \A n \in 1..c : list[b[n]] \in T
  BY <1>1, <1>3
<1>6. Keep(list, I) \in [1..c -> T]
  BY <1>4, <1>5
<1>7. Keep(list, I) \in Seq(T) /\ Len(Keep(list, I)) = c
  BY <1>3, <1>6
<1> QED
  BY <1>2, <1>3, <1>4, <1>7 DEF b, c

------------------------------------------------------------------------------
LEMMA ElementOf == ASSUME NEW T, NEW s \in Seq(T), NEW i \in DOMAIN s PROVE s[i] \in T
  OBVIOUS

(* Taxonomies: to be at least as general is an order in which the values    *)
(* above one are a chain.                                                   *)

LEMMA AncestorsAre ==
  ASSUME NEW s \in Slots, NEW v \in DOMAIN Parent[s]
  PROVE  /\ Ancestors[s][v] \subseteq DOMAIN Parent[s]
         /\ v \in Ancestors[s][v]
         /\ Upward(s, Ancestors[s][v])
         /\ \A C \in SUBSET DOMAIN Parent[s] : v \in C /\ Upward(s, C) => Ancestors[s][v] \subseteq C
<1>1. \A w \in DOMAIN Parent[s] : Parent[s][w] \in DOMAIN Parent[s] \cup {Top}
  BY SignatureAssumption DEF Valid
<1>2. Ancestors[s][v] =
        {w \in DOMAIN Parent[s] : \A C \in SUBSET DOMAIN Parent[s] : v \in C /\ Upward(s, C) => w \in C}
  BY DEF Ancestors
<1>3. ASSUME NEW w \in Ancestors[s][v], Parent[s][w] # Top PROVE Parent[s][w] \in Ancestors[s][v]
  <2>1. Parent[s][w] \in DOMAIN Parent[s]
    BY <1>1, <1>2, <1>3
  <2>2. ASSUME NEW C \in SUBSET DOMAIN Parent[s], v \in C, Upward(s, C) PROVE Parent[s][w] \in C
    BY <1>2, <1>3, <2>2 DEF Upward
  <2> QED
    BY <1>2, <2>1, <2>2
<1>4. Upward(s, Ancestors[s][v])
  BY <1>3 DEF Upward
<1> QED
  BY <1>2, <1>4

(* A value's ancestors are itself and those of its parent.                  *)
LEMMA AncestorsStep ==
  ASSUME NEW s \in Slots, NEW v \in DOMAIN Parent[s]
  PROVE  /\ IsRoot(s, v) => Ancestors[s][v] = {v}
         /\ ~IsRoot(s, v) => /\ Parent[s][v] \in DOMAIN Parent[s]
                             /\ Ancestors[s][v] = {v} \cup Ancestors[s][Parent[s][v]]
<1>1. \A w \in DOMAIN Parent[s] : Parent[s][w] \in DOMAIN Parent[s] \cup {Top}
  BY SignatureAssumption DEF Valid
<1>2. v \in Ancestors[s][v] /\ Upward(s, Ancestors[s][v])
  BY AncestorsAre
<1>3. ASSUME IsRoot(s, v) PROVE Ancestors[s][v] = {v}
  <2>1. Upward(s, {v})
    BY <1>3 DEF Upward, IsRoot
  <2>2. {v} \in SUBSET DOMAIN Parent[s]
    OBVIOUS
  <2>3. Ancestors[s][v] \subseteq {v}
    BY <2>1, <2>2, AncestorsAre
  <2> QED
    BY <1>2, <2>3
<1>4. ASSUME ~IsRoot(s, v)
      PROVE  Parent[s][v] \in DOMAIN Parent[s] /\ Ancestors[s][v] = {v} \cup Ancestors[s][Parent[s][v]]
  <2>1. Parent[s][v] \in DOMAIN Parent[s] /\ Parent[s][v] # Top
    BY <1>1, <1>4 DEF IsRoot
  <2>2. PICK p \in DOMAIN Parent[s] : p = Parent[s][v]
    BY <2>1
  <2>3. /\ Ancestors[s][p] \subseteq DOMAIN Parent[s] /\ p \in Ancestors[s][p]
        /\ Upward(s, Ancestors[s][p])
    BY AncestorsAre
  <2>4. Upward(s, {v} \cup Ancestors[s][p])
    BY <2>2, <2>3 DEF Upward
  <2>5. {v} \cup Ancestors[s][p] \in SUBSET DOMAIN Parent[s] /\ v \in {v} \cup Ancestors[s][p]
    BY <2>3
  <2>6. Ancestors[s][v] \subseteq {v} \cup Ancestors[s][p]
    BY <2>4, <2>5, AncestorsAre
  <2>7. p \in Ancestors[s][v]
    BY <1>2, <2>1, <2>2 DEF Upward
  <2>8. Ancestors[s][v] \in SUBSET DOMAIN Parent[s]
    BY AncestorsAre
  <2>9. Ancestors[s][p] \subseteq Ancestors[s][v]
    BY <1>2, <2>7, <2>8, AncestorsAre
  <2> QED
    BY <1>2, <2>1, <2>2, <2>6, <2>9
<1> QED
  BY <1>3, <1>4

LEMMA LeqReflexive == ASSUME NEW s \in Slots, NEW v \in DOMAIN Parent[s] PROVE Leq(s, v, v)
BY AncestorsAre DEF Leq

LEMMA LeqTransitive ==
  ASSUME NEW s \in Slots, NEW u \in DOMAIN Parent[s], NEW v \in DOMAIN Parent[s], NEW w \in DOMAIN Parent[s],
         Leq(s, u, v), Leq(s, v, w)
  PROVE  Leq(s, u, w)
<1>1. Ancestors[s][u] \in SUBSET DOMAIN Parent[s] /\ Upward(s, Ancestors[s][u])
  BY AncestorsAre
<1>2. v \in Ancestors[s][u]
  BY DEF Leq
<1>3. Ancestors[s][v] \subseteq Ancestors[s][u]
  BY <1>1, <1>2, AncestorsAre
<1> QED
  BY <1>3 DEF Leq

(* Two values above a third are in line.                                    *)
LEMMA LeqChain ==
  ASSUME NEW s \in Slots, NEW v \in DOMAIN Parent[s], NEW x \in DOMAIN Parent[s], NEW y \in DOMAIN Parent[s],
         Leq(s, v, x), Leq(s, v, y)
  PROVE  Leq(s, x, y) \/ Leq(s, y, x)
<1> DEFINE C == {w \in DOMAIN Parent[s] : Leq(s, w, x) \/ Leq(s, x, w)}
<1>1. v \in C /\ C \in SUBSET DOMAIN Parent[s]
  OBVIOUS
<1>2. ASSUME NEW w \in C, Parent[s][w] # Top PROVE Parent[s][w] \in C
  <2>1. /\ Parent[s][w] \in DOMAIN Parent[s]
        /\ Ancestors[s][w] = {w} \cup Ancestors[s][Parent[s][w]]
    BY <1>2, AncestorsStep DEF IsRoot
  <2>2. x \in DOMAIN Parent[s] /\ Upward(s, Ancestors[s][x]) /\ x \in Ancestors[s][x]
    BY AncestorsAre
  <2>3. CASE Leq(s, x, w)
    <3>1. Parent[s][w] \in Ancestors[s][x]
      BY <1>2, <2>2, <2>3 DEF Leq, Upward
    <3> QED
      BY <2>1, <3>1 DEF Leq
  <2>4. CASE Leq(s, w, x) /\ ~Leq(s, x, w)
    <3>1. x # w
      BY <2>2, <2>4 DEF Leq
    <3>2. x \in Ancestors[s][Parent[s][w]]
      BY <2>1, <2>4, <3>1 DEF Leq
    <3> QED
      BY <2>1, <3>2 DEF Leq
  <2> QED
    BY <1>2, <2>3, <2>4
<1>3. Upward(s, C)
  BY <1>2 DEF Upward
<1>4. Ancestors[s][v] \subseteq C
  BY <1>1, <1>3, AncestorsAre
<1>5. y \in C
  BY <1>4 DEF Leq
<1> QED
  BY <1>5

(* No two values are above each other: what is on a cycle has no top.       *)
LEMMA LeqAntisymmetric ==
  ASSUME NEW s \in Slots, NEW u \in DOMAIN Parent[s], NEW v \in DOMAIN Parent[s], Leq(s, u, v), Leq(s, v, u)
  PROVE  u = v
<1>1. SUFFICES ASSUME u # v PROVE FALSE
  OBVIOUS
<1> DEFINE C == {w \in DOMAIN Parent[s] : Leq(s, w, v)}
<1>2. v \in C /\ C \in SUBSET DOMAIN Parent[s]
  BY LeqReflexive
<1>3. ASSUME NEW w \in C, Parent[s][w] # Top PROVE Parent[s][w] \in C
  <2>1. /\ Parent[s][w] \in DOMAIN Parent[s]
        /\ Ancestors[s][w] = {w} \cup Ancestors[s][Parent[s][w]]
    BY <1>3, AncestorsStep DEF IsRoot
  <2>2. CASE w # v
    BY <1>3, <2>1, <2>2 DEF Leq
  <2>3. CASE w = v
    <3>1. u \in Ancestors[s][Parent[s][w]]
      BY <1>1, <2>1, <2>3 DEF Leq
    <3>2. Leq(s, Parent[s][w], u)
      BY <3>1 DEF Leq
    <3>3. Leq(s, Parent[s][w], v)
      BY <2>1, <3>2, LeqTransitive
    <3> QED
      BY <2>1, <3>3
  <2> QED
    BY <2>2, <2>3
<1>4. Upward(s, C)
  BY <1>3 DEF Upward
<1>5. Ancestors[s][v] \subseteq C
  BY <1>2, <1>4, AncestorsAre
<1>6. PICK top \in DOMAIN Parent[s] : IsRoot(s, top) /\ Leq(s, v, top)
  BY SignatureAssumption DEF Valid
<1>7. Leq(s, top, v)
  BY <1>5, <1>6 DEF Leq
<1>8. v = top
  BY <1>6, <1>7, AncestorsStep DEF Leq
<1>9. u = v
  BY <1>6, <1>8, AncestorsStep DEF Leq
<1> QED
  BY <1>1, <1>9

LEMMA Descendants ==
  ASSUME NEW s \in Slots, NEW v \in DOMAIN Parent[s], NEW w
  PROVE  w \in DescendantsOrSelf[s][v] <=> w \in DOMAIN Parent[s] /\ Leq(s, w, v)
BY DEF DescendantsOrSelf

------------------------------------------------------------------------------
(* Frames, and what folding makes of an applicability.                      *)

FrameOK(f) == \E r \in Raws : r.state = "good" /\ f = Build(r)

SigOK(sig) ==
  /\ \A s \in DOMAIN sig.typed : s \in Slots /\ sig.typed[s] \in DOMAIN Parent[s] /\ ~IsRoot(s, sig.typed[s])
  /\ \A s \in DOMAIN sig.typed : s \notin DOMAIN sig.untyped

LEMMA FrameIs ==
  ASSUME NEW f, FrameOK(f)
  PROVE  /\ f.passage \in Int /\ f.span \in Int /\ f.app \in Scopes /\ f.hedged \in BOOLEAN
         /\ SigOK(f.sig)
         /\ \A S \in SUBSET DOMAIN f.sig.typed :
              S # {} => \E app \in Scopes \ Universal : Attrs[app] = Attrs[f.app] \o Constraints(f.sig, S)
<1>1. PICK r \in Raws : r.state = "good" /\ f = Build(r)
  BY DEF FrameOK
<1>2. /\ f.passage = r.passage /\ f.span = r.span /\ f.app = r.app /\ f.hedged = (r.hedged \/ r.spanHedged)
      /\ f.sig = MakeSignature(r.decision)
  BY <1>1 DEF Build
<1>3. /\ r.passage \in Int /\ r.span \in Int /\ r.app \in Scopes /\ {r.hedged, r.spanHedged} \subseteq BOOLEAN
      /\ \A sig \in {MakeSignature(r.decision)} : \A S \in SUBSET DOMAIN sig.typed :
            S # {} => \E app \in Scopes \ Universal : Attrs[app] = Attrs[r.app] \o Constraints(sig, S)
  BY <1>1, ComposeAssumption
<1>4. \A S \in SUBSET DOMAIN f.sig.typed :
        S # {} => \E app \in Scopes \ Universal : Attrs[app] = Attrs[f.app] \o Constraints(f.sig, S)
  BY <1>2, <1>3
<1>5. SigOK(f.sig)
  <2> DEFINE raw == r.decision
  <2>1. /\ f.sig.typed = [s \in {t \in DOMAIN raw : InVocabulary(raw, t) /\ ~IsRoot(t, Words[t][raw[t]])} |-> Words[s][raw[s]]]
        /\ f.sig.untyped = [s \in {t \in DOMAIN raw : ~InVocabulary(raw, t)} |-> raw[s]]
    BY <1>2 DEF MakeSignature
  <2> HIDE DEF raw
  <2>2. ASSUME NEW s \in DOMAIN f.sig.typed
        PROVE  /\ s \in Slots /\ f.sig.typed[s] \in DOMAIN Parent[s] /\ ~IsRoot(s, f.sig.typed[s])
               /\ s \notin DOMAIN f.sig.untyped
    <3>1. s \in DOMAIN raw /\ InVocabulary(raw, s) /\ ~IsRoot(s, Words[s][raw[s]]) /\ f.sig.typed[s] = Words[s][raw[s]]
      BY <2>1
    <3>2. s \in Slots /\ raw[s] \in DOMAIN Words[s]
      BY <3>1 DEF InVocabulary
    <3>3. Words[s][raw[s]] \in DOMAIN Parent[s]
      BY <3>2, SignatureAssumption DEF Valid
    <3> QED
      BY <2>1, <3>1, <3>2, <3>3
  <2> QED
    BY <2>2 DEF SigOK
<1> QED
  BY <1>2, <1>3, <1>4, <1>5

(* The constraints of some slots, each once.                                *)
LEMMA ConstraintsAre ==
  ASSUME NEW sig, NEW S \in SUBSET Slots
  PROVE  LET K == Constraints(sig, S) IN
         /\ Len(K) \in Nat /\ DOMAIN K = 1..Len(K)
         /\ \A i \in 1..Len(K) : \E s \in S : K[i] = Constraint(sig, s)
         /\ \A s \in S : \E i \in 1..Len(K) : K[i] = Constraint(sig, s)
         /\ \A i, j \in 1..Len(K) : K[i].name = K[j].name => i = j
         /\ S # {} => Len(K) # 0
<1> DEFINE I == {i \in DOMAIN SlotOrder : SlotOrder[i] \in S}
           order == Keep(SlotOrder, I)
           K == Constraints(sig, S)
<1>1. SlotOrder \in Seq(Slots) /\ \A s \in S : \E i \in I : SlotOrder[i] = s
  BY ComposeAssumption DEF Slots
<1>2. I \in SUBSET DOMAIN SlotOrder /\ \A i \in I : SlotOrder[i] \in S
  OBVIOUS
<1>3. K = [i \in DOMAIN order |-> Constraint(sig, order[i])]
  BY DEF Constraints
<1> HIDE DEF I
<1> DEFINE c == Cardinality(I)
           b == InTurn(I)
<1>4. /\ c \in Nat /\ order \in Seq(Slots) /\ Len(order) = c /\ ListsAll(b, I)
      /\ \A n \in 1..c : order[n] = SlotOrder[b[n]]
  BY <1>1, <1>2, KeepIs
<1> HIDE DEF order, b, c
<1>5. DOMAIN order = 1..c
  BY <1>4
<1>6. b \in [1..c -> I] /\ (\A i \in I : \E n \in 1..c : b[n] = i) /\ \A m, n \in 1..c : b[m] = b[n] => m = n
  BY <1>4 DEF ListsAll, c
<1>7. Len(K) = c /\ DOMAIN K = 1..c /\ \A i \in 1..c : K[i] = Constraint(sig, SlotOrder[b[i]])
  BY <1>3, <1>4, <1>5
<1> HIDE DEF K
<1>8. \A i \in 1..c : SlotOrder[b[i]] \in S
  BY <1>2, <1>6
<1>9. ASSUME NEW i \in 1..c, NEW j \in 1..c, K[i].name = K[j].name PROVE i = j
  <2>1. SigName[SlotOrder[b[i]]] = SigName[SlotOrder[b[j]]]
    BY <1>7, <1>9 DEF Constraint
  <2>2. SlotOrder[b[i]] = SlotOrder[b[j]]
    BY <1>8, <2>1, ComposeAssumption
  <2>3. b[i] = b[j]
    BY <1>2, <1>6, <2>2, ComposeAssumption
  <2> QED
    BY <1>6, <2>3
<1>10. \A s \in S : \E i \in 1..c : K[i] = Constraint(sig, s)
  BY <1>1, <1>6, <1>7
<1>11. S # {} => c # 0
  BY <1>4, <1>10
<1> QED
  BY <1>4, <1>7, <1>8, <1>9, <1>10, <1>11 DEF K

NamesNoSlot(app) == \A s \in Slots : SigName[s] \notin Dims(app)

LEMMA Concatenated ==
  ASSUME NEW T, NEW l \in Seq(T), NEW m \in Seq(T)
  PROVE  /\ Len(l) \in Nat /\ Len(l \o m) = Len(l) + Len(m)
         /\ \A i \in 1..Len(l) : (l \o m)[i] = l[i]
         /\ \A i \in 1..Len(m) : (l \o m)[Len(l) + i] = m[i]
OBVIOUS

(* The attributes of a folded applicability are its own and the constraints.*)
LEMMA WithAttributes ==
  ASSUME NEW f, FrameOK(f), NEW S \in SUBSET DOMAIN f.sig.typed, S # {}
  PROVE  LET w == With(f.app, f.sig, S)
             n == Len(Attrs[f.app])
             K == Constraints(f.sig, S)
         IN /\ w \in Scopes \ Universal /\ n \in Nat /\ Len(K) \in Nat
            /\ Len(Attrs[w]) = n + Len(K) /\ Attrs[w] \in Seq(Attribute)
            /\ \A i \in 1..n : Attrs[w][i] = Attrs[f.app][i]
            /\ \A i \in 1..Len(K) : Attrs[w][n + i] = K[i]
<1> DEFINE w == With(f.app, f.sig, S)
           n == Len(Attrs[f.app])
           K == Constraints(f.sig, S)
<1>1. f.app \in Scopes /\ SigOK(f.sig)
  BY FrameIs
<1>2. PICK app \in Scopes \ Universal : Attrs[app] = Attrs[f.app] \o K
  BY FrameIs
<1>3. w \in Scopes \ Universal /\ Attrs[w] = Attrs[f.app] \o K
  BY <1>2, ComposeAssumption DEF With
<1>4. Attrs[f.app] \in Seq(Attribute) /\ Attrs[w] \in Seq(Attribute)
  BY <1>1, <1>3, ScopeAssumption
<1>5. S \in SUBSET Slots
  BY <1>1 DEF SigOK
<1>6. Len(K) \in Nat /\ DOMAIN K = 1..Len(K)
  BY <1>5, ConstraintsAre
<1> HIDE DEF w, K
<1>7. K \in Seq(Attribute)
  <2>1. \A i \in 1..Len(K) : \E s \in S : K[i] = Constraint(f.sig, s)
    BY <1>5, ConstraintsAre DEF K
  <2>2. \A i \in 1..Len(K) : K[i] \in Attribute
    <3>1. ASSUME NEW s \in S PROVE Constraint(f.sig, s) \in Attribute
      <4>1. s \in Slots /\ f.sig.typed[s] \in DOMAIN Parent[s]
        BY <1>1 DEF SigOK
      <4>2. DescendantsOrSelf[s][f.sig.typed[s]] \subseteq DOMAIN Parent[s]
        BY <4>1 DEF DescendantsOrSelf
      <4>3. SigName[s] \in Names /\ Domain[SigName[s]] = DOMAIN Parent[s]
        BY <4>1, ComposeAssumption
      <4>4. DescendantsOrSelf[s][f.sig.typed[s]] \in SUBSET Values
        BY <4>2, <4>3 DEF Values
      <4> QED
        BY <4>3, <4>4 DEF Constraint, Attribute, Kinds
    <3> QED
      BY <2>1, <3>1
  <2>3. K = [i \in 1..Len(K) |-> K[i]]
    BY <1>6 DEF K, Constraints
  <2> QED
    BY <1>6, <2>2, <2>3
<1>8. /\ n \in Nat /\ Len(Attrs[w]) = n + Len(K)
      /\ \A i \in 1..n : Attrs[w][i] = Attrs[f.app][i]
      /\ \A i \in 1..Len(K) : Attrs[w][n + i] = K[i]
  BY <1>3, <1>4, <1>7, Concatenated
<1> QED
  BY <1>3, <1>4, <1>6, <1>8 DEF w, K

Means(sig, s) == DescendantsOrSelf[s][sig.typed[s]]

LEMMA Behind ==
  ASSUME NEW n \in Nat, NEW m \in Nat, NEW i \in 1..(n + m), i \notin 1..n
  PROVE  i - n \in 1..m /\ i = n + (i - n)
OBVIOUS

LEMMA WithHolds ==
  ASSUME NEW f, FrameOK(f), NEW S \in SUBSET DOMAIN f.sig.typed, NEW c
  PROVE  /\ With(f.app, f.sig, S) \in Scopes
         /\ Holds(With(f.app, f.sig, S), c) <=> Holds(f.app, c) /\ \A s \in S : c[SigName[s]] \in Means(f.sig, s)
<1>1. f.app \in Scopes /\ SigOK(f.sig)
  BY FrameIs
<1>2. CASE S = {}
  BY <1>1, <1>2 DEF With
<1>3. CASE S # {}
  <2> DEFINE w == With(f.app, f.sig, S)
             n == Len(Attrs[f.app])
             K == Constraints(f.sig, S)
  <2>1. /\ w \in Scopes /\ n \in Nat /\ Len(K) \in Nat /\ Len(Attrs[w]) = n + Len(K)
        /\ \A i \in 1..n : Attrs[w][i] = Attrs[f.app][i]
        /\ \A i \in 1..Len(K) : Attrs[w][n + i] = K[i]
    BY <1>3, WithAttributes
  <2>2. S \in SUBSET Slots
    BY <1>1 DEF SigOK
  <2>3. /\ \A i \in 1..Len(K) : \E s \in S : K[i] = Constraint(f.sig, s)
        /\ \A s \in S : \E i \in 1..Len(K) : K[i] = Constraint(f.sig, s)
    BY <2>2, ConstraintsAre
  <2>4. \A s \in S : Constraint(f.sig, s).name = SigName[s] /\ Constraint(f.sig, s).allowed = Means(f.sig, s)
    BY DEF Constraint, Means
  <2> HIDE DEF w, n, K
  <2>5. ASSUME Holds(w, c) PROVE Holds(f.app, c) /\ \A s \in S : c[SigName[s]] \in Means(f.sig, s)
    <3>1. \A i \in 1..(n + Len(K)) : c[Attrs[w][i].name] \in Attrs[w][i].allowed
      BY <2>1, <2>5 DEF Holds
    <3>2. \A i \in 1..n : c[Attrs[f.app][i].name] \in Attrs[f.app][i].allowed
      BY <2>1, <3>1
    <3>3. \A i \in 1..Len(K) : c[K[i].name] \in K[i].allowed
      <4>1. \A i \in 1..Len(K) : n + i \in 1..(n + Len(K))
        BY <2>1
      <4> QED
        BY <2>1, <3>1, <4>1
    <3>4. \A s \in S : c[SigName[s]] \in Means(f.sig, s)
      BY <2>3, <2>4, <3>3
    <3> QED
      BY <3>2, <3>4 DEF Holds, n
  <2>6. ASSUME Holds(f.app, c), \A s \in S : c[SigName[s]] \in Means(f.sig, s) PROVE Holds(w, c)
    <3>1. SUFFICES ASSUME NEW i \in 1..(n + Len(K)) PROVE c[Attrs[w][i].name] \in Attrs[w][i].allowed
      BY <2>1 DEF Holds
    <3>2. CASE i \in 1..n
      BY <2>1, <2>6, <3>2 DEF Holds, n
    <3>3. CASE i \notin 1..n
      <4>1. i - n \in 1..Len(K) /\ i = n + (i - n)
        BY <2>1, <3>3, Behind
      <4>2. Attrs[w][i] = K[i - n]
        BY <2>1, <4>1
      <4> QED
        BY <2>3, <2>4, <2>6, <4>1, <4>2
    <3> QED
      BY <3>2, <3>3
  <2> QED
    BY <2>1, <2>5, <2>6 DEF w
<1> QED
  BY <1>2, <1>3

(* compare() loses nothing of what is folded, if it loses nothing of what   *)
(* the folding begins with.                                                 *)
LEMMA WithIsTyped ==
  ASSUME NEW f, FrameOK(f), NEW S \in SUBSET DOMAIN f.sig.typed, Typed(f.app), NamesNoSlot(f.app), Once(f.app)
  PROVE  Typed(With(f.app, f.sig, S)) /\ Once(With(f.app, f.sig, S))
<1>1. f.app \in Scopes /\ SigOK(f.sig)
  BY FrameIs
<1>2. CASE S = {}
  BY <1>2 DEF With
<1>3. CASE S # {}
  <2> DEFINE w == With(f.app, f.sig, S)
             n == Len(Attrs[f.app])
             K == Constraints(f.sig, S)
  <2>1. /\ w \in Scopes /\ n \in Nat /\ Len(K) \in Nat /\ Len(Attrs[w]) = n + Len(K)
        /\ \A i \in 1..n : Attrs[w][i] = Attrs[f.app][i]
        /\ \A i \in 1..Len(K) : Attrs[w][n + i] = K[i]
    BY <1>3, WithAttributes
  <2>2. S \in SUBSET Slots
    BY <1>1 DEF SigOK
  <2>3. /\ \A i \in 1..Len(K) : \E s \in S : K[i] = Constraint(f.sig, s)
        /\ \A i, j \in 1..Len(K) : K[i].name = K[j].name => i = j
        /\ Len(K) # 0
    BY <1>3, <2>2, ConstraintsAre
  <2>4. \A i \in 1..Len(K) : K[i].kind = "categorical" /\ \E s \in S : K[i].name = SigName[s]
    <3>1. \A s : Constraint(f.sig, s).kind = "categorical" /\ Constraint(f.sig, s).name = SigName[s]
      BY DEF Constraint
    <3> QED
      BY <2>3, <3>1
  <2>5. \A i \in 1..n : Attrs[f.app][i].kind # "free_text"
    <3>1. CASE f.app \in Universal
      <4>1. n = 0
        BY <3>1, ScopeAssumption
      <4> QED
        BY <4>1
    <3>2. CASE f.app \notin Universal
      BY <3>2 DEF Typed
    <3> QED
      BY <3>1, <3>2
  <2>6. \A i \in 1..n : \A j \in 1..Len(K) : Attrs[f.app][i].name # K[j].name
    <3>1. \A i \in 1..n : Attrs[f.app][i].name \in Dims(f.app)
      BY DEF Dims
    <3> QED
      BY <2>2, <2>4, <3>1 DEF NamesNoSlot
  <2>7. \A i, j \in 1..n : Attrs[f.app][i].name = Attrs[f.app][j].name => i = j
    BY DEF Once
  <2> HIDE DEF w, n, K
  <2>8. ASSUME NEW i \in 1..(n + Len(K)), i \notin 1..n PROVE i - n \in 1..Len(K) /\ Attrs[w][i] = K[i - n]
    <3>1. i - n \in 1..Len(K) /\ i = n + (i - n)
      BY <2>1, <2>8, Behind
    <3> QED
      BY <2>1, <3>1
  <2>9. \A i \in 1..(n + Len(K)) : Attrs[w][i].kind # "free_text"
    BY <2>1, <2>4, <2>5, <2>8
  <2>10. Attrs[w] # <<>>
    <3>1. Len(Attrs[w]) # 0
      BY <2>1, <2>3
    <3> QED
      BY <3>1
  <2>11. Typed(w)
    BY <2>1, <2>9, <2>10 DEF Typed
  <2>12. ASSUME NEW i \in 1..(n + Len(K)), NEW j \in 1..(n + Len(K)), Attrs[w][i].name = Attrs[w][j].name PROVE i = j
    <3>1. CASE i \in 1..n /\ j \in 1..n
      BY <2>1, <2>7, <2>12, <3>1
    <3>2. CASE i \in 1..n /\ j \notin 1..n
      <4>1. Attrs[w][i] = Attrs[f.app][i] /\ j - n \in 1..Len(K) /\ Attrs[w][j] = K[j - n]
        BY <2>1, <2>8, <3>2
      <4> QED
        BY <2>6, <2>12, <3>2, <4>1
    <3>3. CASE i \notin 1..n /\ j \in 1..n
      <4>1. Attrs[w][j] = Attrs[f.app][j] /\ i - n \in 1..Len(K) /\ Attrs[w][i] = K[i - n]
        BY <2>1, <2>8, <3>3
      <4> QED
        BY <2>6, <2>12, <3>3, <4>1
    <3>4. CASE i \notin 1..n /\ j \notin 1..n
      <4>1. i - n = j - n
        BY <2>3, <2>8, <2>12, <3>4
      <4> QED
        BY <2>1, <4>1
    <3> QED
      BY <3>1, <3>2, <3>3, <3>4
  <2>13. Once(w)
    BY <2>1, <2>12 DEF Once
  <2> QED
    BY <2>11, <2>13 DEF w
<1> QED
  BY <1>2, <1>3

LEMMA WithKept ==
  ASSUME NEW f, FrameOK(f), NEW S \in SUBSET DOMAIN f.sig.typed, Once(f.app), NEW k \in Kept(With(f.app, f.sig, S))
  PROVE  k \in Kept(f.app) \/ \E s \in S : k = Constraint(f.sig, s)
<1>1. f.app \in Scopes /\ SigOK(f.sig)
  BY FrameIs
<1>2. CASE S = {}
  BY <1>2 DEF With
<1>3. CASE S # {}
  <2> DEFINE w == With(f.app, f.sig, S)
             n == Len(Attrs[f.app])
             K == Constraints(f.sig, S)
  <2>1. /\ w \in Scopes /\ n \in Nat /\ Len(K) \in Nat /\ Len(Attrs[w]) = n + Len(K)
        /\ \A i \in 1..n : Attrs[w][i] = Attrs[f.app][i]
        /\ \A i \in 1..Len(K) : Attrs[w][n + i] = K[i]
    BY <1>3, WithAttributes
  <2>2. S \in SUBSET Slots
    BY <1>1 DEF SigOK
  <2>3. \A i \in 1..Len(K) : \E s \in S : K[i] = Constraint(f.sig, s)
    BY <2>2, ConstraintsAre
  <2>4. \A i \in 1..n : Attrs[f.app][i] \in Kept(f.app)
    BY <1>1, KeptAttribute
  <2>5. k \in Kept(w)
    OBVIOUS
  <2> HIDE DEF w, n, K
  <2>6. PICK i \in 1..(n + Len(K)) : k = Attrs[w][i]
    BY <2>1, <2>5, KeptAttribute
  <2>7. CASE i \in 1..n
    BY <2>1, <2>4, <2>6, <2>7
  <2>8. CASE i \notin 1..n
    <3>1. i - n \in 1..Len(K) /\ i = n + (i - n)
      BY <2>1, <2>8, Behind
    <3> QED
      BY <2>1, <2>3, <2>6, <3>1
  <2> QED
    BY <2>7, <2>8
<1> QED
  BY <1>2, <1>3

LEMMA WithAlike ==
  ASSUME NEW f, FrameOK(f), NEW S \in SUBSET DOMAIN f.sig.typed, Once(f.app), NamesNoSlot(f.app),
         NEW g, FrameOK(g), NEW R \in SUBSET DOMAIN g.sig.typed, Once(g.app), NamesNoSlot(g.app), Alike(f.app, g.app)
  PROVE  Alike(With(f.app, f.sig, S), With(g.app, g.sig, R))
<1>1. SUFFICES ASSUME NEW k \in Kept(With(f.app, f.sig, S)), NEW l \in Kept(With(g.app, g.sig, R)), k.name = l.name
               PROVE  k.kind = l.kind
  BY DEF Alike
<1>2. k \in Kept(f.app) \/ \E s \in S : k = Constraint(f.sig, s)
  BY WithKept
<1>3. l \in Kept(g.app) \/ \E s \in R : l = Constraint(g.sig, s)
  BY WithKept
<1>4. S \subseteq Slots /\ R \subseteq Slots /\ f.app \in Scopes /\ g.app \in Scopes
  BY FrameIs DEF SigOK
<1>5. \A s : /\ Constraint(f.sig, s).name = SigName[s] /\ Constraint(g.sig, s).name = SigName[s]
             /\ Constraint(f.sig, s).kind = Constraint(g.sig, s).kind
  BY DEF Constraint
<1>6. ASSUME NEW app \in Scopes, NamesNoSlot(app), NEW m \in Kept(app), NEW s \in Slots PROVE m.name # SigName[s]
  <2>1. PICK i \in 1..Len(Attrs[app]) : m = Attrs[app][i]
    BY KeptAttribute
  <2>2. m.name \in Dims(app)
    BY <2>1 DEF Dims
  <2> QED
    BY <1>6, <2>2 DEF NamesNoSlot
<1>7. CASE k \in Kept(f.app) /\ l \in Kept(g.app)
  BY <1>1, <1>7 DEF Alike
<1>8. CASE k \in Kept(f.app) /\ \E s \in R : l = Constraint(g.sig, s)
  BY <1>1, <1>4, <1>5, <1>6, <1>8
<1>9. CASE l \in Kept(g.app) /\ \E s \in S : k = Constraint(f.sig, s)
  BY <1>1, <1>4, <1>5, <1>6, <1>9
<1>10. CASE (\E s \in S : k = Constraint(f.sig, s)) /\ \E s \in R : l = Constraint(g.sig, s)
  <2>1. PICK s \in S : k = Constraint(f.sig, s)
    BY <1>10
  <2>2. PICK t \in R : l = Constraint(g.sig, t)
    BY <1>10
  <2> QED
    BY <2>1, <2>2 DEF Constraint
<1> QED
  BY <1>2, <1>3, <1>7, <1>8, <1>9, <1>10

Folded(f, S) == Extension[With(f.app, f.sig, S)]

LEMMA FoldedIs ==
  ASSUME NEW f, FrameOK(f), NEW S \in SUBSET DOMAIN f.sig.typed, NEW c
  PROVE  c \in Folded(f, S) <=> c \in Cases /\ Holds(f.app, c) /\ \A s \in S : c[SigName[s]] \in Means(f.sig, s)
<1>1. With(f.app, f.sig, S) \in Scopes
  BY WithHolds
<1>2. c \in Folded(f, S) <=> c \in Cases /\ Holds(With(f.app, f.sig, S), c)
  BY <1>1 DEF Folded, Extension
<1> QED
  BY <1>2, WithHolds

LEMMA MeaningIs ==
  ASSUME NEW f, FrameOK(f), NEW c
  PROVE  c \in Meaning(f) <=>
           c \in Cases /\ Holds(f.app, c) /\ \A s \in DOMAIN f.sig.typed : c[SigName[s]] \in Means(f.sig, s)
<1>1. f.app \in Scopes
  BY FrameIs
<1> QED
  BY <1>1 DEF Meaning, Extension, Means

(* What happens in a case can be changed, whoever it happens to.            *)
Placed(D, t) == \A s \in D : s \in Slots /\ t[s] \in DOMAIN Parent[s]

Changed(c, D, t, d) ==
  /\ \A s \in D : d[SigName[s]] = t[s]
  /\ \A s \in Slots \ D : d[SigName[s]] = c[SigName[s]]
  /\ \A app \in Scopes : NamesNoSlot(app) => (Holds(app, c) <=> Holds(app, d))

LEMMA CaseWith ==
  ASSUME NEW D, NEW t, Placed(D, t), NEW c \in Cases
  PROVE  \E d \in Cases : Changed(c, D, t, d)
<1>0. D \in SUBSET Slots /\ \A s \in D : t[s] \in DOMAIN Parent[s]
  BY DEF Placed
<1> DEFINE slot(n) == CHOOSE s \in D : SigName[s] = n
           Given(n) == \E s \in D : SigName[s] = n
           d == [n \in Names |-> IF Given(n) THEN t[slot(n)] ELSE c[n]]
<1>1. c \in [Names -> Values] /\ \A n \in Names : c[n] \in Domain[n]
  BY DEF Cases
<1>2. \A s \in Slots : SigName[s] \in Names /\ Domain[SigName[s]] = DOMAIN Parent[s]
  BY ComposeAssumption
<1>3. ASSUME NEW s \in D PROVE slot(SigName[s]) = s /\ Given(SigName[s])
  <2>1. \A u \in D : SigName[u] = SigName[s] => u = s
    BY <1>0, ComposeAssumption
  <2> QED
    BY <2>1
<1>4. \A s \in Slots \ D : ~Given(SigName[s])
  BY <1>0, ComposeAssumption
<1>5. \A n \in Names : Given(n) => slot(n) \in D /\ SigName[slot(n)] = n
  OBVIOUS
<1> HIDE DEF slot
<1>6. \A n \in Names : d[n] \in Domain[n]
  <2>1. ASSUME NEW n \in Names, Given(n) PROVE d[n] \in Domain[n]
    BY <1>0, <1>2, <1>5, <2>1
  <2>2. ASSUME NEW n \in Names, ~Given(n) PROVE d[n] \in Domain[n]
    BY <1>1, <2>2
  <2> QED
    BY <2>1, <2>2
<1>7. d \in Cases
  <2>1. \A n \in Names : d[n] \in Values
    BY <1>6 DEF Values
  <2>2. d \in [Names -> Values]
    BY <2>1
  <2> HIDE DEF d
  <2> QED
    BY <1>6, <2>2 DEF Cases
<1>8. \A s \in D : d[SigName[s]] = t[s]
  BY <1>0, <1>2, <1>3
<1>9. \A s \in Slots \ D : d[SigName[s]] = c[SigName[s]]
  BY <1>2, <1>4
<1>10. ASSUME NEW app \in Scopes, NamesNoSlot(app) PROVE Holds(app, c) <=> Holds(app, d)
  <2>1. ASSUME NEW i \in 1..Len(Attrs[app]) PROVE d[Attrs[app][i].name] = c[Attrs[app][i].name]
    <3>1. Attrs[app][i].name \in Names
      BY AttributeType DEF Attribute
    <3>2. Attrs[app][i].name \in Dims(app)
      BY DEF Dims
    <3>3. ~Given(Attrs[app][i].name)
      BY <1>0, <1>10, <3>2 DEF NamesNoSlot
    <3> QED
      BY <3>1, <3>3
  <2> HIDE DEF d
  <2> QED
    BY <2>1 DEF Holds
<1> HIDE DEF d
<1>11. Changed(c, D, t, d)
  BY <1>8, <1>9, <1>10 DEF Changed
<1> QED
  BY <1>7, <1>11

------------------------------------------------------------------------------
(* What is folded of two frames tells them apart as their signatures do: a  *)
(* frame that is not folded at a slot has the other below it there, and of  *)
(* two with one value both are folded or none.                              *)
FoldsAlike(f, F, g, G) ==
  /\ F \subseteq DOMAIN f.sig.typed /\ G \subseteq DOMAIN g.sig.typed
  /\ \A s \in DOMAIN g.sig.typed \ G : s \in DOMAIN f.sig.typed /\ Leq(s, f.sig.typed[s], g.sig.typed[s])
  /\ \A s \in DOMAIN f.sig.typed \ F : s \in DOMAIN g.sig.typed /\ Leq(s, g.sig.typed[s], f.sig.typed[s])
  /\ \A s \in DOMAIN f.sig.typed \cap DOMAIN g.sig.typed : f.sig.typed[s] = g.sig.typed[s] => (s \in F <=> s \in G)

LEMMA FoldsAlikeMirrors ==
  ASSUME NEW f, NEW F, NEW g, NEW G, FoldsAlike(f, F, g, G) PROVE FoldsAlike(g, G, f, F)
BY DEF FoldsAlike

LEMMA MeansBelow ==
  ASSUME NEW f, FrameOK(f), NEW s \in DOMAIN f.sig.typed, NEW w
  PROVE  /\ s \in Slots /\ f.sig.typed[s] \in DOMAIN Parent[s]
         /\ w \in Means(f.sig, s) <=> w \in DOMAIN Parent[s] /\ Leq(s, w, f.sig.typed[s])
<1>1. s \in Slots /\ f.sig.typed[s] \in DOMAIN Parent[s]
  BY FrameIs DEF SigOK
<1> QED
  BY <1>1, Descendants DEF Means

LEMMA MeaningIsFolded ==
  ASSUME NEW f, FrameOK(f), NEW F \in SUBSET DOMAIN f.sig.typed
  PROVE  Meaning(f) \subseteq Folded(f, F)
BY MeaningIs, FoldedIs

LEMMA FoldedInside ==
  ASSUME NEW f, FrameOK(f), NEW F, NEW g, FrameOK(g), NEW G, FoldsAlike(f, F, g, G),
         Folded(f, F) \subseteq Folded(g, G)
  PROVE  Meaning(f) \subseteq Meaning(g)
<1>1. SUFFICES ASSUME NEW c \in Meaning(f) PROVE c \in Meaning(g)
  OBVIOUS
<1>2. F \in SUBSET DOMAIN f.sig.typed /\ G \in SUBSET DOMAIN g.sig.typed
  BY DEF FoldsAlike
<1>3. c \in Cases /\ \A s \in DOMAIN f.sig.typed : c[SigName[s]] \in Means(f.sig, s)
  BY MeaningIs
<1>4. c \in Folded(g, G)
  BY <1>2, MeaningIsFolded
<1>5. Holds(g.app, c) /\ \A s \in G : c[SigName[s]] \in Means(g.sig, s)
  BY <1>2, <1>4, FoldedIs
<1>6. ASSUME NEW s \in DOMAIN g.sig.typed, s \notin G PROVE c[SigName[s]] \in Means(g.sig, s)
  <2>1. s \in DOMAIN f.sig.typed /\ Leq(s, f.sig.typed[s], g.sig.typed[s])
    BY <1>6 DEF FoldsAlike
  <2>2. /\ s \in Slots /\ f.sig.typed[s] \in DOMAIN Parent[s] /\ g.sig.typed[s] \in DOMAIN Parent[s]
        /\ c[SigName[s]] \in DOMAIN Parent[s] /\ Leq(s, c[SigName[s]], f.sig.typed[s])
    BY <1>3, <2>1, MeansBelow
  <2>3. Leq(s, c[SigName[s]], g.sig.typed[s])
    BY <2>1, <2>2, LeqTransitive
  <2> QED
    BY <2>2, <2>3, MeansBelow
<1> QED
  BY <1>3, <1>5, <1>6, MeaningIs

LEMMA MeaningInside ==
  ASSUME NEW f, FrameOK(f), NamesNoSlot(f.app), NEW F, NEW g, FrameOK(g), NamesNoSlot(g.app), NEW G,
         FoldsAlike(f, F, g, G), Meaning(f) \subseteq Meaning(g)
  PROVE  Folded(f, F) \subseteq Folded(g, G)
<1>1. SUFFICES ASSUME NEW c \in Folded(f, F) PROVE c \in Folded(g, G)
  OBVIOUS
<1>2. F \in SUBSET DOMAIN f.sig.typed /\ G \in SUBSET DOMAIN g.sig.typed
  BY DEF FoldsAlike
<1>3. c \in Cases /\ Holds(f.app, c) /\ \A s \in F : c[SigName[s]] \in Means(f.sig, s)
  BY <1>2, FoldedIs
<1>4. DOMAIN f.sig.typed \in SUBSET Slots /\ \A s \in DOMAIN f.sig.typed : f.sig.typed[s] \in DOMAIN Parent[s]
  BY FrameIs DEF SigOK
<1>5. f.app \in Scopes /\ g.app \in Scopes
  BY FrameIs
<1>6. \E d \in Cases : Changed(c, DOMAIN f.sig.typed, f.sig.typed, d)
  <2>1. Placed(DOMAIN f.sig.typed, f.sig.typed)
    BY <1>4 DEF Placed
  <2> QED
    BY <1>3, <2>1, CaseWith
<1>61. PICK d \in Cases :
        /\ \A s \in DOMAIN f.sig.typed : d[SigName[s]] = f.sig.typed[s]
        /\ \A s \in Slots \ DOMAIN f.sig.typed : d[SigName[s]] = c[SigName[s]]
        /\ \A app \in Scopes : NamesNoSlot(app) => (Holds(app, c) <=> Holds(app, d))
  BY <1>6 DEF Changed
<1>7. \A s \in DOMAIN f.sig.typed : f.sig.typed[s] \in Means(f.sig, s)
  BY <1>4, MeansBelow, LeqReflexive
<1>8. d \in Meaning(f)
  BY <1>3, <1>5, <1>61, <1>7, MeaningIs
<1>9. Holds(g.app, d) /\ \A s \in DOMAIN g.sig.typed : d[SigName[s]] \in Means(g.sig, s)
  BY <1>8, MeaningIs
<1>10. Holds(g.app, c)
  BY <1>5, <1>61, <1>9
<1>11. ASSUME NEW s \in G PROVE c[SigName[s]] \in Means(g.sig, s)
  <2>1. s \in DOMAIN g.sig.typed /\ s \in Slots /\ g.sig.typed[s] \in DOMAIN Parent[s]
    BY <1>2, MeansBelow
  <2>2. CASE s \notin DOMAIN f.sig.typed
    BY <1>61, <1>9, <2>1, <2>2
  <2>3. CASE s \in DOMAIN f.sig.typed
    <3>1. Leq(s, f.sig.typed[s], g.sig.typed[s])
      BY <1>61, <1>9, <2>1, <2>3, MeansBelow
    <3>2. s \in F
      <4>1. SUFFICES ASSUME s \notin F PROVE FALSE
        OBVIOUS
      <4>2. Leq(s, g.sig.typed[s], f.sig.typed[s])
        BY <2>3, <4>1 DEF FoldsAlike
      <4>3. f.sig.typed[s] = g.sig.typed[s]
        BY <1>4, <2>1, <2>3, <3>1, <4>2, LeqAntisymmetric
      <4> QED
        BY <2>1, <2>3, <4>1, <4>3 DEF FoldsAlike
    <3>3. c[SigName[s]] \in DOMAIN Parent[s] /\ Leq(s, c[SigName[s]], f.sig.typed[s])
      BY <1>3, <2>3, <3>2, MeansBelow
    <3>4. Leq(s, c[SigName[s]], g.sig.typed[s])
      BY <1>4, <2>1, <2>3, <3>1, <3>3, LeqTransitive
    <3> QED
      BY <2>1, <3>3, <3>4, MeansBelow
  <2> QED
    BY <2>2, <2>3
<1> QED
  BY <1>2, <1>3, <1>10, <1>11, FoldedIs

(* No value is below two that are not in line.                              *)
LEMMA MeansApart ==
  ASSUME NEW f, FrameOK(f), NEW g, FrameOK(g), NEW s \in DOMAIN f.sig.typed, s \in DOMAIN g.sig.typed,
         NEW w, w \in Means(f.sig, s), w \in Means(g.sig, s)
  PROVE  Leq(s, f.sig.typed[s], g.sig.typed[s]) \/ Leq(s, g.sig.typed[s], f.sig.typed[s])
<1>1. /\ s \in Slots /\ f.sig.typed[s] \in DOMAIN Parent[s] /\ g.sig.typed[s] \in DOMAIN Parent[s]
      /\ w \in DOMAIN Parent[s] /\ Leq(s, w, f.sig.typed[s]) /\ Leq(s, w, g.sig.typed[s])
  BY MeansBelow
<1> QED
  BY <1>1, LeqChain

LEMMA MeaningMeets ==
  ASSUME NEW f, FrameOK(f), NamesNoSlot(f.app), NEW F, NEW g, FrameOK(g), NamesNoSlot(g.app), NEW G,
         FoldsAlike(f, F, g, G), Folded(f, F) \cap Folded(g, G) # {}
  PROVE  Meaning(f) \cap Meaning(g) # {}
<1>1. PICK c : c \in Folded(f, F) /\ c \in Folded(g, G)
  OBVIOUS
<1>2. F \in SUBSET DOMAIN f.sig.typed /\ G \in SUBSET DOMAIN g.sig.typed
  BY DEF FoldsAlike
<1>3. /\ c \in Cases /\ Holds(f.app, c) /\ \A s \in F : c[SigName[s]] \in Means(f.sig, s)
      /\ Holds(g.app, c) /\ \A s \in G : c[SigName[s]] \in Means(g.sig, s)
  BY <1>1, <1>2, FoldedIs
<1>4. f.app \in Scopes /\ g.app \in Scopes
  BY FrameIs
<1> DEFINE D == DOMAIN f.sig.typed \cup DOMAIN g.sig.typed
           Narrow(s) == s \in DOMAIN f.sig.typed /\ (s \in DOMAIN g.sig.typed => Leq(s, f.sig.typed[s], g.sig.typed[s]))
           t == [s \in D |-> IF Narrow(s) THEN f.sig.typed[s] ELSE g.sig.typed[s]]
<1>5. ASSUME NEW s \in DOMAIN f.sig.typed, s \in DOMAIN g.sig.typed
      PROVE  Leq(s, f.sig.typed[s], g.sig.typed[s]) \/ Leq(s, g.sig.typed[s], f.sig.typed[s])
  <2>1. CASE s \in F /\ s \in G
    BY <1>3, <1>5, <2>1, MeansApart
  <2>2. CASE s \notin F \/ s \notin G
    BY <1>5, <2>2 DEF FoldsAlike
  <2> QED
    BY <2>1, <2>2
<1>6. /\ \A s \in DOMAIN f.sig.typed : s \in Slots /\ f.sig.typed[s] \in DOMAIN Parent[s]
      /\ \A s \in DOMAIN g.sig.typed : s \in Slots /\ g.sig.typed[s] \in DOMAIN Parent[s]
  BY FrameIs DEF SigOK
<1>7. D \in SUBSET Slots /\ \A s \in D : t[s] \in DOMAIN Parent[s]
  BY <1>6
<1>8. \A s \in DOMAIN f.sig.typed : t[s] \in Means(f.sig, s)
  BY <1>5, <1>6, MeansBelow, LeqReflexive
<1>9. \A s \in DOMAIN g.sig.typed : t[s] \in Means(g.sig, s)
  BY <1>5, <1>6, MeansBelow, LeqReflexive
<1> HIDE DEF t
<1>13. \E d \in Cases : Changed(c, D, t, d)
  <2>1. Placed(D, t)
    BY <1>7 DEF Placed
  <2> HIDE DEF D
  <2> QED
    BY <1>3, <2>1, CaseWith
<1>10. PICK d \in Cases :
        /\ \A s \in D : d[SigName[s]] = t[s]
        /\ \A s \in Slots \ D : d[SigName[s]] = c[SigName[s]]
        /\ \A app \in Scopes : NamesNoSlot(app) => (Holds(app, c) <=> Holds(app, d))
  BY <1>13 DEF Changed
<1>11. d \in Meaning(f)
  BY <1>3, <1>4, <1>8, <1>10, MeaningIs
<1>12. d \in Meaning(g)
  BY <1>3, <1>4, <1>9, <1>10, MeaningIs
<1> QED
  BY <1>11, <1>12

(* Folding loses nothing and adds nothing: two frames that fold_component() *)
(* (detection/signature.py) folds on slots of their own are contained or    *)
(* disjoint exactly as the cases they speak of, provided that what one is   *)
(* not folded on the other is folded on below.                              *)
THEOREM FoldingIsFaithful ==
  ASSUME NEW f, FrameOK(f), NamesNoSlot(f.app), NEW F, NEW g, FrameOK(g), NamesNoSlot(g.app), NEW G,
         FoldsAlike(f, F, g, G)
  PROVE  /\ Folded(f, F) \subseteq Folded(g, G) <=> Meaning(f) \subseteq Meaning(g)
         /\ Folded(g, G) \subseteq Folded(f, F) <=> Meaning(g) \subseteq Meaning(f)
         /\ Folded(f, F) \cap Folded(g, G) = {} <=> Meaning(f) \cap Meaning(g) = {}
<1>1. FoldsAlike(g, G, f, F)
  BY FoldsAlikeMirrors
<1>2. Folded(f, F) \subseteq Folded(g, G) <=> Meaning(f) \subseteq Meaning(g)
  BY FoldedInside, MeaningInside
<1>3. Folded(g, G) \subseteq Folded(f, F) <=> Meaning(g) \subseteq Meaning(f)
  BY <1>1, FoldedInside, MeaningInside
<1>4. F \in SUBSET DOMAIN f.sig.typed /\ G \in SUBSET DOMAIN g.sig.typed
  BY DEF FoldsAlike
<1>5. Meaning(f) \subseteq Folded(f, F) /\ Meaning(g) \subseteq Folded(g, G)
  BY <1>4, MeaningIsFolded
<1>6. Folded(f, F) \cap Folded(g, G) # {} => Meaning(f) \cap Meaning(g) # {}
  BY MeaningMeets
<1> QED
  BY <1>2, <1>3, <1>5, <1>6

------------------------------------------------------------------------------
(* The decision about two frames.                                           *)

(* What unify() says of two signatures without free text.                   *)
LEMMA SlotRelIs ==
  ASSUME NEW s, NEW a, NEW b, ~IsText(a, s), ~IsText(b, s)
  PROVE  /\ SlotRel(s, a, b) \in {"equal", "a_broader", "b_broader", "incompatible"}
         /\ SlotRel(s, a, b) = "b_broader" <=>
              IsTyped(a, s) /\ (IsTyped(b, s) => /\ a.typed[s] # b.typed[s]
                                                 /\ ~Leq(s, b.typed[s], a.typed[s]) /\ Leq(s, a.typed[s], b.typed[s]))
         /\ SlotRel(s, a, b) = "incompatible" <=>
              IsTyped(a, s) /\ IsTyped(b, s) /\ a.typed[s] # b.typed[s]
              /\ ~Leq(s, b.typed[s], a.typed[s]) /\ ~Leq(s, a.typed[s], b.typed[s])
BY DEF SlotRel, Silent

LEMMA UnifyIs ==
  ASSUME NEW a, NEW b, DOMAIN a.untyped = {}, DOMAIN b.untyped = {}
  PROVE  /\ Unify(a, b) = "distinct" <=> \E s \in Named(a) \cup Named(b) : SlotRel(s, a, b) = "incompatible"
         /\ Unify(a, b) # "uncertain"
         /\ Unify(a, b) \notin {"subsumes", "overlap", "distinct"} =>
              \A s \in Named(a) \cup Named(b) : SlotRel(s, a, b) = "equal"
<1> DEFINE rels == {SlotRel(s, a, b) : s \in Named(a) \cup Named(b)}
<1>1. \A s : ~IsText(a, s) /\ ~IsText(b, s)
  BY DEF IsText
<1>2. \A r \in rels : r \in {"equal", "a_broader", "b_broader", "incompatible"}
  BY <1>1, SlotRelIs
<1>3. \A s \in Named(a) \cup Named(b) : SlotRel(s, a, b) \in rels
  OBVIOUS
<1>4. \A r \in rels : \E s \in Named(a) \cup Named(b) : r = SlotRel(s, a, b)
  OBVIOUS
<1>5. Unify(a, b) =
        IF "incompatible" \in rels THEN "distinct"
        ELSE IF "uncertain" \in rels THEN "uncertain"
        ELSE IF "a_broader" \in rels /\ "b_broader" \in rels THEN "overlap"
        ELSE IF "a_broader" \in rels \/ "b_broader" \in rels THEN "subsumes" ELSE "equivalent"
  BY DEF Unify
<1> HIDE DEF rels
<1>6. "uncertain" \notin rels
  BY <1>2
<1> QED
  BY <1>2, <1>3, <1>4, <1>5, <1>6

(* The side is folded where the other one is broader.                       *)
Narrower(a, b) == {s \in DOMAIN a.typed : SlotRel(s, a, b) = "b_broader"}

LEMMA FoldPairIs ==
  ASSUME NEW a, NEW b, DOMAIN a.untyped = {}, DOMAIN b.untyped = {}, Unify(a, b) # "distinct", NEW app
  PROVE  FoldPair(a, b, app, "b_broader") = With(app, a, Narrower(a, b))
<1>1. CASE Unify(a, b) \in {"subsumes", "overlap"}
  BY <1>1 DEF FoldPair, Narrower
<1>2. CASE Unify(a, b) \notin {"subsumes", "overlap"}
  <2>1. \A s \in Named(a) \cup Named(b) : SlotRel(s, a, b) = "equal"
    BY <1>2, UnifyIs
  <2>2. Narrower(a, b) = {}
    BY <2>1 DEF Narrower, Named
  <2> QED
    BY <1>2, <2>2 DEF FoldPair, With
<1> QED
  BY <1>1, <1>2

(* Either of two is named by both, and what one says of them the other does.*)
LEMMA UnifyMirrors ==
  ASSUME NEW a, NEW b, DOMAIN a.untyped = {}, DOMAIN b.untyped = {}
  PROVE  Unify(a, b) = "distinct" <=> Unify(b, a) = "distinct"
<1>1. \A s : ~IsText(a, s) /\ ~IsText(b, s)
  BY DEF IsText
<1>2. \A s : SlotRel(s, a, b) = "incompatible" <=> SlotRel(s, b, a) = "incompatible"
  BY <1>1, SlotRelIs
<1> QED
  BY <1>2, UnifyIs

LEMMA PairFolds ==
  ASSUME NEW f, FrameOK(f), NEW g, FrameOK(g), DOMAIN f.sig.untyped = {}, DOMAIN g.sig.untyped = {},
         Unify(f.sig, g.sig) # "distinct"
  PROVE  FoldsAlike(f, Narrower(f.sig, g.sig), g, Narrower(g.sig, f.sig))
<1>1. \A s : ~IsText(f.sig, s) /\ ~IsText(g.sig, s)
  BY DEF IsText
<1>2. ASSUME NEW s \in DOMAIN f.sig.typed \cap DOMAIN g.sig.typed
      PROVE  /\ Leq(s, f.sig.typed[s], g.sig.typed[s]) \/ Leq(s, g.sig.typed[s], f.sig.typed[s])
             /\ f.sig.typed[s] = g.sig.typed[s] =>
                  Leq(s, f.sig.typed[s], g.sig.typed[s]) /\ Leq(s, g.sig.typed[s], f.sig.typed[s])
  <2>1. s \in Slots /\ f.sig.typed[s] \in DOMAIN Parent[s] /\ g.sig.typed[s] \in DOMAIN Parent[s]
    BY MeansBelow
  <2>2. SlotRel(s, f.sig, g.sig) # "incompatible"
    BY UnifyIs DEF Named
  <2> QED
    BY <1>1, <2>1, <2>2, LeqReflexive, SlotRelIs DEF IsTyped
<1>3. ASSUME NEW s \in DOMAIN g.sig.typed, s \notin Narrower(g.sig, f.sig)
      PROVE  s \in DOMAIN f.sig.typed /\ Leq(s, f.sig.typed[s], g.sig.typed[s])
  <2>1. SlotRel(s, g.sig, f.sig) # "b_broader"
    BY <1>3 DEF Narrower
  <2> QED
    BY <1>1, <1>2, <2>1, SlotRelIs DEF IsTyped
<1>4. ASSUME NEW s \in DOMAIN f.sig.typed, s \notin Narrower(f.sig, g.sig)
      PROVE  s \in DOMAIN g.sig.typed /\ Leq(s, g.sig.typed[s], f.sig.typed[s])
  <2>1. SlotRel(s, f.sig, g.sig) # "b_broader"
    BY <1>4 DEF Narrower
  <2> QED
    BY <1>1, <1>2, <2>1, SlotRelIs DEF IsTyped
<1>5. ASSUME NEW s \in DOMAIN f.sig.typed \cap DOMAIN g.sig.typed, f.sig.typed[s] = g.sig.typed[s]
      PROVE  s \notin Narrower(f.sig, g.sig) /\ s \notin Narrower(g.sig, f.sig)
  BY <1>1, <1>5, SlotRelIs DEF Narrower, IsTyped
<1>6. Narrower(f.sig, g.sig) \subseteq DOMAIN f.sig.typed /\ Narrower(g.sig, f.sig) \subseteq DOMAIN g.sig.typed
  BY DEF Narrower
<1> QED
  BY <1>3, <1>4, <1>5, <1>6 DEF FoldsAlike

(* Distinct frames have no case in common.                                  *)
LEMMA DistinctIsApart ==
  ASSUME NEW f, FrameOK(f), NEW g, FrameOK(g), DOMAIN f.sig.untyped = {}, DOMAIN g.sig.untyped = {},
         Unify(f.sig, g.sig) = "distinct"
  PROVE  Meaning(f) \cap Meaning(g) = {}
<1>1. PICK s : SlotRel(s, f.sig, g.sig) = "incompatible"
  BY UnifyIs
<1>2. ~IsText(f.sig, s) /\ ~IsText(g.sig, s)
  BY DEF IsText
<1>3. /\ s \in DOMAIN f.sig.typed /\ s \in DOMAIN g.sig.typed
      /\ ~Leq(s, f.sig.typed[s], g.sig.typed[s]) /\ ~Leq(s, g.sig.typed[s], f.sig.typed[s])
  BY <1>1, <1>2, SlotRelIs DEF IsTyped
<1>4. SUFFICES ASSUME NEW c \in Meaning(f), c \in Meaning(g) PROVE FALSE
  OBVIOUS
<1>5. c[SigName[s]] \in Means(f.sig, s) /\ c[SigName[s]] \in Means(g.sig, s)
  BY <1>3, <1>4, MeaningIs
<1> QED
  BY <1>3, <1>5, MeansApart

(* The attributes of a typed scope can each be met.                         *)
LEMMA TypedAllows ==
  ASSUME NEW s \in Scopes, Typed(s)
  PROVE  \A i \in 1..Len(Attrs[s]) :
           /\ Attrs[s][i].kind # "free_text" /\ Attrs[s][i].name \in Names
           /\ Attrs[s][i].allowed # {} /\ Attrs[s][i].allowed \subseteq Domain[Attrs[s][i].name]
<1>1. \A i \in 1..Len(Attrs[s]) : Attrs[s][i].kind # "free_text"
  <2>1. CASE s \in Universal
    <3>1. Len(Attrs[s]) = 0
      BY <2>1, ScopeAssumption
    <3> QED
      BY <3>1
  <2>2. CASE s \notin Universal
    BY <2>2 DEF Typed
  <2> QED
    BY <2>1, <2>2
<1> QED
  BY <1>1, AttributeType, ScopeAssumption DEF Attribute

(* Where no dimension keeps them apart, two scopes hold for somebody.       *)
LEMMA MeetUnlessApart ==
  ASSUME NEW a \in Scopes, NEW b \in Scopes, Typed(a), Typed(b), Once(a), Once(b), Alike(a, b), ~Apart(a, b)
  PROVE  \E c \in Cases : Holds(a, c) /\ Holds(b, c)
<1>1. \A i \in 1..Len(Attrs[a]) :
        /\ Attrs[a][i].kind # "free_text" /\ Attrs[a][i].name \in Names
        /\ Attrs[a][i].allowed # {} /\ Attrs[a][i].allowed \subseteq Domain[Attrs[a][i].name]
  BY TypedAllows
<1>2. \A i \in 1..Len(Attrs[b]) :
        /\ Attrs[b][i].kind # "free_text" /\ Attrs[b][i].name \in Names
        /\ Attrs[b][i].allowed # {} /\ Attrs[b][i].allowed \subseteq Domain[Attrs[b][i].name]
  BY TypedAllows
<1>3. \A n \in Names : Domain[n] # {}
  BY ScopeAssumption
<1> DEFINE Fits(n, v) == /\ v \in Domain[n]
                         /\ \A i \in 1..Len(Attrs[a]) : Attrs[a][i].name = n => v \in Attrs[a][i].allowed
                         /\ \A i \in 1..Len(Attrs[b]) : Attrs[b][i].name = n => v \in Attrs[b][i].allowed
           value(n) == CHOOSE v : Fits(n, v)
           c == [n \in Names |-> value(n)]
<1>4. ASSUME NEW n \in Names PROVE \E v : Fits(n, v)
  <2> DEFINE InA(i) == i \in 1..Len(Attrs[a]) /\ Attrs[a][i].name = n
             InB(i) == i \in 1..Len(Attrs[b]) /\ Attrs[b][i].name = n
  <2>1. \A i, j : InA(i) /\ InA(j) => i = j
    BY DEF Once
  <2>2. \A i, j : InB(i) /\ InB(j) => i = j
    BY DEF Once
  <2>3. CASE (\E i : InA(i)) /\ \E j : InB(j)
    <3>1. PICK i : InA(i)
      BY <2>3
    <3>2. PICK j : InB(j)
      BY <2>3
    <3>3. Attrs[a][i] \in Kept(a) /\ Attrs[b][j] \in Kept(b)
      BY <3>1, <3>2, KeptAttribute
    <3>4. Comparable(Attrs[a][i], Attrs[b][j])
      BY <1>1, <3>1, <3>2, <3>3 DEF Alike, Comparable
    <3>5. Attrs[a][i].allowed \cap Attrs[b][j].allowed # {}
      BY <3>3, <3>4 DEF Apart
    <3>6. PICK v : v \in Attrs[a][i].allowed /\ v \in Attrs[b][j].allowed
      BY <3>5
    <3>7. v \in Domain[n]
      BY <1>1, <3>1, <3>6
    <3> QED
      BY <2>1, <2>2, <3>1, <3>2, <3>6, <3>7
  <2>4. CASE (\E i : InA(i)) /\ ~ \E j : InB(j)
    <3>1. PICK i : InA(i)
      BY <2>4
    <3>2. PICK v \in Attrs[a][i].allowed : v \in Domain[n]
      BY <1>1, <3>1
    <3> QED
      BY <2>1, <2>4, <3>1, <3>2
  <2>5. CASE (~ \E i : InA(i)) /\ \E j : InB(j)
    <3>1. PICK j : InB(j)
      BY <2>5
    <3>2. PICK v \in Attrs[b][j].allowed : v \in Domain[n]
      BY <1>2, <3>1
    <3> QED
      BY <2>2, <2>5, <3>1, <3>2
  <2>6. CASE (~ \E i : InA(i)) /\ ~ \E j : InB(j)
    BY <1>3, <2>6
  <2> QED
    BY <2>3, <2>4, <2>5, <2>6
<1>5. \A n \in Names : Fits(n, value(n))
  BY <1>4
<1> HIDE DEF value
<1>6. \A n \in Names : c[n] \in Domain[n]
  BY <1>5
<1>7. c \in Cases
  <2>1. c \in [Names -> Values]
    BY <1>6 DEF Values
  <2> HIDE DEF c
  <2> QED
    BY <1>6, <2>1 DEF Cases
<1>8. Holds(a, c) /\ Holds(b, c)
  BY <1>1, <1>2, <1>5 DEF Holds
<1> QED
  BY <1>7, <1>8

LEMMA HoldsForSomebody ==
  ASSUME NEW s \in Scopes, Typed(s), Once(s)
  PROVE  \E c \in Cases : Holds(s, c)
<1>1. \A k, l \in Kept(s) : k.name = l.name => k = l
  BY KeptAttribute DEF Once
<1>2. \A k \in Kept(s) : k.allowed # {}
  BY KeptAttribute, TypedAllows
<1>3. ~Apart(s, s) /\ Alike(s, s)
  BY <1>1, <1>2 DEF Apart, Comparable, Alike
<1> QED
  BY <1>3, MeetUnlessApart

LEMMA TypedIsKnown ==
  ASSUME NEW s \in Scopes, Typed(s), s \notin Universal
  PROVE  Dims(s) # {} /\ ~Untyped(s)
<1>1. Attrs[s] # <<>> /\ Attrs[s] \in Seq(Attribute) /\ \A i \in 1..Len(Attrs[s]) : Attrs[s][i].kind # "free_text"
  BY ScopeAssumption DEF Typed
<1>2. 1 \in 1..Len(Attrs[s])
  BY <1>1
<1>3. Dims(s) # {}
  BY <1>2 DEF Dims
<1>4. ~Untyped(s)
  BY <1>1, KeptAttribute DEF Untyped
<1> QED
  BY <1>3, <1>4

(* compare() on what holds for somebody: the relation of the sets of cases. *)
LEMMA CompareIs ==
  ASSUME NEW a \in Scopes, NEW b \in Scopes, Typed(a), Typed(b), Once(a), Once(b), Alike(a, b), NEW rel, rel = Compare(a, b)
  PROVE  /\ rel = "subset" => Extension[a] \subseteq Extension[b] /\ ~(Extension[b] \subseteq Extension[a])
         /\ rel = "superset" => Extension[b] \subseteq Extension[a] /\ ~(Extension[a] \subseteq Extension[b])
         /\ rel = "equal" => Extension[a] \subseteq Extension[b] /\ Extension[b] \subseteq Extension[a]
         /\ rel = "overlapping" => /\ Extension[a] \cap Extension[b] # {}
                                   /\ ~(Extension[a] \subseteq Extension[b]) /\ ~(Extension[b] \subseteq Extension[a])
         /\ rel = "disjoint" => Extension[a] \cap Extension[b] = {}
         /\ rel \in {"subset", "superset", "equal", "overlapping", "disjoint"}
<1>1. Alike(b, a)
  BY DEF Alike
<1>2. (\E c \in Cases : Holds(a, c)) /\ (\E c \in Cases : Holds(b, c))
  BY HoldsForSomebody
<1>3. Compare(a, b) \in {"subset", "equal"} <=> Included(a, b)
  BY <1>2, CompareIsInclusion
<1>4. Compare(b, a) \in {"subset", "equal"} <=> Included(b, a)
  BY <1>1, <1>2, CompareIsInclusion
<1>5. /\ Compare(a, b) = "subset" <=> Compare(b, a) = "superset"
      /\ Compare(a, b) = "superset" <=> Compare(b, a) = "subset"
      /\ \A r \in {"equal", "disjoint", "overlapping", "unknown"} : Compare(a, b) = r <=> Compare(b, a) = r
  BY CompareMirrors
<1>6. /\ Included(a, b) <=> Extension[a] \subseteq Extension[b]
      /\ Included(b, a) <=> Extension[b] \subseteq Extension[a]
      /\ \A c : c \in Extension[a] \cap Extension[b] <=> c \in Cases /\ Holds(a, c) /\ Holds(b, c)
  BY DEF Included, Extension
<1>7. rel = "disjoint" => Extension[a] \cap Extension[b] = {}
  BY <1>6, CommonCaseIsSeen
<1>8. rel \in {"subset", "superset", "equal", "overlapping", "disjoint"} /\ (rel = "overlapping" => ~Apart(a, b))
  <2>1. CASE a \in Universal \/ b \in Universal
    BY <2>1 DEF Compare
  <2>2. CASE a \notin Universal /\ b \notin Universal
    <3>1. Dims(a) # {} /\ Dims(b) # {} /\ ~Untyped(a) /\ ~Untyped(b)
      BY <2>2, TypedIsKnown
    <3> QED
      BY <2>2, <3>1 DEF Compare
  <2> QED
    BY <2>1, <2>2
<1>9. rel = "overlapping" => Extension[a] \cap Extension[b] # {}
  BY <1>6, <1>8, MeetUnlessApart
<1> QED
  BY <1>3, <1>4, <1>5, <1>6, <1>7, <1>8, <1>9

(* What is folded of a pair relates as the frames do.                       *)
LEMMA RelationIsTrue ==
  ASSUME NEW f, FrameOK(f), FullyTyped(f), NEW g, FrameOK(g), FullyTyped(g), KeptWhole(f, g),
         Unify(f.sig, g.sig) # "distinct", NEW rel,
         rel = Compare(FoldPair(f.sig, g.sig, f.app, "b_broader"), FoldPair(g.sig, f.sig, g.app, "b_broader"))
  PROVE  /\ rel = "subset" => Meaning(f) \subseteq Meaning(g) /\ Meaning(f) # Meaning(g)
         /\ rel = "superset" => Meaning(g) \subseteq Meaning(f) /\ Meaning(f) # Meaning(g)
         /\ rel = "equal" => Meaning(f) = Meaning(g)
         /\ rel = "overlapping" => /\ Meaning(f) \cap Meaning(g) # {}
                                   /\ ~(Meaning(f) \subseteq Meaning(g)) /\ ~(Meaning(g) \subseteq Meaning(f))
         /\ rel = "disjoint" => Meaning(f) \cap Meaning(g) = {}
         /\ rel \in {"subset", "superset", "equal", "overlapping", "disjoint"}
<1> DEFINE F == Narrower(f.sig, g.sig)
           G == Narrower(g.sig, f.sig)
<1>1. DOMAIN f.sig.untyped = {} /\ DOMAIN g.sig.untyped = {} /\ Typed(f.app) /\ Typed(g.app)
  BY DEF FullyTyped
<1>2. NamesNoSlot(f.app) /\ NamesNoSlot(g.app) /\ Once(f.app) /\ Once(g.app) /\ Alike(f.app, g.app)
  BY DEF FullyTyped, NamesNoSlot, KeptWhole
<1>3. F \in SUBSET DOMAIN f.sig.typed /\ G \in SUBSET DOMAIN g.sig.typed
  BY DEF Narrower
<1>4. Unify(g.sig, f.sig) # "distinct"
  BY <1>1, UnifyMirrors
<1>5. rel = Compare(With(f.app, f.sig, F), With(g.app, g.sig, G))
  BY <1>1, <1>4, FoldPairIs
<1>6. FoldsAlike(f, F, g, G)
  BY <1>1, PairFolds
<1> HIDE DEF F, G
<1>7. /\ Folded(f, F) \subseteq Folded(g, G) <=> Meaning(f) \subseteq Meaning(g)
      /\ Folded(g, G) \subseteq Folded(f, F) <=> Meaning(g) \subseteq Meaning(f)
      /\ Folded(f, F) \cap Folded(g, G) = {} <=> Meaning(f) \cap Meaning(g) = {}
  BY <1>2, <1>6, FoldingIsFaithful
<1>8. /\ With(f.app, f.sig, F) \in Scopes /\ With(g.app, g.sig, G) \in Scopes
      /\ Typed(With(f.app, f.sig, F)) /\ Typed(With(g.app, g.sig, G))
      /\ Once(With(f.app, f.sig, F)) /\ Once(With(g.app, g.sig, G))
      /\ Alike(With(f.app, f.sig, F), With(g.app, g.sig, G))
  BY <1>1, <1>2, <1>3, WithHolds, WithIsTyped, WithAlike
<1>9. /\ rel = "subset" => Folded(f, F) \subseteq Folded(g, G) /\ ~(Folded(g, G) \subseteq Folded(f, F))
      /\ rel = "superset" => Folded(g, G) \subseteq Folded(f, F) /\ ~(Folded(f, F) \subseteq Folded(g, G))
      /\ rel = "equal" => Folded(f, F) \subseteq Folded(g, G) /\ Folded(g, G) \subseteq Folded(f, F)
      /\ rel = "overlapping" => /\ Folded(f, F) \cap Folded(g, G) # {}
                                /\ ~(Folded(f, F) \subseteq Folded(g, G)) /\ ~(Folded(g, G) \subseteq Folded(f, F))
      /\ rel = "disjoint" => Folded(f, F) \cap Folded(g, G) = {}
      /\ rel \in {"subset", "superset", "equal", "overlapping", "disjoint"}
  BY <1>5, <1>8, CompareIs DEF Folded
<1> QED
  BY <1>7, <1>9

(* decide_pair(), case by case.                                             *)
LEMMA DecisionOfPair ==
  ASSUME NEW f, FrameOK(f), FullyTyped(f), NEW g, FrameOK(g), FullyTyped(g), KeptWhole(f, g), f.passage # g.passage
  PROVE  TrueOf(DecidePair(f, g), f, g)
<1> DEFINE kind == Unify(f.sig, g.sig)
           rel == Compare(FoldPair(f.sig, g.sig, f.app, "b_broader"), FoldPair(g.sig, f.sig, g.app, "b_broader"))
           agree == <<f.outcome, g.outcome>> \in SameValue
           named == IF f.hedged \/ g.hedged THEN "unknown" ELSE NamedBy(rel, agree)
           d == DecidePair(f, g)
<1> SUFFICES TrueOf(d, f, g)
  OBVIOUS
<1>1. DOMAIN f.sig.untyped = {} /\ DOMAIN g.sig.untyped = {}
  BY DEF FullyTyped
<1>2. kind # "uncertain"
  BY <1>1, UnifyIs
<1>3. CASE kind = "distinct"
  <2>1. d = Skip("distinct")
    BY <1>3 DEF DecidePair
  <2>2. Meaning(f) \cap Meaning(g) = {}
    BY <1>1, <1>3, DistinctIsApart
  <2>3. d.decision = "skipped"
    BY <2>1 DEF Skip
  <2> HIDE DEF d
  <2> QED
    BY <2>1, <2>2, <2>3 DEF TrueOf
<1>4. CASE kind # "distinct" /\ <<f.outcome, g.outcome>> \notin Commensurable
  <2>1. d = Skip("incommensurable")
    BY <1>2, <1>4 DEF DecidePair
  <2>2. d.decision = "skipped" /\ d # Skip("distinct")
    BY <2>1 DEF Skip
  <2> HIDE DEF d
  <2> QED
    BY <2>2 DEF TrueOf
<1>5. CASE kind # "distinct" /\ <<f.outcome, g.outcome>> \in Commensurable
  <2>1. /\ rel = "subset" => Meaning(f) \subseteq Meaning(g) /\ Meaning(f) # Meaning(g)
        /\ rel = "superset" => Meaning(g) \subseteq Meaning(f) /\ Meaning(f) # Meaning(g)
        /\ rel = "equal" => Meaning(f) = Meaning(g)
        /\ rel = "overlapping" => /\ Meaning(f) \cap Meaning(g) # {}
                                  /\ ~(Meaning(f) \subseteq Meaning(g)) /\ ~(Meaning(g) \subseteq Meaning(f))
        /\ rel = "disjoint" => Meaning(f) \cap Meaning(g) = {}
        /\ rel \in {"subset", "superset", "equal", "overlapping", "disjoint"}
    BY <1>5, RelationIsTrue
  <2>2. d = [decision |-> named, kind |-> kind, tiebroken |-> FALSE,
             general |-> IF named # "conditional" THEN 0 ELSE IF rel = "subset" THEN g.passage ELSE f.passage,
             score |-> IF named = "unknown" THEN 0 ELSE ScoreOf(FALSE, f, g, rel)]
    BY <1>2, <1>5 DEF DecidePair
  <2>3. d.decision = named /\ d.general = IF named # "conditional" THEN 0 ELSE IF rel = "subset" THEN g.passage ELSE f.passage
    BY <2>2
  <2> HIDE DEF rel, d
  <2>4. /\ named = "conditional" => rel \in {"subset", "superset"}
        /\ named = "same_scope" => rel = "equal"
        /\ named = "crossing" => rel = "overlapping"
        /\ named = "disjoint" => rel = "disjoint"
        /\ named \in {"conditional", "same_scope", "crossing", "disjoint", "redundant", "unknown"}
    <3>1. /\ rel = "disjoint" => NamedBy(rel, agree) = "disjoint"
          /\ rel # "disjoint" /\ agree => NamedBy(rel, agree) = "redundant"
          /\ rel = "equal" /\ ~agree => NamedBy(rel, agree) = "same_scope"
          /\ rel = "overlapping" /\ ~agree => NamedBy(rel, agree) = "crossing"
          /\ rel \in {"subset", "superset"} /\ ~agree => NamedBy(rel, agree) = "conditional"
      BY <2>1 DEF NamedBy
    <3> QED
      BY <2>1, <3>1
  <2>5. d # Skip("distinct")
    <3>1. Skip("distinct").decision = "skipped"
      BY DEF Skip
    <3> QED
      BY <2>3, <2>4, <3>1
  <2> HIDE DEF named
  <2>6. CASE named = "conditional"
    <3>1. /\ d.general = g.passage => Meaning(f) \subseteq Meaning(g) /\ Meaning(f) # Meaning(g)
          /\ d.general = f.passage => Meaning(g) \subseteq Meaning(f) /\ Meaning(f) # Meaning(g)
      BY <2>1, <2>3, <2>4, <2>6
    <3>2. d.decision = "conditional"
      BY <2>3, <2>6
    <3> QED
      BY <2>5, <3>1, <3>2 DEF TrueOf
  <2>7. CASE named = "same_scope"
    BY <2>1, <2>3, <2>4, <2>5, <2>7 DEF TrueOf
  <2>8. CASE named = "crossing"
    BY <2>1, <2>3, <2>4, <2>5, <2>8 DEF TrueOf
  <2>9. CASE named = "disjoint"
    BY <2>1, <2>3, <2>4, <2>5, <2>9 DEF TrueOf
  <2>10. CASE named \in {"redundant", "unknown"}
    BY <2>3, <2>5, <2>10 DEF TrueOf
  <2> QED
    BY <2>4, <2>6, <2>7, <2>8, <2>9, <2>10
<1> QED
  BY <1>3, <1>4, <1>5

------------------------------------------------------------------------------
(* The decision shown for two passages is the strongest.                    *)

TopScore == 902500

LEMMA ScoreBound ==
  ASSUME NEW t \in BOOLEAN, NEW a, NEW b, NEW rel
  PROVE  TopScore \in Nat /\ ScoreOf(t, a, b, rel) \in 0..TopScore
<1> DEFINE x == IF t THEN 60 ELSE 95
           y == IF <<a.outcome, b.outcome>> \in SameValue THEN 0
                ELSE IF <<a.outcome, b.outcome>> \in Clear THEN 100 ELSE 80
           z == IF rel = "unknown" THEN 60 ELSE 95
<1>1. x \in {60, 95} /\ y \in {0, 80, 100} /\ z \in {60, 95}
  OBVIOUS
<1>2. ScoreOf(t, a, b, rel) = x * y * z
  BY DEF ScoreOf
<1> HIDE DEF x, y, z
<1>3. x * y \in Nat /\ x * y <= 9500
  <2>1. x * y \in {0, 4800, 6000, 7600, 9500}
    BY <1>1, SMT
  <2> QED
    BY <2>1, SMT
<1>4. PICK w \in Nat : w = x * y /\ w <= 9500
  BY <1>3
<1>5. w * 60 \in Nat /\ w * 60 <= 902500 /\ w * 95 \in Nat /\ w * 95 <= 902500
  BY <1>4, SMT
<1>6. w * z \in Nat /\ w * z <= 902500
  BY <1>1, <1>5
<1>7. ScoreOf(t, a, b, rel) = w * z
  BY <1>2, <1>4
<1>8. PICK n \in Nat : n = w * z /\ n <= 902500
  BY <1>6, SMT
<1>9. n <= 902500
  BY <1>8
<1>10. TopScore \in Nat /\ n <= TopScore
  BY <1>9, SMT DEF TopScore
<1> QED
  BY <1>7, <1>8, <1>10

Decisions == {"conditional", "crossing", "same_scope", "redundant", "disjoint", "unknown"}

LEMMA CompareReturns ==
  ASSUME NEW a, NEW b PROVE Compare(a, b) \in {"equal", "superset", "subset", "unknown", "disjoint", "overlapping"}
BY DEF Compare

LEMMA DecisionReturns ==
  ASSUME NEW a, NEW b
  PROVE  \/ DecidePair(a, b).decision = "skipped"
         \/ (DecidePair(a, b).decision \in Decisions /\ DecidePair(a, b).score \in 0..TopScore)
<1> DEFINE kind == Unify(a.sig, b.sig)
           broken == kind = "uncertain"
           rel == Compare(FoldPair(a.sig, b.sig, a.app, "b_broader"), FoldPair(b.sig, a.sig, b.app, "b_broader"))
           agree == <<a.outcome, b.outcome>> \in SameValue
           named == IF a.hedged \/ b.hedged THEN "unknown" ELSE NamedBy(rel, agree)
           d == DecidePair(a, b)
<1>1. rel \in {"equal", "superset", "subset", "unknown", "disjoint", "overlapping"}
  BY CompareReturns
<1> SUFFICES d.decision = "skipped" \/ (d.decision \in Decisions /\ d.score \in 0..TopScore)
  OBVIOUS
<1>2. \/ \E why : d = Skip(why)
      \/ d = [decision |-> named, kind |-> IF broken THEN TieBreak[a.passage][b.passage] ELSE kind, tiebroken |-> broken,
              general |-> IF named # "conditional" THEN 0 ELSE IF rel = "subset" THEN b.passage ELSE a.passage,
              score |-> IF named = "unknown" THEN 0 ELSE ScoreOf(broken, a, b, rel)]
  BY DEF DecidePair
<1> HIDE DEF rel
<1>3. named \in Decisions
  <2>1. NamedBy(rel, agree) \in Decisions
    BY <1>1 DEF NamedBy, Decisions
  <2> QED
    BY <2>1 DEF Decisions
<1>4. (IF named = "unknown" THEN 0 ELSE ScoreOf(broken, a, b, rel)) \in 0..TopScore
  <2>1. TopScore \in Nat /\ ScoreOf(broken, a, b, rel) \in 0..TopScore
    BY ScoreBound
  <2> QED
    BY <2>1
<1> HIDE DEF named, broken, kind, d
<1>5. CASE \E why : d = Skip(why)
  BY <1>5 DEF Skip
<1> QED
  BY <1>2, <1>3, <1>4, <1>5

(* Of pairs of numbers one comes first.                                     *)
LEMMA FirstPair ==
  ASSUME NEW S \in SUBSET (Nat \X Nat), S # {}
  PROVE  \E p \in S : \A q \in S : p[1] < q[1] \/ (p[1] = q[1] /\ p[2] <= q[2])
<1> DEFINE A == {p[1] : p \in S}
<1>1. A \in SUBSET Nat /\ A # {}
  OBVIOUS
<1>2. PICK m \in A : \A k \in A : m <= k
  BY <1>1, LeastExists
<1> DEFINE B == {p[2] : p \in {r \in S : r[1] = m}}
<1>3. B \in SUBSET Nat /\ B # {}
  BY <1>2
<1>4. PICK n \in B : \A k \in B : n <= k
  BY <1>3, LeastExists
<1>5. PICK p \in S : p[1] = m /\ p[2] = n
  BY <1>4
<1>6. ASSUME NEW q \in S PROVE p[1] < q[1] \/ (p[1] = q[1] /\ p[2] <= q[2])
  <2>1. q[1] \in Nat /\ m \in Nat /\ m <= q[1]
    BY <1>1, <1>2
  <2>2. q[1] = m => n <= q[2]
    BY <1>4
  <2> QED
    BY <1>5, <2>1, <2>2
<1> QED
  BY <1>6

LEMMA BestIsConditional ==
  ASSUME NEW list, DOMAIN list \subseteq Nat, NEW p \in CrossPairs(list),
         DecidePair(list[p[1]], list[p[2]]).decision = "conditional"
  PROVE  Best(list, DetectFrames(list), list[p[1]].passage, list[p[2]].passage).decision = "conditional"
<1> DEFINE of == [q \in CrossPairs(list) |-> DecidePair(list[q[1]], list[q[2]])]
           found == DetectFrames(list)
           i == list[p[1]].passage
           j == list[p[2]].passage
           between == {q \in found.pairs : {list[q[1]].passage, list[q[2]].passage} = {i, j}}
           best == {q \in between : \A r \in between : ~Stronger(found.of[r], found.of[q])}
           first == CHOOSE q \in best : \A r \in best : q[1] < r[1] \/ (q[1] = r[1] /\ q[2] <= r[2])
<1>1. found.pairs = {q \in CrossPairs(list) : of[q].decision # "skipped"} /\ found.of = of
  <2>1. {q \in DOMAIN of : of[q].decision # "skipped"} = {q \in CrossPairs(list) : of[q].decision # "skipped"}
    OBVIOUS
  <2> HIDE DEF of
  <2> QED
    BY <2>1 DEF DetectFrames, of
<1>2. Best(list, found, i, j) = found.of[first]
  BY DEF Best
<1>3. CrossPairs(list) \in SUBSET (Nat \X Nat)
  BY DEF CrossPairs
<1>4. \A q \in CrossPairs(list) :
        of[q].decision = "skipped" \/ (of[q].decision \in Decisions /\ of[q].score \in 0..TopScore)
  BY DecisionReturns
<1>5. of[p].decision = "conditional"
  OBVIOUS
<1> HIDE DEF of, found
<1>6. p \in between
  BY <1>1, <1>5
<1>7. between \subseteq CrossPairs(list) /\ \A q \in between : of[q].decision \in Decisions /\ of[q].score \in 0..TopScore
  BY <1>1, <1>4
<1> HIDE DEF between
<1> DEFINE C == {q \in between : of[q].decision = "conditional"}
           S == {TopScore - of[q].score : q \in C}
<1>8. TopScore \in Nat /\ S \in SUBSET Nat /\ S # {}
  <2>1. TopScore \in Nat
    BY ScoreBound
  <2> QED
    <3>1. ASSUME NEW q \in C PROVE TopScore - of[q].score \in Nat
      BY <1>7, <2>1
    <3>2. p \in C
      BY <1>5, <1>6
    <3> HIDE DEF C
    <3> QED
      BY <2>1, <3>1, <3>2
<1>9. PICK m \in S : \A k \in S : m <= k
  BY <1>8, LeastExists
<1>10. PICK top \in C : m = TopScore - of[top].score
  BY <1>9
<1>11. \A q \in C : of[q].score <= of[top].score
  <2>1. SUFFICES ASSUME NEW q \in C PROVE of[q].score <= of[top].score
    OBVIOUS
  <2>2. TopScore - of[top].score <= TopScore - of[q].score
    BY <1>9, <1>10
  <2>3. of[q].score \in Int /\ of[top].score \in Int
    BY <1>7, <1>10
  <2> QED
    BY <1>8, <2>2, <2>3
<1>12. /\ RankOf("conditional") = 5
       /\ \A d \in Decisions \ {"conditional"} : RankOf(d) \in 1..4
  BY DEF RankOf, Decisions
<1>13. top \in best
  <2>1. SUFFICES ASSUME NEW r \in between, Stronger(of[r], of[top]) PROVE FALSE
    BY <1>1, <1>10
  <2>2. CASE r \in C
    BY <1>7, <1>10, <1>11, <1>12, <2>1, <2>2 DEF Stronger
  <2>3. CASE r \notin C
    BY <1>7, <1>10, <1>12, <2>1, <2>3 DEF Stronger
  <2> QED
    BY <2>2, <2>3
<1>14. \A q \in best : of[q].decision = "conditional"
  <2>1. SUFFICES ASSUME NEW q \in best, of[q].decision # "conditional" PROVE FALSE
    OBVIOUS
  <2>2. ~Stronger(of[top], of[q])
    BY <1>1, <1>10, <2>1
  <2>3. of[q].decision \in Decisions \ {"conditional"}
    BY <1>7, <2>1
  <2> QED
    BY <1>10, <1>12, <2>2, <2>3 DEF Stronger
<1>15. best \in SUBSET (Nat \X Nat) /\ best # {}
  BY <1>3, <1>7, <1>13
<1> HIDE DEF best
<1>16. first \in best
  BY <1>15, FirstPair
<1> QED
  BY <1>1, <1>2, <1>14, <1>16 DEF found, i, j

------------------------------------------------------------------------------
(* The frames are built of raw ones that the contract accepts, one of each  *)
(* span, in the order of the spans.                                         *)
GoodRaws == {r \in Raws : r.state = "good"}
Built == {Build(r) : r \in GoodRaws}

LEMMA BuiltIs == \A f : f \in Built <=> FrameOK(f)
BY DEF Built, GoodRaws, FrameOK

LEMMA KeepOnly ==
  ASSUME NEW T, NEW list \in Seq(T), NEW I \in SUBSET DOMAIN list, NEW U, \A i \in I : list[i] \in U
  PROVE  Keep(list, I) \in Seq(U)
<1> DEFINE c == Cardinality(I)
           b == InTurn(I)
<1>1. c \in Nat /\ ListsAll(b, I) /\ \A n \in 1..c : Keep(list, I)[n] = list[b[n]]
  BY KeepIs
<1>2. b \in [1..c -> I]
  BY <1>1 DEF ListsAll
<1>3. Keep(list, I) = [n \in 1..c |-> list[b[n]]]
  BY DEF Keep
<1> HIDE DEF b, c
<1>4. \A n \in 1..c : list[b[n]] \in U
  BY <1>2
<1> QED
  BY <1>1, <1>3, <1>4

Spans(list) == \A i, j \in DOMAIN list : SameSpan(list[i], list[j]) => i = j

LEMMA UniqueIs ==
  ASSUME NEW list \in Seq(Built)
  PROVE  Unique(list) \in Seq(Built) /\ Spans(Unique(list))
<1> DEFINE I == {i \in DOMAIN list : \A j \in 1..(i - 1) : ~SameSpan(list[i], list[j])}
           c == Cardinality(I)
           b == InTurn(I)
           u == Unique(list)
<1>1. I \in SUBSET DOMAIN list /\ \A i \in I : list[i] \in Built
  OBVIOUS
<1>2. u = Keep(list, I)
  BY DEF Unique
<1>3. DOMAIN list = 1..Len(list) /\ Len(list) \in Nat
  OBVIOUS
<1>4. \A i, j \in I : SameSpan(list[i], list[j]) => i = j
  <2>1. \A i, j \in I : SameSpan(list[i], list[j]) => ~(j < i)
    <3>1. SUFFICES ASSUME NEW i \in I, NEW j \in I, SameSpan(list[i], list[j]), j < i PROVE FALSE
      OBVIOUS
    <3>2. i \in Nat /\ j \in Nat /\ j >= 1
      BY <1>3
    <3>3. j \in 1..(i - 1)
      BY <3>1, <3>2
    <3> QED
      BY <3>1, <3>3
  <2>2. \A i, j \in I : SameSpan(list[i], list[j]) => SameSpan(list[j], list[i])
    BY DEF SameSpan
  <2>3. \A i, j \in I : ~(j < i) /\ ~(i < j) => i = j
    BY <1>3
  <2> QED
    BY <2>1, <2>2, <2>3
<1> HIDE DEF I
<1>5. u \in Seq(Built)
  BY <1>1, <1>2, KeepOnly
<1>6. c \in Nat /\ ListsAll(b, I) /\ Len(u) = c /\ \A n \in 1..c : u[n] = list[b[n]]
  BY <1>1, <1>2, KeepIs
<1>7. b \in [1..c -> I] /\ \A m, n \in 1..c : b[m] = b[n] => m = n
  BY <1>6 DEF ListsAll
<1>8. DOMAIN u = 1..c
  BY <1>5, <1>6
<1> HIDE DEF u, b, c
<1>9. Spans(u)
  BY <1>4, <1>6, <1>7, <1>8 DEF Spans
<1> QED
  BY <1>5, <1>9 DEF u

LEMMA SortedIs ==
  ASSUME NEW list \in Seq(Built), Spans(list)
  PROVE  Sorted(list) \in Seq(Built) /\ Spans(Sorted(list))
<1> DEFINE D == DOMAIN list
           R == {p \in D \X D : NotAfter(list[p[1]], list[p[2]])}
           b == Listed(D, R)
           c == Cardinality(D)
           u == Sorted(list)
<1>1. D = 1..Len(list) /\ Len(list) \in Nat
  OBVIOUS
<1>2. IsFiniteSet(D)
  <2>1. 1 \in Int /\ Len(list) \in Int
    BY <1>1
  <2> QED
    BY <1>1, <2>1, FS_Interval
<1>3. \A i \in D : list[i] \in Built
  OBVIOUS
<1>4. \A i \in D : list[i].passage \in Int /\ list[i].span \in Int
  BY <1>3, BuiltIs, FrameIs
<1>5. \A x, y \in D : <<x, y>> \in R <=> NotAfter(list[x], list[y])
  OBVIOUS
<1> HIDE DEF D, R
<1>6. Orders(R, D)
  <2>1. \A x, y \in D : NotAfter(list[x], list[y]) \/ NotAfter(list[y], list[x])
    BY <1>4 DEF NotAfter
  <2>2. \A x, y \in D : NotAfter(list[x], list[y]) /\ NotAfter(list[y], list[x]) => x = y
    <3>1. \A x, y \in D : NotAfter(list[x], list[y]) /\ NotAfter(list[y], list[x]) => SameSpan(list[x], list[y])
      BY <1>4 DEF NotAfter, SameSpan
    <3> QED
      BY <3>1 DEF Spans, D
  <2>3. \A x, y, z \in D : NotAfter(list[x], list[y]) /\ NotAfter(list[y], list[z]) => NotAfter(list[x], list[z])
    BY <1>4 DEF NotAfter
  <2> QED
    BY <1>5, <2>1, <2>2, <2>3 DEF Orders
<1>7. ListsAll(b, D)
  BY <1>2, <1>6, ListedIs
<1>8. u = [n \in DOMAIN b |-> list[b[n]]]
  BY DEF Sorted, D, R
<1> HIDE DEF b
<1>9. c \in Nat /\ b \in [1..c -> D] /\ \A m, n \in 1..c : b[m] = b[n] => m = n
  BY <1>7 DEF ListsAll
<1> HIDE DEF c, u
<1>10. u = [n \in 1..c |-> list[b[n]]] /\ \A n \in 1..c : list[b[n]] \in Built
  BY <1>3, <1>8, <1>9
<1>11. u \in Seq(Built) /\ DOMAIN u = 1..c
  BY <1>9, <1>10
<1>12. Spans(u)
  <2>1. \A i, j \in D : SameSpan(list[i], list[j]) => i = j
    BY DEF Spans, D
  <2> QED
    BY <1>9, <1>10, <1>11, <2>1 DEF Spans
<1> QED
  BY <1>11, <1>12 DEF u

RawsOK == raws \in Seq(GoodRaws)
FramesOK == frames \in Seq(Built) /\ Spans(frames)

LEMMA AcceptedAreGood ==
  ASSUME NEW list \in Replies \cup Retries
  PROVE  Keep(list, Accepted(list)) \in Seq(GoodRaws)
<1>1. list \in Seq(Raws)
  BY ComposeAssumption
<1>2. Accepted(list) \in SUBSET DOMAIN list
  BY DEF Accepted
<1>3. \A i \in Accepted(list) : list[i] \in GoodRaws
  <2>1. \A i \in DOMAIN list : list[i] \in Raws
    BY <1>1
  <2> QED
    BY <2>1 DEF Accepted, GoodRaws
<1> QED
  BY <1>1, <1>2, <1>3, KeepOnly

LEMMA FramesInit == AnswerInit => RawsOK /\ FramesOK
BY DEF AnswerInit, RawsOK, FramesOK, Spans

LEMMA FramesStep == RawsOK /\ FramesOK /\ [AnswerNext]_answering => RawsOK' /\ FramesOK'
<1>1. SUFFICES ASSUME RawsOK, FramesOK, [AnswerNext]_answering PROVE RawsOK' /\ FramesOK'
  OBVIOUS
<1>2. CASE Extract
  <2>1. PICK r \in Replies : raws' = Keep(r, Accepted(r))
    BY <1>2 DEF Extract
  <2>2. RawsOK'
    BY <2>1, AcceptedAreGood DEF RawsOK
  <2> QED
    BY <1>1, <1>2, <2>2 DEF Extract, FramesOK
<1>3. CASE Reask
  <2>1. PICK r \in Retries : raws' = raws \o Keep(r, Accepted(r))
    BY <1>3 DEF Reask
  <2>2. Keep(r, Accepted(r)) \in Seq(GoodRaws)
    BY AcceptedAreGood
  <2>3. RawsOK'
    BY <1>1, <2>1, <2>2 DEF RawsOK
  <2> QED
    BY <1>1, <1>3, <2>3 DEF Reask, FramesOK
<1>4. CASE Group
  <2> DEFINE built == [i \in DOMAIN raws |-> Build(raws[i])]
  <2>1. built \in Seq(Built)
    <3>1. raws \in Seq(GoodRaws)
      BY <1>1 DEF RawsOK
    <3>2. DOMAIN raws = 1..Len(raws) /\ Len(raws) \in Nat /\ \A i \in DOMAIN raws : raws[i] \in GoodRaws
      BY <3>1
    <3>3. \A i \in DOMAIN raws : Build(raws[i]) \in Built
      BY <3>2 DEF Built
    <3> QED
      BY <3>2, <3>3
  <2>2. frames' = Sorted(Unique(built))
    BY <1>4 DEF Group
  <2> HIDE DEF built
  <2>3. frames' \in Seq(Built) /\ Spans(frames')
    BY <2>1, <2>2, UniqueIs, SortedIs
  <2> QED
    BY <1>1, <1>4, <2>3 DEF Group, RawsOK, FramesOK, Spans
<1>5. CASE Fold \/ ComposePieces \/ State \/ Repair \/ Fallback \/ UNCHANGED answering
  <2>1. UNCHANGED <<raws, frames>>
    BY <1>5 DEF Fold, ComposePieces, State, Repair, Fallback, answering
  <2> QED
    BY <1>1, <2>1 DEF RawsOK, FramesOK
<1> QED
  BY <1>1, <1>2, <1>3, <1>4, <1>5 DEF AnswerNext

(* qnfa.py:96-259: for any taxonomies and any frames that may be extracted,  *)
(* what detection says of a pair is so of the cases that the two frames     *)
(* speak of, and a conditional pair of two passages is not hidden.          *)
THEOREM DecisionsAreTrue == AnswerSpec => []DecisionIsTrue
<1>1. FramesOK => DecisionIsTrue
  <2>1. SUFFICES ASSUME FramesOK, NEW p \in CrossPairs(frames)
                 PROVE  LET found == DetectFrames(frames)
                            a == frames[p[1]]
                            b == frames[p[2]]
                        IN /\ FullyTyped(a) /\ FullyTyped(b) /\ KeptWhole(a, b) => TrueOf(found.of[p], a, b)
                           /\ found.of[p].decision = "conditional" =>
                                Best(frames, found, a.passage, b.passage).decision = "conditional"
    BY DEF DecisionIsTrue
  <2>2. p[1] \in DOMAIN frames /\ p[2] \in DOMAIN frames /\ frames[p[1]].passage # frames[p[2]].passage
    BY DEF CrossPairs
  <2>3. FrameOK(frames[p[1]]) /\ FrameOK(frames[p[2]])
    BY <2>1, <2>2, BuiltIs, ElementOf DEF FramesOK
  <2>4. DetectFrames(frames).of[p] = DecidePair(frames[p[1]], frames[p[2]])
    BY DEF DetectFrames
  <2>5. DOMAIN frames \subseteq Nat
    BY <2>1 DEF FramesOK
  <2>6. FullyTyped(frames[p[1]]) /\ FullyTyped(frames[p[2]]) /\ KeptWhole(frames[p[1]], frames[p[2]]) =>
          TrueOf(DecidePair(frames[p[1]], frames[p[2]]), frames[p[1]], frames[p[2]])
    BY <2>2, <2>3, DecisionOfPair
  <2> QED
    BY <2>4, <2>5, <2>6, BestIsConditional
<1> QED
  BY <1>1, FramesInit, FramesStep, PTL DEF AnswerSpec

------------------------------------------------------------------------------
(* The groups: whoever is in one has the group.                             *)

LEMMA GroupIs ==
  ASSUME NEW sigs, NEW i \in DOMAIN sigs
  PROVE  /\ i \in GroupOf(sigs, i) /\ GroupOf(sigs, i) \subseteq DOMAIN sigs
         /\ WithAllJoined(sigs, GroupOf(sigs, i))
         /\ \A C \in SUBSET DOMAIN sigs : i \in C /\ WithAllJoined(sigs, C) => GroupOf(sigs, i) \subseteq C
<1>1. ASSUME NEW k \in GroupOf(sigs, i), NEW j \in DOMAIN sigs, Joins(sigs, k, j) PROVE j \in GroupOf(sigs, i)
  <2>1. SUFFICES ASSUME NEW C \in SUBSET DOMAIN sigs, i \in C, WithAllJoined(sigs, C) PROVE j \in C
    BY DEF GroupOf
  <2>2. k \in C
    BY <1>1, <2>1 DEF GroupOf
  <2> QED
    BY <1>1, <2>1, <2>2 DEF WithAllJoined
<1>2. WithAllJoined(sigs, GroupOf(sigs, i))
  BY <1>1 DEF WithAllJoined
<1> QED
  BY <1>2 DEF GroupOf

LEMMA JoinsMirror == ASSUME NEW sigs, NEW i, NEW j PROVE Joins(sigs, i, j) <=> Joins(sigs, j, i)
BY DEF Joins

LEMMA GroupOfMember ==
  ASSUME NEW sigs, NEW i \in DOMAIN sigs, NEW j \in GroupOf(sigs, i)
  PROVE  GroupOf(sigs, i) = GroupOf(sigs, j)
<1>1. j \in DOMAIN sigs
  BY GroupIs
<1>2. GroupOf(sigs, j) \subseteq GroupOf(sigs, i)
  BY <1>1, GroupIs
<1>3. i \in GroupOf(sigs, j)
  <2>1. SUFFICES ASSUME i \notin GroupOf(sigs, j) PROVE FALSE
    OBVIOUS
  <2> DEFINE T == (DOMAIN sigs) \ GroupOf(sigs, j)
  <2>2. WithAllJoined(sigs, GroupOf(sigs, j)) /\ j \in GroupOf(sigs, j)
    BY <1>1, GroupIs
  <2>3. ASSUME NEW k \in T, NEW l \in DOMAIN sigs, Joins(sigs, k, l) PROVE l \in T
    <3>1. Joins(sigs, l, k)
      BY <2>3, JoinsMirror
    <3> QED
      BY <2>2, <3>1 DEF WithAllJoined
  <2>4. WithAllJoined(sigs, T)
    BY <2>3 DEF WithAllJoined
  <2>5. GroupOf(sigs, i) \subseteq T
    BY <2>1, <2>4, GroupIs
  <2> QED
    BY <2>2, <2>5
<1>4. GroupOf(sigs, i) \subseteq GroupOf(sigs, j)
  BY <1>1, <1>3, GroupIs
<1> QED
  BY <1>2, <1>4

(* Of two that are joined, what one says of a slot the other leaves open or *)
(* says in line with it.                                                    *)
InLine(s, a, b) == Silent(b, s) \/ (IsTyped(b, s) /\ (Leq(s, a.typed[s], b.typed[s]) \/ Leq(s, b.typed[s], a.typed[s])))

LEMMA JoinedInLine ==
  ASSUME NEW a, SigOK(a), NEW b, SigOK(b), Unify(a, b) \in Joined \/ Unify(b, a) \in Joined, NEW s \in DOMAIN a.typed
  PROVE  InLine(s, a, b)
<1>1. s \in Slots /\ a.typed[s] \in DOMAIN Parent[s] /\ IsTyped(a, s) /\ ~IsText(a, s) /\ ~Silent(a, s)
  BY DEF SigOK, IsTyped, IsText, Silent
<1>2. Leq(s, a.typed[s], a.typed[s])
  BY <1>1, LeqReflexive
<1>3. s \in Named(a) \cup Named(b) /\ s \in Named(b) \cup Named(a)
  BY DEF Named
<1>4. CASE Unify(a, b) \in Joined
  <2>1. SlotRel(s, a, b) # "incompatible" /\ SlotRel(s, a, b) # "uncertain"
    BY <1>3, <1>4 DEF Unify, Joined
  <2> QED
    BY <1>1, <1>2, <2>1 DEF SlotRel, InLine, Silent
<1>5. CASE Unify(b, a) \in Joined
  <2>1. SlotRel(s, b, a) # "incompatible" /\ SlotRel(s, b, a) # "uncertain"
    BY <1>3, <1>5 DEF Unify, Joined
  <2> QED
    BY <1>1, <1>2, <2>1 DEF SlotRel, InLine, Silent
<1> QED
  BY <1>4, <1>5

------------------------------------------------------------------------------
(* Folding a group.                                                         *)

(* What member i says of slot s is narrower than what another says.         *)
Within(sigs, g, i, s) ==
  \E j \in g \ {i} :
    \/ Silent(sigs[j], s)
    \/ IsTyped(sigs[j], s) /\ sigs[j].typed[s] # sigs[i].typed[s] /\ Leq(s, sigs[i].typed[s], sigs[j].typed[s])

FoldsOf(sigs, g, i) == {s \in DOMAIN sigs[i].typed : Within(sigs, g, i, s)}

(* Where that is so of no other, all of the group is below the member.      *)
LEMMA GroupBelow ==
  ASSUME NEW sigs, \A i \in DOMAIN sigs : SigOK(sigs[i]), NEW j \in DOMAIN sigs,
         NEW s \in DOMAIN sigs[j].typed, ~Within(sigs, GroupOf(sigs, j), j, s), NEW i \in GroupOf(sigs, j)
  PROVE  s \in DOMAIN sigs[i].typed /\ Leq(s, sigs[i].typed[s], sigs[j].typed[s])
<1> DEFINE g == GroupOf(sigs, j)
           S == {k \in g : s \in DOMAIN sigs[k].typed /\ Leq(s, sigs[k].typed[s], sigs[j].typed[s])}
<1>1. g \subseteq DOMAIN sigs /\ j \in g /\ WithAllJoined(sigs, g)
  BY GroupIs
<1>2. \A k \in DOMAIN sigs : s \in DOMAIN sigs[k].typed => s \in Slots /\ sigs[k].typed[s] \in DOMAIN Parent[s]
  BY DEF SigOK
<1>3. ASSUME NEW k \in S, NEW l \in DOMAIN sigs, Joins(sigs, k, l) PROVE l \in S
  <2>1. l \in g /\ k \in g /\ k \in DOMAIN sigs
    BY <1>1, <1>3 DEF WithAllJoined
  <2>2. s \in DOMAIN sigs[k].typed /\ Leq(s, sigs[k].typed[s], sigs[j].typed[s])
    OBVIOUS
  <2>3. Unify(sigs[k], sigs[l]) \in Joined \/ Unify(sigs[l], sigs[k]) \in Joined
    BY <1>3 DEF Joins
  <2>4. InLine(s, sigs[k], sigs[l])
    BY <2>1, <2>2, <2>3, JoinedInLine
  <2>5. CASE l = j
    BY <1>1, <1>2, <2>5, LeqReflexive
  <2>6. CASE l # j
    <3>1. ~Silent(sigs[l], s)
      BY <2>1, <2>6 DEF Within
    <3>2. /\ s \in DOMAIN sigs[l].typed
          /\ Leq(s, sigs[k].typed[s], sigs[l].typed[s]) \/ Leq(s, sigs[l].typed[s], sigs[k].typed[s])
      BY <2>4, <3>1 DEF InLine, IsTyped
    <3>3. /\ s \in Slots /\ sigs[l].typed[s] \in DOMAIN Parent[s]
          /\ sigs[k].typed[s] \in DOMAIN Parent[s] /\ sigs[j].typed[s] \in DOMAIN Parent[s]
      BY <1>2, <2>1, <2>2, <3>2
    <3>4. Leq(s, sigs[l].typed[s], sigs[j].typed[s]) \/ Leq(s, sigs[j].typed[s], sigs[l].typed[s])
      BY <2>2, <3>2, <3>3, LeqTransitive, LeqChain
    <3>5. Leq(s, sigs[j].typed[s], sigs[l].typed[s]) => sigs[l].typed[s] = sigs[j].typed[s]
      BY <2>1, <2>6, <3>2 DEF Within, IsTyped
    <3>6. Leq(s, sigs[l].typed[s], sigs[j].typed[s])
      BY <3>3, <3>4, <3>5, LeqReflexive
    <3> QED
      BY <2>1, <3>2, <3>6
  <2> QED
    BY <2>5, <2>6
<1>4. WithAllJoined(sigs, S)
  BY <1>3 DEF WithAllJoined
<1>5. j \in S /\ S \in SUBSET DOMAIN sigs
  BY <1>1, <1>2, LeqReflexive
<1>6. g \subseteq S
  BY <1>4, <1>5, GroupIs
<1> QED
  BY <1>6

LEMMA GroupFolds ==
  ASSUME NEW sigs, \A k \in DOMAIN sigs : SigOK(sigs[k]), NEW m \in DOMAIN sigs,
         NEW i \in GroupOf(sigs, m), NEW j \in GroupOf(sigs, m),
         NEW f, f.sig = sigs[i], NEW h, h.sig = sigs[j]
  PROVE  FoldsAlike(f, FoldsOf(sigs, GroupOf(sigs, m), i), h, FoldsOf(sigs, GroupOf(sigs, m), j))
<1> DEFINE g == GroupOf(sigs, m)
           F == FoldsOf(sigs, g, i)
           H == FoldsOf(sigs, g, j)
<1>1. g = GroupOf(sigs, i) /\ g = GroupOf(sigs, j)
  BY GroupOfMember
<1>2. i \in DOMAIN sigs /\ j \in DOMAIN sigs
  BY GroupIs
<1>3. F \subseteq DOMAIN f.sig.typed /\ H \subseteq DOMAIN h.sig.typed
  BY DEF FoldsOf
<1>4. ASSUME NEW s \in DOMAIN h.sig.typed \ H
      PROVE  s \in DOMAIN f.sig.typed /\ Leq(s, f.sig.typed[s], h.sig.typed[s])
  <2>1. s \in DOMAIN sigs[j].typed /\ ~Within(sigs, g, j, s)
    BY <1>4 DEF FoldsOf
  <2> QED
    BY <1>1, <1>2, <2>1, GroupBelow
<1>5. ASSUME NEW s \in DOMAIN f.sig.typed \ F
      PROVE  s \in DOMAIN h.sig.typed /\ Leq(s, h.sig.typed[s], f.sig.typed[s])
  <2>1. s \in DOMAIN sigs[i].typed /\ ~Within(sigs, g, i, s)
    BY <1>5 DEF FoldsOf
  <2> QED
    BY <1>1, <1>2, <2>1, GroupBelow
<1>6. ASSUME NEW s \in DOMAIN f.sig.typed \cap DOMAIN h.sig.typed, f.sig.typed[s] = h.sig.typed[s]
      PROVE  s \in F <=> s \in H
  <2>1. s \in DOMAIN sigs[i].typed /\ s \in DOMAIN sigs[j].typed /\ sigs[i].typed[s] = sigs[j].typed[s]
    BY <1>6
  <2>2. ~Silent(sigs[i], s) /\ ~Silent(sigs[j], s)
    BY <2>1 DEF Silent, IsTyped
  <2>3. Within(sigs, g, i, s) <=> Within(sigs, g, j, s)
    BY <2>1, <2>2 DEF Within
  <2> QED
    BY <2>1, <2>3 DEF FoldsOf
<1> HIDE DEF F, H
<1> QED
  BY <1>3, <1>4, <1>5, <1>6 DEF FoldsAlike, F, H

(* The pieces of a group, for any list of frames.                           *)
PiecesIn(list, g) ==
  LET own == Keep(list, g)
      apps == FoldComponent(SigsOf(own), [i \in DOMAIN own |-> own[i].app])
  IN [i \in DOMAIN own |-> [scope |-> apps[i], outcome |-> own[i].outcome, passage |-> own[i].passage]]

LEMMA PiecesOfIs == \A g : PiecesOf(g) = PiecesIn(Deciding, g)
BY DEF PiecesOf, PiecesIn

LEMMA OwnFolds ==
  ASSUME NEW list \in Seq(Built), NEW g \in SUBSET DOMAIN list, NEW n \in 1..Cardinality(g),
         NEW own, own = SigsOf(Keep(list, g))
  PROVE  /\ InTurn(g)[n] \in g /\ DOMAIN own = 1..Cardinality(g)
         /\ own[n] = SigsOf(list)[InTurn(g)[n]] /\ own[n] = list[InTurn(g)[n]].sig
         /\ \A s : Broader(own, n, s) <=> Within(SigsOf(list), g, InTurn(g)[n], s)
<1> DEFINE c == Cardinality(g)
           b == InTurn(g)
           kept == Keep(list, g)
           sigs == SigsOf(list)
<1>1. /\ c \in Nat /\ kept \in Seq(Built) /\ Len(kept) = c /\ ListsAll(b, g)
      /\ \A m \in 1..c : kept[m] = list[b[m]]
  BY KeepIs
<1>2. b \in [1..c -> g] /\ (\A x \in g : \E m \in 1..c : b[m] = x) /\ \A m, l \in 1..c : b[m] = b[l] => m = l
  BY <1>1 DEF ListsAll
<1>3. DOMAIN kept = 1..c
  BY <1>1
<1> HIDE DEF b, c, kept
<1>4. DOMAIN own = 1..c /\ \A m \in 1..c : own[m] = kept[m].sig
  BY <1>3 DEF SigsOf, kept
<1>5. \A x \in DOMAIN list : sigs[x] = list[x].sig
  BY DEF SigsOf
<1>6. \A m \in 1..c : b[m] \in g /\ b[m] \in DOMAIN list /\ own[m] = sigs[b[m]] /\ own[m] = list[b[m]].sig
  BY <1>1, <1>2, <1>4, <1>5
<1> HIDE DEF sigs
<1>7. n \in 1..c
  BY DEF c
<1>8. ASSUME NEW s PROVE Broader(own, n, s) <=> Within(sigs, g, b[n], s)
  <2>1. ASSUME Broader(own, n, s) PROVE Within(sigs, g, b[n], s)
    <3>1. PICK m \in (1..c) \ {n} :
             \/ Silent(own[m], s)
             \/ IsTyped(own[m], s) /\ own[m].typed[s] # own[n].typed[s] /\ Leq(s, own[n].typed[s], own[m].typed[s])
      BY <1>4, <2>1 DEF Broader
    <3>2. b[m] \in g \ {b[n]} /\ own[m] = sigs[b[m]] /\ own[n] = sigs[b[n]]
      BY <1>2, <1>6, <1>7, <3>1
    <3> QED
      BY <3>1, <3>2 DEF Within
  <2>2. ASSUME Within(sigs, g, b[n], s) PROVE Broader(own, n, s)
    <3>1. PICK x \in g \ {b[n]} :
             \/ Silent(sigs[x], s)
             \/ IsTyped(sigs[x], s) /\ sigs[x].typed[s] # sigs[b[n]].typed[s] /\ Leq(s, sigs[b[n]].typed[s], sigs[x].typed[s])
      BY <2>2 DEF Within
    <3>2. PICK m \in 1..c : b[m] = x
      BY <1>2, <3>1
    <3>3. m # n /\ own[m] = sigs[x] /\ own[n] = sigs[b[n]]
      BY <1>6, <1>7, <3>1, <3>2
    <3> QED
      BY <1>4, <3>1, <3>2, <3>3 DEF Broader
  <2> QED
    BY <2>1, <2>2
<1> QED
  BY <1>4, <1>6, <1>7, <1>8 DEF b, c, sigs

LEMMA PiecesAre ==
  ASSUME NEW list \in Seq(Built), NEW g \in SUBSET DOMAIN list
  PROVE  /\ Cardinality(g) \in Nat /\ DOMAIN PiecesIn(list, g) = 1..Cardinality(g)
         /\ Len(PiecesIn(list, g)) = Cardinality(g)
         /\ \A n \in 1..Cardinality(g) :
              /\ InTurn(g)[n] \in g
              /\ PiecesIn(list, g)[n] =
                   [scope |-> With(list[InTurn(g)[n]].app, list[InTurn(g)[n]].sig, FoldsOf(SigsOf(list), g, InTurn(g)[n])),
                    outcome |-> list[InTurn(g)[n]].outcome, passage |-> list[InTurn(g)[n]].passage]
<1> DEFINE c == Cardinality(g)
           own == Keep(list, g)
           sigs == SigsOf(own)
           apps == FoldComponent(sigs, [i \in DOMAIN own |-> own[i].app])
           p == PiecesIn(list, g)
<1>1. c \in Nat /\ own \in Seq(Built) /\ Len(own) = c /\ \A m \in 1..c : own[m] = list[InTurn(g)[m]]
  BY KeepIs
<1>2. DOMAIN own = 1..c
  BY <1>1
<1>3. p = [i \in DOMAIN own |-> [scope |-> apps[i], outcome |-> own[i].outcome, passage |-> own[i].passage]]
  BY DEF PiecesIn
<1> HIDE DEF own, p
<1>4. ASSUME NEW n \in 1..c
      PROVE  /\ InTurn(g)[n] \in g
             /\ apps[n] = With(own[n].app, own[n].sig, FoldsOf(SigsOf(list), g, InTurn(g)[n]))
  <2>1. /\ InTurn(g)[n] \in g /\ DOMAIN sigs = 1..c
        /\ sigs[n] = SigsOf(list)[InTurn(g)[n]] /\ sigs[n] = list[InTurn(g)[n]].sig
        /\ \A s : Broader(sigs, n, s) <=> Within(SigsOf(list), g, InTurn(g)[n], s)
    BY OwnFolds DEF own
  <2>2. own[n].sig = sigs[n]
    BY <1>1, <2>1
  <2>3. apps[n] = With(own[n].app, sigs[n], {s \in DOMAIN sigs[n].typed : Broader(sigs, n, s)})
    BY <1>2, <2>1 DEF FoldComponent
  <2>4. {s \in DOMAIN sigs[n].typed : Broader(sigs, n, s)} = FoldsOf(SigsOf(list), g, InTurn(g)[n])
    BY <2>1 DEF FoldsOf
  <2> QED
    BY <2>1, <2>2, <2>3, <2>4
<1> HIDE DEF apps
<1>5. \A n \in 1..c : p[n] = [scope |-> apps[n], outcome |-> own[n].outcome, passage |-> own[n].passage]
  BY <1>2, <1>3
<1>6. DOMAIN p = 1..c /\ Len(p) = c
  BY <1>1, <1>2, <1>3
<1>7. \A n \in 1..c : own[n] = list[InTurn(g)[n]]
  BY <1>1
<1> HIDE DEF c
<1> QED
  BY <1>1, <1>4, <1>5, <1>6, <1>7 DEF c, p

(* Two pieces of one group compare as what the frames speak of.             *)
CompareAs(A, B, C, D) == (A \subseteq B <=> C \subseteq D) /\ (A \cap B = {} <=> C \cap D = {})

LEMMA PiecesAsMeant ==
  ASSUME NEW list \in Seq(Built), NEW m \in DOMAIN list, NEW g, g = GroupOf(SigsOf(list), m),
         NEW i \in 1..Cardinality(g), NEW j \in 1..Cardinality(g),
         NEW f, f = list[InTurn(g)[i]], NEW h, h = list[InTurn(g)[j]],
         NamesNoSlot(f.app), NamesNoSlot(h.app)
  PROVE  CompareAs(Extension[PiecesIn(list, g)[i].scope], Extension[PiecesIn(list, g)[j].scope], Meaning(f), Meaning(h))
<1> DEFINE sigs == SigsOf(list)
           F == FoldsOf(sigs, g, InTurn(g)[i])
           H == FoldsOf(sigs, g, InTurn(g)[j])
<1>1. DOMAIN sigs = DOMAIN list /\ \A x \in DOMAIN list : sigs[x] = list[x].sig
  BY DEF SigsOf
<1>2. g \in SUBSET DOMAIN list
  BY <1>1, GroupIs
<1>3. InTurn(g)[i] \in g /\ InTurn(g)[j] \in g
  BY <1>2, PiecesAre
<1>4. \A x \in DOMAIN list : FrameOK(list[x])
  BY BuiltIs, ElementOf
<1>5. \A x \in DOMAIN sigs : SigOK(sigs[x])
  BY <1>1, <1>4, FrameIs
<1>6. FrameOK(f) /\ FrameOK(h) /\ f.sig = sigs[InTurn(g)[i]] /\ h.sig = sigs[InTurn(g)[j]]
  BY <1>1, <1>2, <1>3, <1>4
<1>7. /\ PiecesIn(list, g)[i].scope = With(f.app, f.sig, F)
      /\ PiecesIn(list, g)[j].scope = With(h.app, h.sig, H)
  <2>1. PiecesIn(list, g)[i] = [scope |-> With(f.app, f.sig, F), outcome |-> f.outcome, passage |-> f.passage]
    BY <1>2, PiecesAre
  <2>2. PiecesIn(list, g)[j] = [scope |-> With(h.app, h.sig, H), outcome |-> h.outcome, passage |-> h.passage]
    BY <1>2, PiecesAre
  <2> QED
    BY <2>1, <2>2
<1>8. FoldsAlike(f, F, h, H)
  <2>1. g = GroupOf(sigs, m) /\ m \in DOMAIN sigs
    BY <1>1
  <2>2. InTurn(g)[i] \in GroupOf(sigs, m) /\ InTurn(g)[j] \in GroupOf(sigs, m)
    BY <1>3, <2>1
  <2> HIDE DEF sigs
  <2>3. FoldsAlike(f, FoldsOf(sigs, GroupOf(sigs, m), InTurn(g)[i]), h, FoldsOf(sigs, GroupOf(sigs, m), InTurn(g)[j]))
    BY <1>5, <1>6, <2>1, <2>2, GroupFolds
  <2> QED
    BY <2>1, <2>3
<1> HIDE DEF F, H
<1>9. Extension[PiecesIn(list, g)[i].scope] = Folded(f, F) /\ Extension[PiecesIn(list, g)[j].scope] = Folded(h, H)
  BY <1>7 DEF Folded
<1> QED
  BY <1>6, <1>8, <1>9, FoldingIsFaithful DEF CompareAs

------------------------------------------------------------------------------
(* What is composed are groups, and each frame that decides is in one.      *)
GroupIn(list, g) == \E m \in DOMAIN list : g = GroupOf(SigsOf(list), m)

LEMMA ComponentsAre ==
  ASSUME NEW list \in Seq(Built), NEW all, all = Components(SigsOf(list))
  PROVE  /\ all \in Seq(SUBSET Nat) /\ \A n \in DOMAIN all : GroupIn(list, all[n])
         /\ \A i \in DOMAIN list : \E n \in DOMAIN all : i \in all[n]
<1> DEFINE sigs == SigsOf(list)
           I == {i \in DOMAIN sigs : \A j \in GroupOf(sigs, i) : i <= j}
           first == InTurn(I)
           c == Cardinality(I)
<1>1. DOMAIN sigs = DOMAIN list
  BY DEF SigsOf
<1>2. DOMAIN list = 1..Len(list) /\ Len(list) \in Nat
  OBVIOUS
<1> HIDE DEF sigs
<1>3. I \in SUBSET (1..Len(list))
  BY <1>1, <1>2
<1>4. ListsAll(first, I)
  BY <1>2, <1>3, InTurnIs
<1>5. all = [n \in DOMAIN first |-> GroupOf(sigs, first[n])]
  BY DEF Components, sigs
<1> HIDE DEF first
<1>6. c \in Nat /\ first \in [1..c -> I] /\ \A x \in I : \E n \in 1..c : first[n] = x
  BY <1>4 DEF ListsAll
<1> HIDE DEF c
<1>7. \A i \in DOMAIN list : i \in GroupOf(sigs, i) /\ GroupOf(sigs, i) \in SUBSET Nat
  <2>1. \A i \in DOMAIN list : i \in GroupOf(sigs, i) /\ GroupOf(sigs, i) \subseteq DOMAIN sigs
    BY <1>1, GroupIs
  <2> QED
    BY <1>1, <1>2, <2>1
<1>8. DOMAIN all = 1..c /\ \A n \in 1..c : all[n] = GroupOf(sigs, first[n]) /\ first[n] \in I
  BY <1>5, <1>6
<1>9. I \subseteq DOMAIN list
  BY <1>1
<1>10. ASSUME NEW i \in DOMAIN list PROVE \E n \in DOMAIN all : i \in all[n]
  <2>1. PICK k \in GroupOf(sigs, i) : \A j \in GroupOf(sigs, i) : k <= j
    BY <1>7, LeastExists
  <2>2. GroupOf(sigs, i) = GroupOf(sigs, k) /\ k \in DOMAIN sigs
    BY <1>1, <2>1, GroupOfMember, GroupIs
  <2>3. k \in I
    BY <2>1, <2>2
  <2>4. PICK n \in 1..c : first[n] = k
    BY <1>6, <2>3
  <2> QED
    BY <1>7, <1>8, <2>2, <2>4
<1> HIDE DEF I
<1>11. all \in [1..c -> SUBSET Nat]
  BY <1>5, <1>6, <1>7, <1>8, <1>9
<1>12. all \in Seq(SUBSET Nat)
  BY <1>6, <1>11
<1>13. \A n \in DOMAIN all : GroupIn(list, all[n])
  BY <1>8, <1>9 DEF GroupIn, sigs
<1> QED
  BY <1>10, <1>12, <1>13

LEMMA DeterminingIs == ASSUME NEW list \in Seq(Built) PROVE Determining(list) \in Seq(Built)
<1>1. {i \in DOMAIN list : ~Hedged(list[i])} \in SUBSET DOMAIN list
  OBVIOUS
<1> QED
  BY <1>1, KeepIs DEF Determining

Waiting == at \in {"extract", "reask"} => groups = <<>> /\ pieces = <<>> /\ part = NoPart /\ sections = <<>>

ToCompose == groups \in Seq(SUBSET Nat) /\ \A n \in DOMAIN groups : GroupIn(Deciding, groups[n])

InHand == pieces # <<>> => groups # <<>> /\ pieces = PiecesIn(Deciding, Head(groups))

Section(list, s) == GroupIn(list, s.group) /\ s.pieces = PiecesIn(list, s.group)
Stating == (\E T : sections \in Seq(T)) /\ \A k \in DOMAIN sections : Section(Deciding, sections[k])

Composing == Waiting /\ ToCompose /\ InHand /\ Stating

LEMMA ComposingInit == AnswerInit => Composing
BY DEF AnswerInit, Composing, Waiting, ToCompose, InHand, Stating

LEMMA ComposingStep == FramesOK /\ FramesOK' /\ Composing /\ [AnswerNext]_answering => Composing'
<1>1. SUFFICES ASSUME FramesOK, FramesOK', Composing, [AnswerNext]_answering PROVE Composing'
  OBVIOUS
<1>2. ASSUME frames' = frames PROVE Deciding' = Deciding
  BY <1>2 DEF Deciding
<1>3. CASE Extract \/ Reask
  <2>1. UNCHANGED <<frames, groups, pieces, part, sections>> /\ at \in {"extract", "reask"}
    BY <1>3 DEF Extract, Reask
  <2> QED
    BY <1>1, <1>2, <2>1 DEF Composing, Waiting, ToCompose, InHand, Stating
<1>4. CASE Group
  <2>1. /\ groups' = Components(SigsOf(Determining(frames'))) /\ UNCHANGED <<pieces, part, sections>>
        /\ at' \in {"fallback", "compose"} /\ at = "reask"
    BY <1>4 DEF Group
  <2>2. frames' \in Seq(Built)
    BY <1>1 DEF FramesOK
  <2>3. PICK list : list = Determining(frames')
    OBVIOUS
  <2>4. list \in Seq(Built)
    BY <2>2, <2>3, DeterminingIs
  <2>5. PICK all : all = groups'
    OBVIOUS
  <2>6. all = Components(SigsOf(list))
    BY <2>1, <2>3, <2>5
  <2>7. all \in Seq(SUBSET Nat) /\ \A n \in DOMAIN all : GroupIn(list, all[n])
    BY <2>4, <2>6, ComponentsAre
  <2>8. ToCompose'
    BY <2>3, <2>5, <2>7 DEF ToCompose, Deciding
  <2>9. pieces' = <<>> /\ sections' = <<>>
    BY <1>1, <2>1 DEF Composing, Waiting
  <2>10. Waiting' /\ InHand'
    BY <2>1, <2>9 DEF Waiting, InHand
  <2>11. Stating'
    BY <2>9 DEF Stating
  <2> QED
    BY <2>8, <2>10, <2>11 DEF Composing
<1>5. CASE Fold
  <2>1. /\ pieces' = PiecesOf(Head(groups)) /\ UNCHANGED <<at, frames, groups, part, sections>>
        /\ at = "compose" /\ groups # <<>>
    BY <1>5 DEF Fold
  <2>2. pieces' = PiecesIn(Deciding, Head(groups))
    BY <2>1, PiecesOfIs
  <2> QED
    BY <1>1, <1>2, <2>1, <2>2 DEF Composing, Waiting, ToCompose, InHand, Stating
<1>6. CASE ComposePieces
  <2>1. UNCHANGED <<at, frames, groups, pieces, sections>> /\ at = "compose"
    BY <1>6 DEF ComposePieces, P!Partition
  <2> QED
    BY <1>1, <1>2, <2>1 DEF Composing, Waiting, ToCompose, InHand, Stating
<1>7. CASE State
  <2>1. PICK sec : /\ sec.pieces = pieces /\ sec.group = Head(groups)
                   /\ sections' = Append(sections, sec)
    BY <1>7 DEF State
  <2>2. /\ groups' = Tail(groups) /\ pieces' = <<>> /\ part' = NoPart /\ UNCHANGED <<at, frames>>
        /\ at = "compose" /\ pieces # <<>>
    BY <1>7 DEF State
  <2>3. groups # <<>> /\ pieces = PiecesIn(Deciding, Head(groups)) /\ groups \in Seq(SUBSET Nat)
    BY <1>1, <2>2 DEF Composing, InHand, ToCompose
  <2>4. PICK rest : rest = groups'
    OBVIOUS
  <2>5. rest \in Seq(SUBSET Nat) /\ (\A n \in DOMAIN rest : \E m \in DOMAIN groups : rest[n] = groups[m])
        /\ 1 \in DOMAIN groups /\ Head(groups) = groups[1]
    <3>1. rest = Tail(groups)
      BY <2>2, <2>4
    <3>2. Len(groups) \in Nat /\ Len(groups) > 0 /\ DOMAIN groups = 1..Len(groups)
      BY <2>3
    <3>3. rest \in Seq(SUBSET Nat) /\ Len(rest) = Len(groups) - 1 /\ \A n \in 1..Len(rest) : rest[n] = groups[n + 1]
      BY <2>3, <3>1
    <3>4. DOMAIN rest = 1..Len(rest)
      BY <3>3
    <3>5. \A n \in 1..Len(rest) : n + 1 \in DOMAIN groups
      BY <3>2, <3>3
    <3> QED
      BY <2>3, <3>2, <3>3, <3>4, <3>5
  <2>6. ToCompose'
    <3>1. \A m \in DOMAIN groups : GroupIn(Deciding, groups[m])
      BY <1>1 DEF Composing, ToCompose
    <3> QED
      BY <1>2, <2>2, <2>4, <2>5, <3>1 DEF ToCompose
  <2>7. Section(Deciding, sec)
    <3>1. GroupIn(Deciding, Head(groups))
      BY <1>1, <2>5 DEF Composing, ToCompose
    <3> QED
      BY <2>1, <2>3, <3>1 DEF Section
  <2>8. PICK T : sections \in Seq(T)
    BY <1>1 DEF Composing, Stating
  <2>9. PICK new : new = sections'
    OBVIOUS
  <2>10. /\ new \in Seq(T \cup {sec})
         /\ \A k \in DOMAIN new : new[k] = sec \/ (k \in DOMAIN sections /\ new[k] = sections[k])
    <3>1. sections \in Seq(T \cup {sec}) /\ new = Append(sections, sec)
      BY <2>1, <2>8, <2>9
    <3> QED
      BY <3>1
  <2>11. Stating'
    <3>1. \A k \in DOMAIN sections : Section(Deciding, sections[k])
      BY <1>1 DEF Composing, Stating
    <3>2. \A k \in DOMAIN new : Section(Deciding, new[k])
      BY <2>7, <2>10, <3>1
    <3> QED
      BY <1>2, <2>2, <2>9, <2>10, <3>2 DEF Stating
  <2> QED
    BY <2>2, <2>6, <2>11 DEF Composing, Waiting, InHand
<1>8. CASE Repair \/ Fallback
  <2>1. UNCHANGED <<frames, groups, pieces, part, sections>> /\ at' = "done"
    BY <1>8 DEF Repair, Fallback
  <2> QED
    BY <1>1, <1>2, <2>1 DEF Composing, Waiting, ToCompose, InHand, Stating
<1>9. CASE UNCHANGED answering
  <2>1. UNCHANGED <<at, frames, groups, pieces, part, sections>>
    BY <1>9 DEF answering
  <2> QED
    BY <1>1, <1>2, <2>1 DEF Composing, Waiting, ToCompose, InHand, Stating
<1> QED
  BY <1>1, <1>3, <1>4, <1>5, <1>6, <1>7, <1>8, <1>9 DEF AnswerNext

LEMMA AnswersComposed == AnswerSpec => [](FramesOK /\ Composing)
BY FramesInit, FramesStep, ComposingInit, ComposingStep, PTL DEF AnswerSpec

(* signature.py:343-412: whatever the taxonomies, the frames of a group and *)
(* the number of groups, the pieces that are partitioned relate to each     *)
(* other as what the frames speak of does.                                  *)
THEOREM FoldingIsAsMeant == AnswerSpec => []FoldedAsMeant
<1>1. FramesOK /\ Composing => FoldedAsMeant
  <2>1. SUFFICES ASSUME FramesOK, Composing, NEW k \in DOMAIN sections PROVE
          LET frame(i) == Deciding[InTurn(sections[k].group)[i]]
              typed == {i \in DOMAIN sections[k].pieces : FullyTyped(frame(i))}
              piece == [i \in typed |-> Extension[sections[k].pieces[i].scope]]
              meant == [i \in typed |-> Meaning(frame(i))]
          IN \A i, j \in typed :
               /\ piece[i] \subseteq piece[j] <=> meant[i] \subseteq meant[j]
               /\ piece[i] \cap piece[j] = {} <=> meant[i] \cap meant[j] = {}
    BY DEF FoldedAsMeant
  <2> DEFINE g == sections[k].group
             frame(i) == Deciding[InTurn(g)[i]]
             typed == {i \in DOMAIN sections[k].pieces : FullyTyped(frame(i))}
             piece == [i \in typed |-> Extension[sections[k].pieces[i].scope]]
             meant == [i \in typed |-> Meaning(frame(i))]
  <2>2. Deciding \in Seq(Built)
    BY <2>1, DeterminingIs DEF FramesOK, Deciding
  <2>3. GroupIn(Deciding, g) /\ sections[k].pieces = PiecesIn(Deciding, g)
    BY <2>1 DEF Composing, Stating, Section
  <2>4. PICK m \in DOMAIN Deciding : g = GroupOf(SigsOf(Deciding), m)
    BY <2>3 DEF GroupIn
  <2>5. g \in SUBSET DOMAIN Deciding
    <3>1. DOMAIN SigsOf(Deciding) = DOMAIN Deciding
      BY DEF SigsOf
    <3> QED
      BY <2>4, <3>1, GroupIs
  <2> HIDE DEF g
  <2>6. DOMAIN sections[k].pieces = 1..Cardinality(g)
    BY <2>2, <2>3, <2>5, PiecesAre
  <2>7. ASSUME NEW i \in typed, NEW j \in typed
        PROVE  /\ piece[i] \subseteq piece[j] <=> meant[i] \subseteq meant[j]
               /\ piece[i] \cap piece[j] = {} <=> meant[i] \cap meant[j] = {}
    <3>1. i \in 1..Cardinality(g) /\ j \in 1..Cardinality(g)
      BY <2>6
    <3>2. NamesNoSlot(frame(i).app) /\ NamesNoSlot(frame(j).app)
      BY DEF FullyTyped, NamesNoSlot
    <3>3. /\ piece[i] = Extension[PiecesIn(Deciding, g)[i].scope] /\ meant[i] = Meaning(frame(i))
          /\ piece[j] = Extension[PiecesIn(Deciding, g)[j].scope] /\ meant[j] = Meaning(frame(j))
      BY <2>3
    <3>4. PICK f, h : f = frame(i) /\ h = frame(j)
      OBVIOUS
    <3>5. f = Deciding[InTurn(g)[i]] /\ h = Deciding[InTurn(g)[j]]
      BY <3>4
    <3> HIDE DEF frame
    <3>6. NamesNoSlot(f.app) /\ NamesNoSlot(h.app)
      BY <3>2, <3>4
    <3>7. CompareAs(Extension[PiecesIn(Deciding, g)[i].scope], Extension[PiecesIn(Deciding, g)[j].scope], Meaning(f), Meaning(h))
      BY <2>2, <2>4, <3>1, <3>5, <3>6, PiecesAsMeant
    <3>8. CompareAs(piece[i], piece[j], meant[i], meant[j])
      BY <3>3, <3>4, <3>7
    <3> HIDE DEF piece, meant, typed
    <3> QED
      BY <3>8 DEF CompareAs
  <2> HIDE DEF piece, meant, typed, frame
  <2> QED
    BY <2>7 DEF piece, meant, typed, frame, g
<1> QED
  BY <1>1, AnswersComposed, PTL

------------------------------------------------------------------------------
(* What a partition says of the pieces: each is a frame, discarded or        *)
(* indeterminate; a region with somebody in it has frames that govern; and   *)
(* for whoever is in no exception's scope there is one region.              *)
DefaultsIn(list, F) == {i \in F : list[i].scope \in Universal}

RegionOK(list, F, r) ==
  /\ r.governing \subseteq r.inside /\ r.inside \subseteq F
  /\ r.status = "uncovered" <=> r.inside = {}
  /\ r.status = "assigned" => \A j \in r.governing :
       j = P!First(r.governing) \/ <<list[P!First(r.governing)].outcome, list[j].outcome>> \in SameValue
  /\ (\A i \in r.inside : list[i].scope \in Universal) => r.inside = DefaultsIn(list, F)

PartOK(list, p) ==
  /\ p = NoPart \/ p.op \in {"partition", "too_many"}
  /\ p.op = "partition" =>
    /\ DOMAIN list \subseteq p.frames \cup p.discarded \cup p.indeterminate
    /\ p.frames \subseteq DOMAIN list
    /\ \A r \in p.regions : RegionOK(list, p.frames, r)
    /\ \A r, q \in p.regions : r.inside = q.inside => r = q
    /\ \A i \in p.frames : (\E r \in p.regions : i \in r.governing) \/ i \in DOMAIN p.overridden
    /\ \A i \in DOMAIN p.overridden : \A j \in p.overridden[i] : \E r \in p.regions : j \in r.governing

(* Nobody is outside the scope of a default.                                *)
LEMMA DefaultsAreInside ==
  ASSUME NEW F, NEW I \in P!Candidates(F)
  PROVE  DefaultsIn(pieces, F) \subseteq I
<1>1. SUFFICES ASSUME NEW i \in F, pieces[i].scope \in Universal, i \notin I PROVE FALSE
  BY DEF DefaultsIn
<1>2. P!ScopeOf(i) \in {P!ScopeOf(j) : j \in F \ I} /\ P!ScopeOf(i) \in Universal
  BY <1>1 DEF P!ScopeOf
<1>3. P!Satisfiable({P!ScopeOf(j) : j \in I}, {P!ScopeOf(j) : j \in F \ I})
  BY DEF P!Candidates
<1>4. PICK O : O = {P!ScopeOf(j) : j \in F \ I}
  OBVIOUS
<1>5. \E w \in [O -> Names] : \A o \in O : w[o] \in P!Dims(o)
  BY <1>3, <1>4 DEF P!Satisfiable
<1>6. P!Dims(P!ScopeOf(i)) # {}
  BY <1>2, <1>4, <1>5
<1>7. \A s \in Universal : P!Dims(s) = {}
  BY ScopeAssumption DEF P!Dims
<1> QED
  BY <1>2, <1>6, <1>7

LEMMA RegionIs ==
  ASSUME NEW F, NEW I \in P!Candidates(F)
  PROVE  RegionOK(pieces, F, P!Region(I)) /\ P!Region(I).inside = I
<1>1. I \subseteq F
  BY DEF P!Candidates
<1>2. P!Governing(I) \subseteq I
  BY DEF P!Governing
<1>3. /\ P!Region(I).inside = I /\ P!Region(I).governing = P!Governing(I)
      /\ P!Region(I).status = IF I = {} THEN "uncovered" ELSE IF P!Matched(P!Governing(I)) THEN "assigned" ELSE "contested"
  BY DEF P!Region
<1>4. P!Matched(P!Governing(I)) => \A j \in P!Governing(I) :
        j = P!First(P!Governing(I)) \/ <<pieces[P!First(P!Governing(I))].outcome, pieces[j].outcome>> \in SameValue
  BY DEF P!Matched
<1>5. (\A i \in I : pieces[i].scope \in Universal) => I = DefaultsIn(pieces, F)
  BY <1>1, DefaultsAreInside DEF DefaultsIn
<1> QED
  BY <1>1, <1>2, <1>3, <1>4, <1>5 DEF RegionOK

LEMMA PartitionIs == ASSUME P!Partition PROVE PartOK(pieces, part')
<1>1. SUFFICES ASSUME part'.op = "partition" PROVE PartOK(pieces, part')
  BY DEF PartOK, P!Partition
<1> DEFINE F == P!Frames
           R == {P!Region(I) : I \in P!Candidates(F)}
           out == [op |-> "partition", frames |-> F, discarded |-> P!Discarded,
                   indeterminate |-> P!Ids \ (F \cup P!Discarded), regions |-> R, overridden |-> P!Overridden(F, R)]
<1>2. part' = [op |-> "too_many"] \/ part' = out
  BY DEF P!Partition
<1>3. part' = out
  BY <1>1, <1>2
<1>4. /\ part'.frames = F /\ part'.discarded = P!Discarded /\ part'.indeterminate = P!Ids \ (F \cup P!Discarded)
      /\ part'.regions = R /\ part'.overridden = P!Overridden(F, R)
  BY <1>3
<1>5. DOMAIN pieces \subseteq part'.frames \cup part'.discarded \cup part'.indeterminate
  BY <1>4 DEF P!Ids
<1>11. part'.frames \subseteq DOMAIN pieces
  BY <1>4 DEF P!Frames, P!Usable, P!TypedOnes, P!Ids
<1> HIDE DEF F
<1>6. \A r \in R : RegionOK(pieces, F, r)
  BY RegionIs
<1>7. \A r, q \in R : r.inside = q.inside => r = q
  BY RegionIs
<1> HIDE DEF R
<1>8. /\ DOMAIN P!Overridden(F, R) = {j \in F : \A r \in R : j \notin r.governing}
      /\ \A i \in DOMAIN P!Overridden(F, R) : P!Overridden(F, R)[i] = UNION {r.governing : r \in {q \in R : i \in q.inside}}
  BY DEF P!Overridden
<1>9. \A i \in F : (\E r \in R : i \in r.governing) \/ i \in DOMAIN P!Overridden(F, R)
  BY <1>8
<1>10. \A i \in DOMAIN P!Overridden(F, R) : \A j \in P!Overridden(F, R)[i] : \E r \in R : j \in r.governing
  BY <1>8
<1> QED
  BY <1>1, <1>4, <1>5, <1>11, <1>6, <1>7, <1>9, <1>10 DEF PartOK

------------------------------------------------------------------------------
(* A section that is partitioned says all, and all of it is put in words; of *)
(* one that is not, all but the defaults after the first.                   *)
Says(B, i, o) == \E b \in B : i \in b.of /\ (o \in b.says \/ SaidBy({b}, o))

PartWhole(s) ==
  /\ Verbalised(s.branches) = s.branches
  /\ \A i \in DOMAIN s.pieces :
       \/ Says(s.branches, i, s.pieces[i].outcome)
       \/ i \in s.part.discarded
       \/ i \in DOMAIN s.part.overridden /\ \A j \in s.part.overridden[i] : \E b \in s.branches : j \in b.of

LaterDefault(list, i) ==
  list[i].scope \in Universal /\ \E j \in DOMAIN list : j < i /\ list[j].scope \in Universal

EachAlone(s) ==
  /\ \A i \in DOMAIN s.pieces : LaterDefault(s.pieces, i) \/ Says(Verbalised(s.branches), i, s.pieces[i].outcome)
  /\ \A b \in s.branches \ Verbalised(s.branches) :
       \E j \in DOMAIN s.pieces : LaterDefault(s.pieces, j) /\ b.says = {s.pieces[j].outcome}

SectionWhole(s) == IF s.part.op = "partition" THEN PartWhole(s) ELSE EachAlone(s)

LEMMA OfRegionIs ==
  ASSUME NEW r, r.status # "uncovered"
  PROVE  /\ OfRegion(r).of = r.governing
         /\ OfRegion(r).says = IF r.status = "assigned" THEN {pieces[P!First(r.governing)].outcome}
                               ELSE {pieces[i].outcome : i \in r.governing}
         /\ OfRegion(r).default => \A i \in r.inside : pieces[i].scope \in Universal
         /\ OfRegion(r).first = P!First(r.inside)
BY DEF OfRegion, Said, OutcomeOf, P!IsDefault, P!ScopeOf

LEMMA GoverningIsSaid ==
  ASSUME NEW F, NEW r, RegionOK(pieces, F, r), NEW i \in r.governing
  PROVE  /\ r.status # "uncovered" /\ i \in OfRegion(r).of
         /\ pieces[i].outcome \in OfRegion(r).says \/ SaidBy({OfRegion(r)}, pieces[i].outcome)
<1>1. r.status # "uncovered"
  BY DEF RegionOK
<1>2. i \in OfRegion(r).of
  BY <1>1, OfRegionIs
<1>3. ASSUME r.status # "assigned"
      PROVE  pieces[i].outcome \in OfRegion(r).says
  BY <1>1, <1>3, OfRegionIs
<1>4. ASSUME r.status = "assigned"
      PROVE  pieces[i].outcome \in OfRegion(r).says \/ SaidBy({OfRegion(r)}, pieces[i].outcome)
  <2> DEFINE o == pieces[P!First(r.governing)].outcome
  <2>1. OfRegion(r).says = {o}
    BY <1>1, <1>4, OfRegionIs
  <2>2. i = P!First(r.governing) \/ <<o, pieces[i].outcome>> \in SameValue
    BY <1>4 DEF RegionOK
  <2>3. CASE i = P!First(r.governing)
    BY <2>1, <2>3
  <2>4. CASE <<o, pieces[i].outcome>> \in SameValue
    BY <2>1, <2>4 DEF SaidBy, Same
  <2> HIDE DEF o
  <2> QED
    BY <2>2, <2>3, <2>4
<1> QED
  BY <1>1, <1>2, <1>3, <1>4

LEMMA AloneIsWhole ==
  ASSUME part.op = "too_many", DOMAIN pieces \subseteq Nat, NEW s, s.branches = Branches, s.pieces = pieces
  PROVE  EachAlone(s)
<1> DEFINE Alone(i) == Said({OutcomeOf(i)}, {i}, P!IsDefault(i), i)
<1>1. Branches = {Alone(i) : i \in DOMAIN pieces}
  BY DEF Branches
<1>2. \A i : /\ Alone(i).says = {pieces[i].outcome} /\ Alone(i).of = {i} /\ Alone(i).first = i
             /\ Alone(i).default <=> pieces[i].scope \in Universal
  BY DEF Said, OutcomeOf, P!IsDefault, P!ScopeOf
<1> HIDE DEF Alone
<1>3. ASSUME NEW i \in DOMAIN pieces, ~LaterDefault(pieces, i) PROVE Alone(i) \in Verbalised(Branches)
  <2>1. SUFFICES ASSUME Alone(i).default, NEW c \in Branches, c.default PROVE Alone(i).first <= c.first
    BY <1>1 DEF Verbalised
  <2>2. PICK j \in DOMAIN pieces : c = Alone(j)
    BY <1>1
  <2>3. ~(j < i)
    BY <1>2, <1>3, <2>1, <2>2 DEF LaterDefault
  <2>4. i \in Nat /\ j \in Nat
    OBVIOUS
  <2>5. i <= j
    BY <2>3, <2>4
  <2> QED
    BY <1>2, <2>2, <2>5
<1>4. ASSUME NEW i \in DOMAIN pieces, ~LaterDefault(pieces, i)
      PROVE  Says(Verbalised(Branches), i, pieces[i].outcome)
  BY <1>2, <1>3, <1>4 DEF Says
<1>5. ASSUME NEW b \in Branches \ Verbalised(Branches)
      PROVE  \E j \in DOMAIN pieces : LaterDefault(pieces, j) /\ b.says = {pieces[j].outcome}
  <2>1. PICK i \in DOMAIN pieces : b = Alone(i)
    BY <1>1
  <2> QED
    BY <1>2, <1>3, <2>1
<1> QED
  BY <1>4, <1>5 DEF EachAlone

LEMMA BranchesAreWhole ==
  ASSUME PartOK(pieces, part), part # NoPart, DOMAIN pieces \subseteq Nat,
         NEW s, s.branches = Branches, s.part = part, s.pieces = pieces
  PROVE  SectionWhole(s)
<1>1. SUFFICES ASSUME part.op = "partition" PROVE PartWhole(s)
  BY AloneIsWhole DEF SectionWhole, PartOK
<1> DEFINE R == {q \in part.regions : q.status # "uncovered"}
<1>2. Branches = {OfRegion(r) : r \in R} \cup {Verbatim(i) : i \in part.indeterminate}
  BY <1>1 DEF Branches
<1>3. /\ DOMAIN pieces \subseteq part.frames \cup part.discarded \cup part.indeterminate
      /\ part.frames \subseteq DOMAIN pieces
      /\ \A r \in part.regions : RegionOK(pieces, part.frames, r)
      /\ \A r, q \in part.regions : r.inside = q.inside => r = q
      /\ \A i \in part.frames : (\E r \in part.regions : i \in r.governing) \/ i \in DOMAIN part.overridden
      /\ \A i \in DOMAIN part.overridden : \A j \in part.overridden[i] : \E r \in part.regions : j \in r.governing
  BY <1>1 DEF PartOK
<1>4. \A i : ~Verbatim(i).default /\ Verbatim(i).of = {i} /\ Verbatim(i).says = {pieces[i].outcome}
  BY DEF Verbatim, Said, OutcomeOf
<1>5. ASSUME NEW b \in Branches, NEW c \in Branches, b.default, c.default PROVE b = c
  <2>1. PICK r \in R : b = OfRegion(r)
    BY <1>2, <1>4, <1>5
  <2>2. PICK q \in R : c = OfRegion(q)
    BY <1>2, <1>4, <1>5
  <2>3. r.inside = DefaultsIn(pieces, part.frames) /\ q.inside = DefaultsIn(pieces, part.frames)
    BY <1>3, <1>5, <2>1, <2>2, OfRegionIs DEF RegionOK
  <2> QED
    BY <1>3, <2>1, <2>2, <2>3
<1>6. ASSUME NEW b \in Branches, b.default PROVE b.first <= b.first
  <2>1. PICK r \in R : b = OfRegion(r)
    BY <1>2, <1>4, <1>6
  <2>2. b.first = P!First(r.inside) /\ r.inside # {} /\ r.inside \subseteq Nat
    BY <1>3, <2>1, OfRegionIs DEF RegionOK
  <2>3. PICK m \in r.inside : \A k \in r.inside : m <= k
    BY <2>2, LeastExists
  <2>4. P!First(r.inside) \in r.inside
    BY <2>3 DEF P!First
  <2>5. b.first \in Nat
    BY <2>2, <2>4
  <2> QED
    BY <2>5
<1>7. Verbalised(Branches) = Branches
  BY <1>5, <1>6 DEF Verbalised
<1>8. ASSUME NEW r \in part.regions, NEW i \in r.governing
      PROVE  Says(Branches, i, pieces[i].outcome) /\ \E b \in Branches : i \in b.of
  <2>1. /\ r.status # "uncovered" /\ i \in OfRegion(r).of
        /\ pieces[i].outcome \in OfRegion(r).says \/ SaidBy({OfRegion(r)}, pieces[i].outcome)
    BY <1>3, GoverningIsSaid
  <2>2. OfRegion(r) \in Branches
    BY <1>2, <2>1
  <2> QED
    BY <2>1, <2>2 DEF Says
<1>9. ASSUME NEW i \in part.indeterminate PROVE Says(Branches, i, pieces[i].outcome)
  BY <1>2, <1>4 DEF Says
<1>10. ASSUME NEW i \in DOMAIN pieces
       PROVE  \/ Says(Branches, i, pieces[i].outcome)
              \/ i \in part.discarded
              \/ i \in DOMAIN part.overridden /\ \A j \in part.overridden[i] : \E b \in Branches : j \in b.of
  BY <1>3, <1>8, <1>9
<1> QED
  BY <1>1, <1>7, <1>10 DEF PartWhole

(* On the way nothing is dropped: what is in hand, what is stated, what is   *)
(* still to be composed; and what the answer is made of.                    *)
Partitioning == (pieces = <<>> => part = NoPart) /\ PartOK(pieces, part)

SectionsWhole == \A k \in DOMAIN sections : SectionWhole(sections[k])

Covers(list, togo, stated) ==
  \A i \in DOMAIN list : (\E n \in DOMAIN togo : i \in togo[n]) \/ \E k \in DOMAIN stated : i \in stated[k].group

Covered == at = "compose" \/ (at = "done" /\ ~answer.fallback) => Covers(Deciding, groups, sections)

Answered ==
  at = "done" /\ ~answer.fallback =>
    /\ groups = <<>>
    /\ \A k \in DOMAIN sections : Verbalised(sections[k].branches) \subseteq answer.text
    /\ \A i \in DOMAIN frames : Hedged(frames[i]) => <<frames[i].passage, frames[i].span>> \in answer.hedged
    /\ \A i \in DOMAIN draft : i \in answer.parseOnly \/ SaidBy(Stated, draft[i].outcome)

Whole == Partitioning /\ SectionsWhole /\ Covered /\ Answered

LEMMA WholeInit == AnswerInit => Whole
BY DEF AnswerInit, Whole, Partitioning, SectionsWhole, Covered, Answered, PartOK, NoPart, NoAnswer

LEMMA RepairAnswers == ASSUME Repair PROVE Answered'
<1>1. PICK read \in SUBSET {i \in DOMAIN draft : SaidBy(Contested, draft[i].outcome)} :
        LET only == {i \in DOMAIN draft : ~SaidBy(Stated \ Contested, draft[i].outcome) /\ i \notin read} IN
        answer' = [text |-> UNION {Verbalised(sections[k].branches) : k \in DOMAIN sections}
                              \cup {Said({draft[i].outcome}, {}, FALSE, i) : i \in only},
                   hedged |-> {<<frames[i].passage, frames[i].span>> : i \in {j \in DOMAIN frames : Hedged(frames[j])}},
                   parseOnly |-> only,
                   injected |-> {i \in DOMAIN Deciding : \A j \in DOMAIN draft : ~Same(Deciding[i].outcome, draft[j].outcome)},
                   fallback |-> FALSE]
  BY DEF Repair
<1> DEFINE only == {i \in DOMAIN draft : ~SaidBy(Stated \ Contested, draft[i].outcome) /\ i \notin read}
<1>2. PICK given : given = answer'
  OBVIOUS
<1>3. /\ UNION {Verbalised(sections[k].branches) : k \in DOMAIN sections} \subseteq given.text
      /\ given.hedged = {<<frames[i].passage, frames[i].span>> : i \in {j \in DOMAIN frames : Hedged(frames[j])}}
      /\ given.parseOnly = only
  BY <1>1, <1>2
<1>4. Contested \subseteq Stated
  BY DEF Contested
<1>5. \A o : SaidBy(Contested, o) \/ SaidBy(Stated \ Contested, o) => SaidBy(Stated, o)
  BY <1>4 DEF SaidBy
<1>6. ASSUME NEW i \in DOMAIN draft PROVE i \in given.parseOnly \/ SaidBy(Stated, draft[i].outcome)
  BY <1>3, <1>5
<1>7. ASSUME NEW k \in DOMAIN sections PROVE Verbalised(sections[k].branches) \subseteq given.text
  BY <1>3
<1>8. ASSUME NEW i \in DOMAIN frames, Hedged(frames[i]) PROVE <<frames[i].passage, frames[i].span>> \in given.hedged
  BY <1>3, <1>8
<1>9. groups = <<>> /\ UNCHANGED <<draft, frames, groups, sections>>
  BY DEF Repair
<1>10. Stated' = Stated
  BY <1>9 DEF Stated
<1> QED
  BY <1>2, <1>6, <1>7, <1>8, <1>9, <1>10 DEF Answered

LEMMA WholeStep == FramesOK /\ FramesOK' /\ Composing /\ Whole /\ [AnswerNext]_answering => Whole'
<1>1. SUFFICES ASSUME FramesOK, FramesOK', Composing, Whole, [AnswerNext]_answering PROVE Whole'
  OBVIOUS
<1>2. Partitioning /\ SectionsWhole /\ Covered /\ Answered
  BY <1>1 DEF Whole
<1>3. ASSUME frames' = frames PROVE Deciding' = Deciding
  BY <1>3 DEF Deciding
<1>4. CASE Extract \/ Reask
  <2>1. UNCHANGED <<frames, groups, pieces, part, sections, answer>> /\ at' = "reask"
    BY <1>4 DEF Extract, Reask
  <2> QED
    BY <1>2, <2>1 DEF Whole, Partitioning, SectionsWhole, Covered, Answered
<1>5. CASE Group
  <2>1. /\ groups' = Components(SigsOf(Determining(frames'))) /\ UNCHANGED <<pieces, part, sections, answer>>
        /\ at' \in {"fallback", "compose"}
    BY <1>5 DEF Group
  <2>2. PICK list, togo : list = Determining(frames') /\ togo = groups'
    OBVIOUS
  <2>3. list \in Seq(Built)
    BY <1>1, <2>2, DeterminingIs DEF FramesOK
  <2>4. \A i \in DOMAIN list : \E n \in DOMAIN togo : i \in togo[n]
    BY <2>1, <2>2, <2>3, ComponentsAre
  <2>5. Covered'
    BY <2>2, <2>4 DEF Covered, Covers, Deciding
  <2> QED
    BY <1>2, <2>1, <2>5 DEF Whole, Partitioning, SectionsWhole, Answered
<1>6. CASE Fold
  <2>1. UNCHANGED <<at, draft, frames, groups, part, sections, answer>> /\ at = "compose" /\ pieces = <<>>
    BY <1>6 DEF Fold
  <2>2. part' = NoPart
    BY <1>2, <2>1 DEF Partitioning
  <2>3. Partitioning'
    BY <2>2 DEF Partitioning, PartOK, NoPart
  <2> QED
    BY <1>2, <1>3, <2>1, <2>3 DEF Whole, SectionsWhole, Covered, Answered
<1>7. CASE ComposePieces
  <2>1. UNCHANGED <<at, frames, groups, pieces, sections, answer>> /\ at = "compose" /\ pieces # <<>> /\ P!Partition
    BY <1>7 DEF ComposePieces, P!Partition
  <2>2. PartOK(pieces, part')
    BY <2>1, PartitionIs
  <2>3. Partitioning'
    BY <2>1, <2>2 DEF Partitioning
  <2> QED
    BY <1>2, <1>3, <2>1, <2>3 DEF Whole, SectionsWhole, Covered, Answered
<1>8. CASE State
  <2>1. PICK sec : /\ sec.branches = Branches /\ sec.part = part /\ sec.pieces = pieces /\ sec.group = Head(groups)
                   /\ sections' = Append(sections, sec)
    BY <1>8 DEF State
  <2>2. /\ groups' = Tail(groups) /\ pieces' = <<>> /\ part' = NoPart /\ UNCHANGED <<at, frames, answer>>
        /\ at = "compose" /\ pieces # <<>> /\ part # NoPart
    BY <1>8 DEF State
  <2>3. /\ groups # <<>> /\ groups \in Seq(SUBSET Nat) /\ pieces = PiecesIn(Deciding, Head(groups))
        /\ GroupIn(Deciding, Head(groups))
    BY <1>1, <2>2 DEF Composing, InHand, ToCompose
  <2>4. DOMAIN pieces \subseteq Nat
    <3>1. Deciding \in Seq(Built)
      BY <1>1, DeterminingIs DEF FramesOK, Deciding
    <3>2. PICK g : g = Head(groups)
      OBVIOUS
    <3>3. DOMAIN SigsOf(Deciding) = DOMAIN Deciding
      BY DEF SigsOf
    <3>4. g \in SUBSET DOMAIN Deciding
      BY <2>3, <3>2, <3>3, GroupIs DEF GroupIn
    <3>5. Cardinality(g) \in Nat /\ DOMAIN PiecesIn(Deciding, g) = 1..Cardinality(g)
      BY <3>1, <3>4, PiecesAre
    <3> QED
      BY <2>3, <3>2, <3>5
  <2>5. SectionWhole(sec)
    BY <1>2, <2>1, <2>2, <2>4, BranchesAreWhole DEF Partitioning
  <2>6. PICK T : sections \in Seq(T)
    BY <1>1 DEF Composing, Stating
  <2>7. PICK new, rest : new = sections' /\ rest = groups'
    OBVIOUS
  <2>8. /\ DOMAIN new = 1..(Len(sections) + 1) /\ DOMAIN sections = 1..Len(sections) /\ Len(sections) \in Nat
        /\ \A k \in 1..Len(sections) : new[k] = sections[k]
        /\ new[Len(sections) + 1] = sec
    <3>1. sections \in Seq(T \cup {sec}) /\ new = Append(sections, sec)
      BY <2>1, <2>6, <2>7
    <3> QED
      BY <3>1
  <2>9. SectionsWhole'
    <3>1. \A k \in DOMAIN new : SectionWhole(new[k])
      BY <1>2, <2>5, <2>8 DEF SectionsWhole
    <3> QED
      BY <2>7, <3>1 DEF SectionsWhole
  <2>10. Covered'
    <3>1. Covers(Deciding, groups, sections)
      BY <1>2, <2>2 DEF Covered
    <3>2. /\ DOMAIN rest = 1..(Len(groups) - 1) /\ DOMAIN groups = 1..Len(groups) /\ Len(groups) \in Nat
          /\ \A n \in 1..(Len(groups) - 1) : rest[n] = groups[n + 1]
          /\ groups[1] = sec.group
      <4>1. rest = Tail(groups) /\ Len(groups) > 0 /\ Len(groups) \in Nat
        BY <2>2, <2>3, <2>7
      <4> QED
        BY <2>1, <2>3, <4>1
    <3>3. ASSUME NEW i, NEW n \in DOMAIN groups, i \in groups[n]
          PROVE  (\E m \in DOMAIN rest : i \in rest[m]) \/ \E k \in DOMAIN new : i \in new[k].group
      <4>1. CASE n = 1
        <5>1. Len(sections) + 1 \in DOMAIN new
          BY <2>8
        <5> QED
          BY <2>8, <3>2, <3>3, <4>1, <5>1
      <4>2. CASE n # 1
        <5>1. n - 1 \in DOMAIN rest /\ rest[n - 1] = groups[n]
          BY <3>2, <4>2
        <5> QED
          BY <3>3, <5>1
      <4> QED
        BY <4>1, <4>2
    <3>4. ASSUME NEW i, NEW k \in DOMAIN sections, i \in sections[k].group
          PROVE  \E l \in DOMAIN new : i \in new[l].group
      <4>1. k \in DOMAIN new /\ new[k] = sections[k]
        BY <2>8
      <4> QED
        BY <3>4, <4>1
    <3>5. Covers(Deciding, rest, new)
      BY <3>1, <3>3, <3>4 DEF Covers
    <3> QED
      BY <1>3, <2>2, <2>7, <3>5 DEF Covered
  <2>11. Partitioning'
    BY <2>2 DEF Partitioning, PartOK, NoPart
  <2> QED
    BY <2>2, <2>9, <2>10, <2>11 DEF Whole, Answered
<1>9. CASE Repair
  <2>1. UNCHANGED <<draft, frames, groups, pieces, part, sections>> /\ at = "compose"
    BY <1>9 DEF Repair
  <2>2. Answered'
    BY <1>9, RepairAnswers
  <2> QED
    BY <1>2, <1>3, <2>1, <2>2 DEF Whole, Partitioning, SectionsWhole, Covered
<1>10. CASE Fallback
  <2>1. UNCHANGED <<draft, frames, groups, pieces, part, sections>> /\ at' = "done" /\ answer'.fallback = TRUE
    BY <1>10 DEF Fallback, NoAnswer
  <2> QED
    BY <1>2, <2>1 DEF Whole, Partitioning, SectionsWhole, Covered, Answered
<1>11. CASE UNCHANGED answering
  <2>1. UNCHANGED <<at, draft, frames, groups, pieces, part, sections, answer>>
    BY <1>11 DEF answering
  <2>2. Stated' = Stated
    BY <2>1 DEF Stated
  <2> QED
    BY <1>2, <1>3, <2>1, <2>2 DEF Whole, Partitioning, SectionsWhole, Covered, Answered
<1> QED
  BY <1>1, <1>4, <1>5, <1>6, <1>7, <1>8, <1>9, <1>10, <1>11 DEF AnswerNext

(* The frames that decide are some of the frames, and not hedged.           *)
LEMMA DecidingIs ==
  ASSUME FramesOK
  PROVE  \A j \in DOMAIN Deciding : \E i \in DOMAIN frames : Deciding[j] = frames[i] /\ ~Hedged(frames[i])
<1> DEFINE I == {i \in DOMAIN frames : ~Hedged(frames[i])}
<1>1. frames \in Seq(Built)
  BY DEF FramesOK
<1>2. I \in SUBSET DOMAIN frames
  OBVIOUS
<1>3. Deciding = Keep(frames, I)
  BY DEF Deciding, Determining
<1> HIDE DEF I
<1>4. PICK c : c = Cardinality(I)
  OBVIOUS
<1>5. /\ c \in Nat /\ Deciding \in Seq(Built) /\ Len(Deciding) = c
      /\ ListsAll(InTurn(I), I) /\ \A n \in 1..c : Deciding[n] = frames[InTurn(I)[n]]
  BY <1>1, <1>2, <1>3, <1>4, KeepIs
<1>6. DOMAIN Deciding = 1..c /\ InTurn(I) \in [1..c -> I]
  BY <1>4, <1>5 DEF ListsAll
<1>7. \A n \in 1..c : InTurn(I)[n] \in I
  BY <1>6
<1> QED
  BY <1>5, <1>6, <1>7 DEF I

(* The pieces of a section are a list.                                      *)
LEMMA SectionIsList ==
  ASSUME FramesOK, Composing, NEW k \in DOMAIN sections
  PROVE  LET D == DOMAIN sections[k].pieces IN D \subseteq Nat \ {0} /\ \A n \in D : \A j \in 1..(n - 1) : j \in D
<1>1. GroupIn(Deciding, sections[k].group) /\ sections[k].pieces = PiecesIn(Deciding, sections[k].group)
  BY DEF Composing, Stating, Section
<1>2. Deciding \in Seq(Built)
  BY DeterminingIs DEF FramesOK, Deciding
<1>3. PICK g : g = sections[k].group
  OBVIOUS
<1>4. DOMAIN SigsOf(Deciding) = DOMAIN Deciding
  BY DEF SigsOf
<1>5. g \in SUBSET DOMAIN Deciding
  BY <1>1, <1>3, <1>4, GroupIs DEF GroupIn
<1>6. PICK c \in Nat : DOMAIN sections[k].pieces = 1..c
  BY <1>1, <1>2, <1>3, <1>5, PiecesAre
<1> QED
  BY <1>6

(* scopecompose.py:14-22, "the answer cannot lose a branch": for any frames, *)
(* groups and drafts, the answer states each frame that determines an       *)
(* outcome, or a more specific one for all its cases, unless it holds for   *)
(* nobody; quotes each hedged one; and states each branch of the parse.     *)
THEOREM NothingLost == AnswerSpec => []NothingIsLost
<1>1. FramesOK /\ Composing /\ Whole => NothingIsLost
  <2>1. SUFFICES ASSUME FramesOK, Composing, Whole, at = "done", ~answer.fallback
                 PROVE  NothingIsLost
    BY DEF NothingIsLost
  <2>2. /\ groups = <<>>
        /\ \A k \in DOMAIN sections : Verbalised(sections[k].branches) \subseteq answer.text
        /\ \A i \in DOMAIN frames : Hedged(frames[i]) => <<frames[i].passage, frames[i].span>> \in answer.hedged
        /\ \A i \in DOMAIN draft : i \in answer.parseOnly \/ SaidBy(Stated, draft[i].outcome)
    BY <2>1 DEF Whole, Answered
  <2>3. \A k \in DOMAIN sections : SectionWhole(sections[k])
    BY <2>1 DEF Whole, SectionsWhole
  <2>4. ASSUME NEW k \in DOMAIN sections, NEW i \in DOMAIN sections[k].pieces
        PROVE  LaterDefault(sections[k].pieces, i) /\ ~Partitioned(k) <=> Unspoken(k, i)
    <3>1. PICK list : list = sections[k].pieces
      OBVIOUS
    <3>2. DOMAIN list \subseteq Nat \ {0} /\ \A n \in DOMAIN list : \A j \in 1..(n - 1) : j \in DOMAIN list
      BY <2>1, <3>1, SectionIsList
    <3>3. \A j : j \in DOMAIN list /\ j < i <=> j \in 1..(i - 1)
      BY <3>1, <3>2
    <3> QED
      BY <3>1, <3>3 DEF Unspoken, Default, LaterDefault
  <2>5. ASSUME NEW k \in DOMAIN sections, NEW i \in DOMAIN sections[k].pieces
        PROVE  \/ \E b \in sections[k].branches :
                    /\ b \in answer.text /\ i \in b.of
                    /\ sections[k].pieces[i].outcome \in b.says \/ SaidBy({b}, sections[k].pieces[i].outcome)
               \/ Unspoken(k, i)
               \/ /\ Partitioned(k)
                  /\ \/ i \in sections[k].part.discarded
                     \/ /\ i \in DOMAIN sections[k].part.overridden
                        /\ \A j \in sections[k].part.overridden[i] : \E b \in sections[k].branches : j \in b.of
    <3>1. CASE Partitioned(k)
      <4>1. PartWhole(sections[k])
        BY <2>3, <3>1 DEF SectionWhole, Partitioned
      <4>2. sections[k].branches \subseteq answer.text
        BY <2>2, <4>1 DEF PartWhole
      <4> QED
        BY <3>1, <4>1, <4>2 DEF PartWhole, Says
    <3>2. CASE ~Partitioned(k)
      <4>1. EachAlone(sections[k])
        BY <2>3, <3>2 DEF SectionWhole, Partitioned
      <4>2. LaterDefault(sections[k].pieces, i) \/ Says(Verbalised(sections[k].branches), i, sections[k].pieces[i].outcome)
        BY <4>1 DEF EachAlone
      <4>3. Verbalised(sections[k].branches) \subseteq answer.text /\ Verbalised(sections[k].branches) \subseteq sections[k].branches
        BY <2>2 DEF Verbalised
      <4>4. CASE LaterDefault(sections[k].pieces, i)
        BY <2>4, <3>2, <4>4
      <4>5. CASE Says(Verbalised(sections[k].branches), i, sections[k].pieces[i].outcome)
        BY <4>3, <4>5 DEF Says
      <4> QED
        BY <4>2, <4>4, <4>5
    <3> QED
      BY <3>1, <3>2
  <2>6. UNION {sections[k].group : k \in DOMAIN sections} = DOMAIN Deciding
    <3>1. ASSUME NEW k \in DOMAIN sections PROVE sections[k].group \subseteq DOMAIN Deciding
      <4>1. GroupIn(Deciding, sections[k].group)
        BY <2>1 DEF Composing, Stating, Section
      <4>2. DOMAIN SigsOf(Deciding) = DOMAIN Deciding
        BY DEF SigsOf
      <4> QED
        BY <4>1, <4>2, GroupIs DEF GroupIn
    <3>2. ASSUME NEW i \in DOMAIN Deciding PROVE \E k \in DOMAIN sections : i \in sections[k].group
      <4>1. Covers(Deciding, groups, sections)
        BY <2>1 DEF Whole, Covered
      <4> QED
        BY <2>2, <4>1 DEF Covers
    <3> QED
      BY <3>1, <3>2
  <2>7. ASSUME NEW i \in DOMAIN frames, Hedged(frames[i]), NEW j \in DOMAIN Deciding
        PROVE  ~SameSpan(frames[i], Deciding[j])
    <3>1. PICK l \in DOMAIN frames : Deciding[j] = frames[l] /\ ~Hedged(frames[l])
      BY <2>1, DecidingIs
    <3> QED
      BY <2>1, <2>7, <3>1 DEF FramesOK, Spans
  <2>8. ASSUME NEW i \in DOMAIN draft, i \notin answer.parseOnly
        PROVE  \/ \E b \in answer.text : \E o \in b.says : Same(draft[i].outcome, o)
               \/ \E k \in DOMAIN sections : \E j \in DOMAIN sections[k].pieces :
                    Unspoken(k, j) /\ Same(draft[i].outcome, sections[k].pieces[j].outcome)
    <3>1. PICK b \in Stated : \E o \in b.says : Same(draft[i].outcome, o)
      BY <2>2, <2>8 DEF SaidBy
    <3>2. PICK k \in DOMAIN sections : b \in sections[k].branches
      BY DEF Stated
    <3>3. CASE b \in Verbalised(sections[k].branches)
      BY <2>2, <3>1, <3>3
    <3>4. CASE b \notin Verbalised(sections[k].branches)
      <4>1. ~Partitioned(k) /\ EachAlone(sections[k])
        BY <2>3, <3>2, <3>4 DEF SectionWhole, PartWhole, Partitioned
      <4>2. PICK j \in DOMAIN sections[k].pieces :
               LaterDefault(sections[k].pieces, j) /\ b.says = {sections[k].pieces[j].outcome}
        BY <3>2, <3>4, <4>1 DEF EachAlone
      <4> QED
        BY <2>4, <3>1, <4>1, <4>2
    <3> QED
      BY <3>3, <3>4
  <2> QED
    BY <2>2, <2>5, <2>6, <2>7, <2>8 DEF NothingIsLost
<1> QED
  BY <1>1, FramesInit, FramesStep, ComposingInit, ComposingStep, WholeInit, WholeStep, PTL DEF AnswerSpec
=============================================================================
