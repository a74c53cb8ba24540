---------------------------- MODULE StudyProofs ----------------------------
(***************************************************************************)
(* The making of the benchmark, proved part by part.  The parts share no    *)
(* variable, so a step of the study is a step of one part or leaves it      *)
(* alone; each part has its own inductive invariant.                        *)
(***************************************************************************)
EXTENDS StudyInv, FiniteSetTheorems, SequenceTheorems, WellFoundedInduction, TLAPS

(* A set of numbers has a least one. *)
LEMMA LeastBelow ==
  ASSUME NEW S \in SUBSET Nat, S # {}
  PROVE  \E m \in S : \A k \in S : m <= k
<1> DEFINE R == {p \in Nat \X Nat : p[1] < p[2]}
<1>1. IsWellFoundedOn(R, Nat) BY NatLessThanWellFounded DEF OpToRel
<1>2. PICK m \in S : \A k \in S : <<k, m>> \notin R
  BY <1>1, WFMin
<1>3. ASSUME NEW k \in S PROVE m <= k
  <2>1. <<k, m>> \in Nat \X Nat /\ ~(<<k, m>>[1] < <<k, m>>[2]) BY <1>2
  <2> QED BY <2>1
<1> QED BY <1>3

(* So the least one is one of them. *)
LEMMA LeastExists ==
  ASSUME NEW S \in SUBSET Nat, S # {}
  PROVE  Min(S) \in S
  BY LeastBelow DEF Min

(* A set of numbers with a bound has a greatest one. *)
LEMMA GreatestExists ==
  ASSUME NEW n \in Nat, NEW S \in SUBSET (1..n), S # {}
  PROVE  Max(S) \in S
<1> DEFINE B == {b \in Nat : \A k \in S : k <= b}
<1>1. n \in B /\ B \in SUBSET Nat OBVIOUS
<1>2. PICK b \in B : \A c \in B : b <= c
  <2> HIDE DEF B
  <2> QED BY <1>1, LeastBelow
<1>3. b \in Nat /\ \A k \in S : k <= b BY <1>2
<1>4. b \in S
  <2>1. SUFFICES ASSUME b \notin S PROVE FALSE OBVIOUS
  <2>2. PICK k \in Nat : k \in S /\ k >= 1
    <3>1. PICK k \in S : TRUE OBVIOUS
    <3>2. k \in 1..n OBVIOUS
    <3> QED BY <3>2
  <2>3. b - 1 \in Nat BY <1>3, <2>2
  <2>4. \A m \in S : m <= b - 1 BY <1>3, <2>1
  <2>5. b - 1 \in B BY <2>3, <2>4
  <2>6. b <= b - 1 BY <1>2, <2>5
  <2> QED BY <1>3, <2>6
<1> QED BY <1>3, <1>4 DEF Max

(* Two things are two. *)
LEMMA TwoAre ==
  ASSUME NEW a, NEW b, a # b
  PROVE  IsFiniteSet({a, b}) /\ Cardinality({a, b}) = 2
<1>1. IsFiniteSet({a}) /\ Cardinality({a}) = 1 BY FS_Singleton
<1>2. /\ IsFiniteSet({a} \cup {b})
      /\ Cardinality({a} \cup {b}) = IF b \in {a} THEN Cardinality({a}) ELSE Cardinality({a}) + 1
  BY <1>1, FS_AddElement
<1>3. {a} \cup {b} = {a, b} /\ b \notin {a} OBVIOUS
<1> QED BY <1>1, <1>2, <1>3

(* A sequence has finitely many elements. *)
LEMMA RangeIsFinite ==
  ASSUME NEW T, NEW s \in Seq(T)
  PROVE  IsFiniteSet(Range(s))
<1> DEFINE n == Len(s)
<1>1. n \in Nat /\ DOMAIN s = 1..n OBVIOUS
<1>2. IsFiniteSet(1..n)
  <2>1. \A m \in Nat : IsFiniteSet(1..m) BY FS_Interval
  <2> QED BY <1>1, <2>1
<1>3. s \in Surjection(1..n, Range(s)) BY <1>1 DEF Surjection, Range
<1> HIDE DEF n
<1> QED BY <1>2, <1>3, FS_Surjection

(* How many a part of a finite set has, and with one more or one less. *)
LEMMA Fewer == ASSUME NEW T, IsFiniteSet(T), NEW S \in SUBSET T
               PROVE  IsFiniteSet(S) /\ Cardinality(S) \in Nat /\ Cardinality(T) \in Nat /\ Cardinality(S) <= Cardinality(T)
  BY FS_Subset, FS_CardinalityType

(* With one thing more there is at most one more. *)
LEMMA OneMore == ASSUME NEW T, IsFiniteSet(T), NEW x, NEW S \in SUBSET (T \cup {x})
                 PROVE  IsFiniteSet(S) /\ Cardinality(S) \in Nat /\ Cardinality(S) <= Cardinality(T) + 1
<1>1. IsFiniteSet(T \cup {x}) /\ Cardinality(T) \in Nat
      /\ Cardinality(T \cup {x}) = IF x \in T THEN Cardinality(T) ELSE Cardinality(T) + 1
  BY FS_AddElement, FS_CardinalityType
<1>2. IsFiniteSet(S) /\ Cardinality(S) \in Nat /\ Cardinality(T \cup {x}) \in Nat /\ Cardinality(S) <= Cardinality(T \cup {x})
  BY <1>1, Fewer
<1> QED BY <1>1, <1>2

(* Without one thing there is one less. *)
LEMMA OneLess == ASSUME NEW T, IsFiniteSet(T), NEW x \in T, NEW S \in SUBSET (T \ {x})
                 PROVE  IsFiniteSet(S) /\ Cardinality(S) \in Nat /\ Cardinality(S) <= Cardinality(T) - 1
<1>1. IsFiniteSet(T \ {x}) /\ Cardinality(T) \in Nat
      /\ Cardinality(T \ {x}) = IF x \in T THEN Cardinality(T) - 1 ELSE Cardinality(T)
  BY FS_RemoveElement, FS_CardinalityType
<1>2. IsFiniteSet(S) /\ Cardinality(S) \in Nat /\ Cardinality(T \ {x}) \in Nat /\ Cardinality(S) <= Cardinality(T \ {x})
  BY <1>1, Fewer
<1> QED BY <1>1, <1>2

(* Induction, for a set of numbers. *)
LEMMA AllNumbers ==
  ASSUME NEW G, 0 \in G, \A n \in Nat : n \in G => n + 1 \in G
  PROVE  Nat \subseteq G
<1>1. SUFFICES ASSUME Nat \ G # {} PROVE FALSE OBVIOUS
<1>2. PICK m \in Nat \ G : \A k \in Nat \ G : m <= k
  BY <1>1, LeastBelow
<1>3. m # 0 /\ m - 1 \in Nat /\ m - 1 \in G BY <1>2
<1>4. (m - 1) + 1 \in G BY <1>3
<1> QED BY <1>2, <1>4

(* FlattenSeq(), piece after piece. *)
Flattening(g, seqs, A) ==
  /\ g \in [0..Len(seqs) -> Seq(A)] /\ g[0] = <<>> /\ g[Len(seqs)] = FlattenSeq(seqs)
  /\ \A i \in 1..Len(seqs) : g[i] = g[i - 1] \o seqs[i]

(* The pieces can be put together one after the other. *)
LEMMA FlattenedSoFar ==
  ASSUME NEW A, NEW seqs \in Seq(Seq(A))
  PROVE  \E g : Flattening(g, seqs, A)
<1> DEFINE n == Len(seqs)
           Step(f, i) == IF i = 1 THEN seqs[i] ELSE f[i-1] \o seqs[i]
           Upto(m) == m <= n => \E f : f = [i \in 1..m |-> Step(f, i)]
           Good == {m \in Nat : Upto(m)}
<1>1. n \in Nat /\ DOMAIN seqs = 1..n /\ \A i \in 1..n : seqs[i] \in Seq(A) OBVIOUS
<1>2. Nat \subseteq Good
  <2>1. 0 \in Good
    <3>1. << >> = [i \in 1..0 |-> Step(<< >>, i)] OBVIOUS
    <3> QED BY <3>1
  <2>2. ASSUME NEW m \in Nat, m \in Good PROVE m + 1 \in Good
    <3>1. SUFFICES ASSUME m + 1 <= n PROVE \E f : f = [i \in 1..(m + 1) |-> Step(f, i)]
      <4> HIDE DEF Step, n
      <4> QED OBVIOUS
    <3>2. PICK f : f = [i \in 1..m |-> Step(f, i)]
      <4> HIDE DEF Step, n
      <4> QED BY <2>2, <3>1, <1>1
    <3> DEFINE g == [i \in 1..(m + 1) |-> IF i = m + 1 THEN Step(f, i) ELSE f[i]]
    <3>3. ASSUME NEW i \in 1..(m + 1) PROVE g[i] = Step(g, i)
      <4>1. i = 1 \/ (i - 1 \in 1..m /\ i - 1 # m + 1 /\ i - 1 \in 1..(m + 1)) OBVIOUS
      <4>2. i # 1 => g[i - 1] = f[i - 1]
        BY <4>1
      <4>3. g[i] = Step(f, i)
        <5>1. i # m + 1 => i \in 1..m OBVIOUS
        <5> HIDE DEF Step
        <5>2. i # m + 1 => f[i] = Step(f, i)
          BY <3>2, <5>1
        <5> QED BY <5>2
      <4> HIDE DEF g
      <4> QED BY <4>2, <4>3
    <3>4. g = [i \in 1..(m + 1) |-> g[i]] OBVIOUS
    <3> HIDE DEF g, Step
    <3>5. g = [i \in 1..(m + 1) |-> Step(g, i)] BY <3>3, <3>4
    <3> QED BY <3>5
  <2> HIDE DEF Good
  <2> QED BY <2>1, <2>2, AllNumbers
<1>3. CASE n = 0
  <2> DEFINE g == [i \in 0..n |-> <<>>]
  <2>1. FlattenSeq(seqs) = <<>> BY <1>3 DEF FlattenSeq
  <2>2. g \in [0..n -> Seq(A)] /\ g[0] = <<>> /\ g[n] = <<>> /\ 1..n = {} BY <1>3
  <2> HIDE DEF g
  <2>3. Flattening(g, seqs, A) BY <2>1, <2>2 DEF Flattening
  <2> QED BY <2>3
<1>4. CASE n # 0
  <2>1. \E f : f = [i \in 1..n |-> Step(f, i)]
    <3>1. n \in Good BY <1>1, <1>2
    <3> HIDE DEF Step, n
    <3> QED BY <3>1, <1>1
  <2>2. PICK h : h = [i \in 1..n |-> Step(h, i)] /\ FlattenSeq(seqs) = h[n]
    BY <2>1, <1>4 DEF FlattenSeq
  <2> DEFINE g == [i \in 0..n |-> IF i = 0 THEN <<>> ELSE h[i]]
  <2>3. ASSUME NEW m \in 1..n PROVE g[m] = g[m - 1] \o seqs[m]
    <3>1. h[m] = IF m = 1 THEN seqs[m] ELSE h[m - 1] \o seqs[m]
      BY <2>2
    <3>2. m \in 0..n /\ m # 0 /\ m - 1 \in 0..n /\ (m = 1 <=> m - 1 = 0) OBVIOUS
    <3>3. g[m] = h[m] /\ g[m - 1] = IF m = 1 THEN <<>> ELSE h[m - 1]
      BY <3>2
    <3>4. <<>> \o seqs[m] = seqs[m] BY <1>1
    <3> QED BY <3>1, <3>3, <3>4
  <2> DEFINE Fine == {m \in Nat : m \in 0..n => g[m] \in Seq(A)}
  <2>4. g[0] = <<>> /\ g[n] = FlattenSeq(seqs) BY <1>1, <1>4, <2>2
  <2>5. 0 \in Fine
    <3> HIDE DEF g
    <3>1. g[0] \in Seq(A) BY <2>4
    <3> QED BY <3>1
  <2>6. ASSUME NEW m \in Nat, m \in Fine PROVE m + 1 \in Fine
    <3> HIDE DEF g
    <3>1. SUFFICES ASSUME m + 1 \in 0..n PROVE g[m + 1] \in Seq(A) OBVIOUS
    <3>2. m + 1 \in 1..n /\ (m + 1) - 1 = m /\ m \in 0..n BY <3>1, <1>1
    <3>3. g[m + 1] = g[m] \o seqs[m + 1] BY <2>3, <3>2
    <3>4. g[m] \in Seq(A) /\ seqs[m + 1] \in Seq(A) BY <1>1, <2>6, <3>2
    <3> QED BY <3>3, <3>4
  <2>7. Nat \subseteq Fine
    <3> HIDE DEF Fine
    <3> QED BY <2>5, <2>6, AllNumbers
  <2>8. g = [i \in 0..n |-> g[i]] OBVIOUS
  <2>9. \A m \in 0..n : g[m] \in Seq(A)
    <3> HIDE DEF g, n
    <3> QED BY <1>1, <2>7
  <2> HIDE DEF g
  <2>10. g \in [0..n -> Seq(A)] BY <2>8, <2>9
  <2>11. Flattening(g, seqs, A) BY <2>3, <2>4, <2>10 DEF Flattening
  <2> QED BY <2>11
<1> QED BY <1>3, <1>4

(* What is put together of sequences is one, of the same elements. *)
LEMMA FlattenIs ==
  ASSUME NEW A, NEW seqs \in Seq(Seq(A))
  PROVE  FlattenSeq(seqs) \in Seq(A)
<1>1. PICK g : Flattening(g, seqs, A)
  BY FlattenedSoFar
<1>2. Len(seqs) \in 0..Len(seqs) OBVIOUS
<1> QED BY <1>1, <1>2 DEF Flattening

(* A piece is in what its sequence flattens to. *)
Inside(part, all, A) == \E x, y \in Seq(A) : all = (x \o part) \o y

(* What was put together of the first k pieces is what all begins with. *)
LEMMA FlattenedFrom ==
  ASSUME NEW A, NEW seqs \in Seq(Seq(A)), NEW g, Flattening(g, seqs, A), NEW k \in 0..Len(seqs)
  PROVE  \E y \in Seq(A) : FlattenSeq(seqs) = g[k] \o y
<1> DEFINE n == Len(seqs)
           Good == {m \in Nat : k + m <= n => \E y \in Seq(A) : g[k + m] = g[k] \o y}
<1>1. n \in Nat /\ k \in Nat /\ g \in [0..n -> Seq(A)] /\ (\A i \in 1..n : seqs[i] \in Seq(A) /\ g[i] = g[i - 1] \o seqs[i])
  <2>1. n \in Nat /\ \A i \in 1..n : seqs[i] \in Seq(A) OBVIOUS
  <2>2. k \in Nat BY <2>1
  <2>3. g \in [0..n -> Seq(A)] /\ \A i \in 1..n : g[i] = g[i - 1] \o seqs[i]
    BY DEF Flattening
  <2> QED BY <2>1, <2>2, <2>3
<1> HIDE DEF n
<1>2. 0 \in Good
  <2>1. g[k] \in Seq(A) /\ k + 0 = k BY <1>1 DEF n
  <2>2. <<>> \in Seq(A) /\ g[k] = g[k] \o <<>> BY <2>1
  <2> QED BY <2>1, <2>2
<1>3. ASSUME NEW m \in Nat, m \in Good PROVE m + 1 \in Good
  <2>1. SUFFICES ASSUME k + (m + 1) <= n PROVE \E y \in Seq(A) : g[k + (m + 1)] = g[k] \o y
    <3>1. m + 1 \in Nat OBVIOUS
    <3> QED BY <3>1
  <2>2. k + m <= n /\ k + (m + 1) \in 1..n /\ (k + (m + 1)) - 1 = k + m /\ k \in 0..n
    BY <1>1, <2>1
  <2>3. PICK y \in Seq(A) : g[k + m] = g[k] \o y
    BY <1>3, <2>2
  <2>4. g[k + (m + 1)] = g[k + m] \o seqs[k + (m + 1)] /\ seqs[k + (m + 1)] \in Seq(A) /\ g[k] \in Seq(A)
    BY <1>1, <2>2
  <2> DEFINE piece == seqs[k + (m + 1)]
  <2>5. piece \in Seq(A) /\ g[k + (m + 1)] = (g[k] \o y) \o piece BY <2>3, <2>4
  <2> HIDE DEF piece
  <2>6. (g[k] \o y) \o piece = g[k] \o (y \o piece) /\ y \o piece \in Seq(A)
    <3> DEFINE b == g[k]
    <3>1. b \in Seq(A) BY <2>4
    <3> HIDE DEF b
    <3>2. (b \o y) \o piece = b \o (y \o piece)
      <4>1. piece \in Seq(A) /\ y \in Seq(A) BY <2>5
      <4> QED BY <3>1, <4>1, ConcatAssociative
    <3>3. y \o piece \in Seq(A) BY <2>5
    <3> QED BY <3>2, <3>3 DEF b
  <2> QED BY <2>5, <2>6
<1>4. n - k \in Nat /\ k + (n - k) = n BY <1>1 DEF n
<1>5. n - k \in Good
  <2> HIDE DEF Good
  <2> QED BY <1>2, <1>3, <1>4, AllNumbers
<1>6. \E y \in Seq(A) : g[n] = g[k] \o y BY <1>4, <1>5, SMTT(30)
<1> QED BY <1>6 DEF n, Flattening

(* Putting two together, or many, has the elements of each and no other. *)
LEMMA TogetherHave ==
  ASSUME NEW A, NEW s \in Seq(A), NEW t \in Seq(A)
  PROVE  Range(s \o t) = Range(s) \cup Range(t)
<1>1. /\ Len(s) \in Nat /\ Len(t) \in Nat /\ DOMAIN s = 1..Len(s) /\ DOMAIN t = 1..Len(t)
      /\ s \o t \in Seq(A) /\ Len(s \o t) = Len(s) + Len(t)
      /\ \A i \in 1..(Len(s) + Len(t)) : (s \o t)[i] = IF i <= Len(s) THEN s[i] ELSE t[i - Len(s)]
  BY ConcatProperties
<1> DEFINE u == s \o t
           m == Len(s)
           n == Len(t)
<1>2. DOMAIN u = 1..(m + n) BY <1>1
<1>3. m \in Nat /\ n \in Nat /\ \A i \in 1..(m + n) : u[i] = IF i <= m THEN s[i] ELSE t[i - m]
  BY <1>1
<1>4. DOMAIN s = 1..m /\ DOMAIN t = 1..n BY <1>1
<1> HIDE DEF u, m, n
<1>5. \A i \in 1..m : i \in 1..(m + n) /\ u[i] = s[i] BY <1>3
<1>6. \A i \in 1..n : m + i \in 1..(m + n) /\ ~(m + i <= m) /\ (m + i) - m = i BY <1>3
<1>7. \A i \in 1..n : u[m + i] = t[i] BY <1>3, <1>6
<1>8. \A i \in 1..(m + n) : i \in 1..m \/ (i - m \in 1..n /\ ~(i <= m)) BY <1>3
<1>9. \A i \in 1..(m + n) : (i \in 1..m /\ u[i] = s[i]) \/ (i - m \in 1..n /\ u[i] = t[i - m])
  BY <1>3, <1>5, <1>8
<1>10. Range(u) \subseteq Range(s) \cup Range(t) BY <1>2, <1>4, <1>9 DEF Range
<1>11. Range(s) \subseteq Range(u) BY <1>2, <1>4, <1>5 DEF Range
<1>12. Range(t) \subseteq Range(u) BY <1>2, <1>4, <1>6, <1>7 DEF Range
<1> QED BY <1>10, <1>11, <1>12 DEF u

(* What is put together of sequences has what they have. *)
LEMMA FlattenHas ==
  ASSUME NEW A, NEW seqs \in Seq(Seq(A))
  PROVE  Range(FlattenSeq(seqs)) = UNION {Range(seqs[i]) : i \in DOMAIN seqs}
<1>1. PICK g : Flattening(g, seqs, A)
  BY FlattenedSoFar
<1> DEFINE n == Len(seqs)
           G == {m \in Nat : m <= n => Range(g[m]) = UNION {Range(seqs[i]) : i \in 1..m}}
<1>2. n \in Nat /\ DOMAIN seqs = 1..n /\ \A i \in 1..n : seqs[i] \in Seq(A) OBVIOUS
<1>3. /\ g \in [0..n -> Seq(A)] /\ g[0] = <<>> /\ g[n] = FlattenSeq(seqs)
      /\ \A i \in 1..n : g[i] = g[i - 1] \o seqs[i]
  BY <1>1 DEF Flattening
<1> HIDE DEF n
<1>4. 0 \in G
  <2>1. Range(<<>>) = {} BY DEF Range
  <2> QED BY <1>3, <2>1
<1>5. ASSUME NEW m \in Nat, m \in G PROVE m + 1 \in G
  <2>1. SUFFICES ASSUME m + 1 <= n PROVE Range(g[m + 1]) = UNION {Range(seqs[i]) : i \in 1..(m + 1)}
    <3>1. m + 1 \in Nat OBVIOUS
    <3> QED BY <3>1
  <2>2. m <= n /\ m \in 0..n /\ m + 1 \in 1..n /\ (m + 1) - 1 = m BY <1>2, <2>1
  <2> DEFINE a == g[m]
             p == seqs[m + 1]
  <2>3. g[m + 1] = a \o p /\ a \in Seq(A) /\ p \in Seq(A) BY <1>2, <1>3, <2>2
  <2>4. Range(a) = UNION {Range(seqs[i]) : i \in 1..m} BY <1>5, <2>2
  <2>5. 1..(m + 1) = 1..m \cup {m + 1} OBVIOUS
  <2>6. UNION {Range(seqs[i]) : i \in 1..(m + 1)} = (UNION {Range(seqs[i]) : i \in 1..m}) \cup Range(p)
    BY <2>5
  <2> HIDE DEF a, p
  <2>7. Range(a \o p) = Range(a) \cup Range(p) BY <2>3, TogetherHave
  <2> QED BY <2>3, <2>4, <2>6, <2>7
<1>6. n \in G
  <2> HIDE DEF G
  <2> QED BY <1>2, <1>4, <1>5, AllNumbers
<1>7. Range(g[n]) = UNION {Range(seqs[i]) : i \in 1..n}
  <2>1. n <= n BY <1>2
  <2> QED BY <1>6, <2>1
<1> QED BY <1>2, <1>3, <1>7


(* The sum of g over every part of S, as MapThenSumSet adds it up. *)
First(s) == CHOOSE x \in s : TRUE
Adds(it, g, s) == IF s = {} THEN 0 ELSE g[First(s)] + it[s \ {First(s)}]
Summed(it, g, S) == it = [s \in SUBSET S |-> Adds(it, g, s)]

(* One less is left. *)
LEMMA OneIsTaken ==
  ASSUME NEW S, IsFiniteSet(S), NEW s \in SUBSET S, s # {}
  PROVE  /\ First(s) \in s /\ s \ {First(s)} \in SUBSET S
         /\ Cardinality(s) \in Nat \ {0} /\ Cardinality(s \ {First(s)}) = Cardinality(s) - 1
<1>1. First(s) \in s BY DEF First
<1>2. IsFiniteSet(s) /\ Cardinality(s) \in Nat BY Fewer
<1>3. /\ IsFiniteSet(s \ {First(s)})
      /\ Cardinality(s \ {First(s)}) = IF First(s) \in s THEN Cardinality(s) - 1 ELSE Cardinality(s)
  BY <1>2, FS_RemoveElement
<1>4. Cardinality(s \ {First(s)}) \in Nat BY <1>3, FS_CardinalityType
<1>5. Cardinality(s) # 0 BY <1>1, <1>2, <1>3, <1>4
<1> QED BY <1>1, <1>2, <1>3, <1>5

(* There is such a sum. *)
LEMMA SumExists ==
  ASSUME NEW S, IsFiniteSet(S), NEW g
  PROVE  \E it : Summed(it, g, S)
<1> DEFINE Smaller(m) == {s \in SUBSET S : Cardinality(s) <= m}
           Upto(it, m) == it = [s \in SUBSET S |-> it[s]] /\ \A s \in Smaller(m) : it[s] = Adds(it, g, s)
           G == {m \in Nat : \E it : Upto(it, m)}
<1>1. 0 \in G
  <2> DEFINE it == [s \in SUBSET S |-> 0]
  <2>1. ASSUME NEW s \in Smaller(0) PROVE it[s] = Adds(it, g, s)
    <3>1. s \in SUBSET S /\ Cardinality(s) <= 0 OBVIOUS
    <3>2. s # {} => Cardinality(s) \in Nat \ {0}
      BY <3>1, OneIsTaken
    <3>3. s = {} BY <3>1, <3>2
    <3> QED BY <3>3 DEF Adds
  <2>2. it = [s \in SUBSET S |-> it[s]] OBVIOUS
  <2> HIDE DEF it
  <2>3. Upto(it, 0) BY <2>1, <2>2
  <2> QED BY <2>3
<1>2. ASSUME NEW m \in Nat, m \in G PROVE m + 1 \in G
  <2>1. PICK f : Upto(f, m)
    BY <1>2
  <2> DEFINE it == [s \in SUBSET S |-> IF Cardinality(s) = m + 1 THEN Adds(f, g, s) ELSE f[s]]
  <2>2. ASSUME NEW s \in Smaller(m + 1) PROVE it[s] = Adds(it, g, s)
    <3>1. CASE s = {}
      <4>1. Cardinality(s) = 0 BY <3>1, FS_EmptySet
      <4>2. s \in Smaller(m) /\ it[s] = f[s] BY <4>1, <1>2
      <4>3. f[s] = Adds(f, g, s) BY <2>1, <4>2
      <4> QED BY <3>1, <4>2, <4>3 DEF Adds
    <3>2. CASE s # {}
      <4> DEFINE t == s \ {First(s)}
      <4>1. t \in SUBSET S /\ Cardinality(s) \in Nat \ {0} /\ Cardinality(t) = Cardinality(s) - 1
        BY <3>2, OneIsTaken
      <4>2. Cardinality(t) # m + 1 /\ it[t] = f[t] BY <4>1, <1>2
      <4>3. it[s] = Adds(f, g, s)
        <5>1. CASE Cardinality(s) = m + 1
          BY <5>1
        <5>2. CASE Cardinality(s) # m + 1
          <6>1. s \in Smaller(m) BY <5>2, <4>1, <1>2
          <6>2. f[s] = Adds(f, g, s) BY <2>1, <6>1
          <6> QED BY <5>2, <6>2
        <5> QED BY <5>1, <5>2
      <4> HIDE DEF it
      <4> QED BY <3>2, <4>2, <4>3 DEF Adds
    <3> QED BY <3>1, <3>2
  <2>3. it = [s \in SUBSET S |-> it[s]] OBVIOUS
  <2> HIDE DEF it
  <2>4. Upto(it, m + 1) BY <2>2, <2>3
  <2> HIDE DEF Upto
  <2> QED BY <1>2, <2>4
<1>3. Cardinality(S) \in G
  <2> HIDE DEF G
  <2>1. Cardinality(S) \in Nat BY FS_CardinalityType
  <2> QED BY <1>1, <1>2, <2>1, AllNumbers
<1>4. PICK it : Upto(it, Cardinality(S))
  BY <1>3
<1>5. ASSUME NEW s \in SUBSET S PROVE it[s] = Adds(it, g, s)
  <2>1. s \in Smaller(Cardinality(S)) BY Fewer
  <2> QED BY <1>4, <2>1
<1>6. it = [s \in SUBSET S |-> it[s]] BY <1>4
<1>7. it = [s \in SUBSET S |-> Adds(it, g, s)] BY <1>5, <1>6
<1> QED BY <1>7 DEF Summed

(* A sum of numbers is a number. *)
LEMMA SumIsNumber ==
  ASSUME NEW S, IsFiniteSet(S), NEW g, NEW it, Summed(it, g, S), \A x \in S : g[x] \in Nat
  PROVE  it[S] \in Nat
<1> DEFINE G == {m \in Nat : \A s \in SUBSET S : Cardinality(s) = m => it[s] \in Nat}
<1>1. \A s \in SUBSET S : it[s] = Adds(it, g, s) BY DEF Summed
<1>2. 0 \in G
  <2>1. ASSUME NEW s \in SUBSET S, Cardinality(s) = 0 PROVE it[s] \in Nat
    <3>1. s = {} BY <2>1, OneIsTaken
    <3> QED BY <1>1, <3>1 DEF Adds
  <2> QED BY <2>1
<1>3. ASSUME NEW m \in Nat, m \in G PROVE m + 1 \in G
  <2>1. ASSUME NEW s \in SUBSET S, Cardinality(s) = m + 1 PROVE it[s] \in Nat
    <3>1. s # {} BY <2>1, FS_EmptySet
    <3>2. First(s) \in S /\ s \ {First(s)} \in SUBSET S /\ Cardinality(s \ {First(s)}) = m
      BY <2>1, <3>1, OneIsTaken
    <3>3. it[s \ {First(s)}] \in Nat /\ g[First(s)] \in Nat BY <1>3, <3>2
    <3>4. it[s] = g[First(s)] + it[s \ {First(s)}] BY <1>1, <3>1 DEF Adds
    <3> QED BY <3>3, <3>4
  <2> QED BY <2>1
<1>4. Cardinality(S) \in Nat BY FS_CardinalityType
<1>5. Cardinality(S) \in G
  <2> HIDE DEF G
  <2> QED BY <1>2, <1>3, <1>4, AllNumbers
<1> QED BY <1>5

(* A factorial is a positive number. *)
LEMMA FactorialIs == \A n \in Nat : factorial[n] \in Nat \ {0}
<1> DEFINE Step(f, n) == IF n = 0 THEN 1 ELSE n * f[n - 1]
           Upto(f, m) == DOMAIN f = 0..m /\ \A n \in 0..m : f[n] = Step(f, n)
           Some(m) == \E f : Upto(f, m)
<1>1. ASSUME NEW m \in Nat, Some(m) PROVE Some(m + 1)
  <2>1. PICK f : Upto(f, m)
    BY <1>1
  <2> DEFINE g == [n \in 0..(m + 1) |-> IF n = m + 1 THEN Step(f, n) ELSE f[n]]
  <2>2. ASSUME NEW n \in 0..(m + 1) PROVE g[n] = Step(g, n)
    <3>1. n = 0 \/ (n - 1 \in 0..m /\ n - 1 # m + 1 /\ n - 1 \in 0..(m + 1)) OBVIOUS
    <3>2. n # m + 1 => n \in 0..m OBVIOUS
    <3>3. n # m + 1 => f[n] = Step(f, n)
      <4> HIDE DEF Step
      <4> QED BY <2>1, <3>2
    <3>4. g[n] = Step(f, n)
      <4> HIDE DEF Step
      <4> QED BY <3>3
    <3>5. n # 0 => g[n - 1] = f[n - 1]
      BY <3>1
    <3> HIDE DEF g
    <3> QED BY <3>4, <3>5
  <2>3. DOMAIN g = 0..(m + 1) OBVIOUS
  <2> HIDE DEF g, Step
  <2> QED BY <2>2, <2>3
<1>2. Some(0)
  <2> DEFINE f == [n \in 0..0 |-> 1]
  <2>1. Upto(f, 0) OBVIOUS
  <2> QED BY <2>1
<1>3. \A m \in Nat : Some(m)
  <2> DEFINE G == {m \in Nat : Some(m)}
  <2> HIDE DEF Some
  <2>1. 0 \in G /\ \A m \in Nat : m \in G => m + 1 \in G
    BY <1>1, <1>2
  <2> HIDE DEF G
  <2>2. Nat \subseteq G BY <2>1, AllNumbers
  <2> QED BY <2>2 DEF G
<1>4. ASSUME NEW f, NEW g, NEW k \in Nat, NEW m \in Nat, Upto(f, k), Upto(g, m)
      PROVE  \A n \in Nat : n <= k /\ n <= m => f[n] = g[n]
  <2> DEFINE G == {n \in Nat : n <= k /\ n <= m => f[n] = g[n]}
  <2>1. 0 \in G BY <1>4
  <2>2. ASSUME NEW n \in Nat, n \in G PROVE n + 1 \in G
    <3>1. SUFFICES ASSUME n + 1 <= k, n + 1 <= m PROVE f[n + 1] = g[n + 1] OBVIOUS
    <3>2. f[n] = g[n] /\ n + 1 \in 0..k /\ n + 1 \in 0..m /\ n + 1 # 0 /\ (n + 1) - 1 = n
      BY <2>2, <3>1
    <3>3. f[n + 1] = Step(f, n + 1) /\ g[n + 1] = Step(g, n + 1)
      <4> HIDE DEF Step
      <4> QED BY <1>4, <3>2
    <3> QED BY <3>2, <3>3
  <2> HIDE DEF G
  <2>3. Nat \subseteq G BY <2>1, <2>2, AllNumbers
  <2> QED BY <2>3 DEF G
<1> DEFINE At(m) == CHOOSE f : Upto(f, m)
           F == [n \in Nat |-> At(n)[n]]
<1>5. \A m \in Nat : Upto(At(m), m)
  <2> HIDE DEF Upto
  <2> QED BY <1>3
<1>6. ASSUME NEW n \in Nat PROVE F[n] = Step(F, n)
  <2>1. At(n)[n] = Step(At(n), n)
    <3> HIDE DEF Step, At
    <3> QED BY <1>5
  <2>2. ASSUME n # 0 PROVE At(n)[n - 1] = At(n - 1)[n - 1]
    <3>1. n - 1 \in Nat /\ n - 1 <= n /\ n - 1 <= n - 1 BY <2>2
    <3>2. Upto(At(n), n) /\ Upto(At(n - 1), n - 1) BY <1>5, <3>1
    <3> HIDE DEF Upto, At
    <3>3. \A j \in Nat : j <= n /\ j <= n - 1 => At(n)[j] = At(n - 1)[j]
      BY <1>4, <3>1, <3>2
    <3> QED BY <3>1, <3>3
  <2>3. F[n] = At(n)[n] /\ (n # 0 => F[n - 1] = At(n - 1)[n - 1]) OBVIOUS
  <2> HIDE DEF F, At
  <2> QED BY <2>1, <2>2, <2>3
<1>7. F = [n \in Nat |-> Step(F, n)]
  <2>1. F = [n \in Nat |-> F[n]] OBVIOUS
  <2> HIDE DEF F, Step
  <2> QED BY <1>6, <2>1
<1>8. factorial = [n \in Nat |-> Step(factorial, n)]
  <2> HIDE DEF F
  <2> QED BY <1>7 DEF factorial
<1> HIDE DEF F, At
<1> DEFINE G == {n \in Nat : factorial[n] \in Nat \ {0}}
<1>9. 0 \in G BY <1>8
<1>10. ASSUME NEW n \in Nat, n \in G PROVE n + 1 \in G
  <2>1. factorial[n + 1] = (n + 1) * factorial[n]
    <3>1. n + 1 \in Nat /\ n + 1 # 0 /\ (n + 1) - 1 = n OBVIOUS
    <3>2. factorial[n + 1] = Step(factorial, n + 1)
      <4> HIDE DEF Step
      <4> QED BY <1>8, <3>1
    <3> QED BY <3>1, <3>2
  <2>2. \A a, b \in Nat \ {0} : a * b \in Nat \ {0} OBVIOUS
  <2> QED BY <1>10, <2>1, <2>2
<1> HIDE DEF G
<1>11. Nat \subseteq G BY <1>9, <1>10, AllNumbers
<1> QED BY <1>11 DEF G

(* A power of two counts the parts of a set. *)
LEMMA PowerIs == \A n \in Nat : 2 ^ n \in Nat \ {0}
<1> SUFFICES ASSUME NEW n \in Nat PROVE 2 ^ n \in Nat \ {0} OBVIOUS
<1>1. IsFiniteSet(1..n) /\ Cardinality(1..n) = n
  <2>1. \A b \in Nat : IsFiniteSet(1..b) /\ Cardinality(1..b) = IF 1 > b THEN 0 ELSE b - 1 + 1
    BY FS_Interval
  <2> QED BY <2>1
<1>2. IsFiniteSet(SUBSET (1..n)) /\ Cardinality(SUBSET (1..n)) = 2 ^ n BY <1>1, FS_SUBSET
<1>3. Cardinality(SUBSET (1..n)) \in Nat /\ (Cardinality(SUBSET (1..n)) = 0 => SUBSET (1..n) = {})
  BY <1>2, FS_CardinalityType, FS_EmptySet
<1> QED BY <1>2, <1>3

------------------------------------------------------------------------------
(* The blind passes. *)

(* A step of the study is one of the blind passes or leaves them alone. *)
LEMMA PassesApart ==
  ASSUME [StudyNext]_studyVars
  PROVE  PassesNext \/ UNCHANGED passVars
  BY DEF StudyNext, studyVars

LabelRecords == [type : Types \cup {None}, relation : Relations \cup {None}, escalated : BOOLEAN]

Sessions == [who : Annotators \cup {None}, todo : SUBSET DOMAIN Batch, basis : {None, "blank", "model"}, seal : BOOLEAN,
             writing : LabelRecords]

(* A session writes only what it still has before it, so a record that was  *)
(* compared while no session could write it anew stays as it is.            *)
Unexposed == \A a \in Annotators : \A i \in DOMAIN compared[a] : ~Exposed(a, i)

PassesOK ==
  /\ desk \in [Desks -> Sessions]
  /\ DOMAIN pass = Annotators /\ DOMAIN compared = Annotators
  /\ \A d \in Desks : desk[d].who = None => desk[d].todo = {}
  /\ \A d \in Desks : desk[d].writing # Nothing => desk[d].todo # {}
  /\ Unexposed

(* Nothing is asked and nothing is compared at first. *)
LEMMA PassesInitOK == PassesInit => PassesOK /\ ComparedStands
<1> SUFFICES ASSUME PassesInit PROVE PassesOK /\ ComparedStands OBVIOUS
<1>1. Away \in Sessions /\ Away.todo = {} /\ Away.writing = Nothing
  BY DEF Away, Sessions, Nothing, Labelled, LabelRecords
<1>2. PassesOK BY <1>1 DEF PassesInit, PassesOK, Unexposed, Empty
<1>3. ComparedStands BY DEF PassesInit, ComparedStands, Empty
<1> QED BY <1>2, <1>3

(* What an annotator can answer is a label's record. *)
LEMMA JudgedAre ==
  ASSUME BlindPassesAssumption
  PROVE  Chosen \subseteq LabelRecords /\ \A p \in Proposals : Reviewed(p) \subseteq LabelRecords
<1>1. \A t \in Types \cup {None}, r \in Relations \cup {None}, e \in BOOLEAN : Labelled(t, r, e) \in LabelRecords
  BY DEF Labelled, LabelRecords
<1>2. Chosen \subseteq LabelRecords
  <2>1. "conditional" \in Types BY DEF BlindPassesAssumption
  <2> QED BY <1>1, <2>1 DEF Chosen
<1>3. ASSUME NEW p \in Proposals PROVE Reviewed(p) \subseteq LabelRecords
  <2>1. p.type \in Types /\ p.relation \in Relations \cup {None}
    BY DEF BlindPassesAssumption
  <2> QED BY <1>1, <1>2, <2>1 DEF Reviewed
<1> QED BY <1>2, <1>3

(* Nothing becomes exposed by a session that has less before it than it     *)
(* had, and writes nothing it did not write already.                        *)
Shrinks(d, a) ==
  /\ desk'[d].who = a => desk[d].who = a \/ desk'[d].todo = {}
  /\ desk'[d].todo \subseteq desk[d].todo
  /\ desk'[d].who = a /\ a \in sealed /\ desk'[d].writing # Nothing =>
       desk[d].writing # Nothing /\ desk'[d].todo = desk[d].todo

LEMMA StaysSettled ==
  ASSUME Unexposed, sealed \subseteq sealed', compared' = compared,
         \A d \in Desks, a \in Annotators : Shrinks(d, a)
  PROVE  Unexposed'
<1>1. ASSUME NEW a \in Annotators, NEW i \in DOMAIN compared[a], Exposed(a, i)' PROVE FALSE
  <2>0. PICK d \in Desks : \E n \in desk'[d].todo :
          /\ desk'[d].who = a /\ Batch[n] = i
          /\ a \notin sealed' \/ (desk'[d].writing # Nothing /\ n = Min(desk'[d].todo))
    BY <1>1 DEF Exposed, AtHand
  <2>1. PICK n \in desk'[d].todo :
          /\ desk'[d].who = a /\ Batch[n] = i
          /\ a \notin sealed' \/ (desk'[d].writing # Nothing /\ n = Min(desk'[d].todo))
    BY <2>0
  <2>2. n \in desk[d].todo /\ desk[d].who = a BY <2>1 DEF Shrinks
  <2>3. a \notin sealed \/ (desk[d].writing # Nothing /\ n = Min(desk[d].todo))
    BY <2>1 DEF Shrinks
  <2>4. Exposed(a, i) BY <2>1, <2>2, <2>3 DEF Exposed, AtHand
  <2> QED BY <2>4 DEF Unexposed
<1> QED BY <1>1 DEF Unexposed

(* A step at one desk that takes nothing new on keeps the invariant. *)
LEMMA DeskStepOK ==
  ASSUME PassesOK, ComparedStands, NEW d \in Desks, NEW s \in Sessions, desk' = [desk EXCEPT ![d] = s],
         UNCHANGED <<pass, compared>>, sealed \subseteq sealed',
         s.who = desk[d].who \/ s.todo = {}, s.who = None => s.todo = {}, s.todo \subseteq desk[d].todo,
         s.writing = Nothing \/ (s.todo = desk[d].todo /\ s.todo # {} /\ s.who \notin sealed)
  PROVE  PassesOK' /\ ComparedStands'
<1>1. desk' \in [Desks -> Sessions] /\ \A e \in Desks : desk'[e] = IF e = d THEN s ELSE desk[e]
  BY DEF PassesOK
<1>2. \A e \in Desks, a \in Annotators : Shrinks(e, a) BY <1>1 DEF Shrinks
<1>3. Unexposed' BY <1>2, StaysSettled DEF PassesOK
<1>4. PassesOK' BY <1>1, <1>3 DEF PassesOK
<1>5. ComparedStands' BY DEF ComparedStands
<1> QED BY <1>4, <1>5

(* A record that was compared stays: whoever writes one of the instance was *)
(* still to write it.                                                       *)
LEMMA PassesStepOK ==
  ASSUME PassesOK, ComparedStands, [StudyNext]_studyVars
  PROVE  PassesOK' /\ ComparedStands'
<1> USE BlindPassesAssumption
<1>0. Away \in Sessions /\ Away.todo = {} /\ Away.writing = Nothing /\ Nothing \in LabelRecords
  BY DEF Away, Sessions, Nothing, Labelled, LabelRecords
<1>1. CASE UNCHANGED passVars
  BY <1>1 DEF passVars, PassesOK, Unexposed, Exposed, AtHand, ComparedStands
<1>2. ASSUME NEW d \in Desks, NEW a \in Annotators, NEW basis \in {"blank", "model"}, NEW seal \in BOOLEAN, Sit(d, a, basis, seal)
      PROVE  PassesOK' /\ ComparedStands'
  <2> DEFINE s == [who |-> a, todo |-> Todo(a), basis |-> basis, seal |-> seal, writing |-> Nothing]
  <2>1. s \in Sessions /\ s.writing = Nothing /\ s.who = a /\ s.todo = Todo(a) /\ a # None
    BY <1>0 DEF Sessions, Todo, BlindPassesAssumption
  <2>2. desk' = [desk EXCEPT ![d] = s] /\ UNCHANGED <<pass, compared, sealed>>
    BY <1>2 DEF Sit
  <2> HIDE DEF s
  <2>3. desk' \in [Desks -> Sessions] /\ \A e \in Desks : desk'[e] = IF e = d THEN s ELSE desk[e]
    BY <2>1, <2>2 DEF PassesOK
  <2>4. ComparedStands' BY <2>2 DEF ComparedStands
  <2>5. ASSUME NEW c \in Annotators, NEW i \in DOMAIN compared[c], Exposed(c, i)' PROVE FALSE
    <3>0. PICK e \in Desks : \E n \in desk'[e].todo :
            /\ desk'[e].who = c /\ Batch[n] = i
            /\ c \notin sealed \/ (desk'[e].writing # Nothing /\ n = Min(desk'[e].todo))
      BY <2>2, <2>5 DEF Exposed, AtHand
    <3>1. PICK n \in desk'[e].todo :
            /\ desk'[e].who = c /\ Batch[n] = i
            /\ c \notin sealed \/ (desk'[e].writing # Nothing /\ n = Min(desk'[e].todo))
      BY <3>0
    <3>2. CASE e = d
      BY <2>1, <2>3, <3>1, <3>2 DEF Todo, ComparedStands
    <3>3. CASE e # d
      BY <2>3, <3>1, <3>3 DEF PassesOK, Unexposed, Exposed, AtHand
    <3> QED BY <3>2, <3>3
  <2>6. PassesOK' BY <2>1, <2>2, <2>3, <2>5 DEF PassesOK, Unexposed
  <2> QED BY <2>4, <2>6
<1>3. ASSUME NEW d \in Desks, Skip(d) PROVE PassesOK' /\ ComparedStands'
  <2> DEFINE s == [desk[d] EXCEPT !.todo = @ \ {AtHand(d)}]
  <2>1. desk' = [desk EXCEPT ![d] = s] /\ UNCHANGED <<pass, compared, sealed>> /\ desk[d].writing = Nothing /\ desk[d].who # None
    BY <1>3 DEF Skip, AtDesk
  <2>2. /\ s \in Sessions /\ s.who = desk[d].who /\ s.todo \subseteq desk[d].todo /\ s.writing = Nothing
    BY <2>1 DEF PassesOK, Sessions
  <2> HIDE DEF s
  <2> QED BY <2>1, <2>2, DeskStepOK
<1>4. ASSUME NEW d \in Desks, Judge(d) PROVE PassesOK' /\ ComparedStands'
  <2>1. PICK r \in LabelRecords :
          desk' = IF Takes(desk[d].who, r) THEN [desk EXCEPT ![d].writing = r]
                  ELSE [desk EXCEPT ![d].todo = @ \ {AtHand(d)}]
    BY <1>4, JudgedAre DEF Judge
  <2>2. UNCHANGED <<pass, compared, sealed>> /\ desk[d].writing = Nothing /\ desk[d].todo # {} /\ desk[d].who # None
    BY <1>4 DEF Judge, AtDesk
  <2> DEFINE s == IF Takes(desk[d].who, r) THEN [desk[d] EXCEPT !.writing = r]
                  ELSE [desk[d] EXCEPT !.todo = @ \ {AtHand(d)}]
  <2>3. desk' = [desk EXCEPT ![d] = s] BY <2>1
  <2>4. s \in Sessions /\ s.who = desk[d].who /\ s.todo \subseteq desk[d].todo
        /\ (s.writing = Nothing \/ (s.todo = desk[d].todo /\ s.todo # {} /\ s.who \notin sealed))
    <3>1. CASE Takes(desk[d].who, r)
      <4>1. desk[d].who \notin sealed BY <3>1 DEF Takes
      <4>2. s = [desk[d] EXCEPT !.writing = r] BY <3>1
      <4> QED BY <4>1, <4>2, <2>2 DEF PassesOK, Sessions
    <3>2. CASE ~Takes(desk[d].who, r)
      <4>1. s = [desk[d] EXCEPT !.todo = @ \ {AtHand(d)}] BY <3>2
      <4> QED BY <4>1, <2>2 DEF PassesOK, Sessions
    <3> QED BY <3>1, <3>2
  <2> HIDE DEF s
  <2> QED BY <2>2, <2>3, <2>4, DeskStepOK
<1>5. ASSUME NEW d \in Desks, Write(d) PROVE PassesOK' /\ ComparedStands'
  <2> DEFINE a == desk[d].who
             n == AtHand(d)
             i == Batch[n]
             s == [desk[d] EXCEPT !.todo = @ \ {n}, !.writing = Nothing]
  <2>1. /\ desk[d].writing # Nothing /\ desk[d].todo \in SUBSET DOMAIN Batch /\ desk[d].todo # {}
        /\ DOMAIN Batch \subseteq Nat
    BY <1>5 DEF Write, PassesOK, Sessions, BlindPassesAssumption
  <2>2. n \in desk[d].todo BY <2>1, LeastExists DEF AtHand
  <2>3. a \in Annotators BY <2>1 DEF PassesOK, Sessions
  <2>4. Exposed(a, i) BY <2>1, <2>2 DEF Exposed
  <2>5. i \notin DOMAIN compared[a] BY <2>3, <2>4 DEF PassesOK, Unexposed
  <2>6. /\ pass' = [pass EXCEPT ![a] = With(@, i, desk[d].writing)]
        /\ desk' = [desk EXCEPT ![d] = s] /\ UNCHANGED <<compared, sealed>>
    BY <1>5 DEF Write
  <2>7. s \in Sessions /\ s.who = a /\ s.todo \subseteq desk[d].todo /\ s.writing = Nothing
    BY <1>0, <2>1 DEF PassesOK, Sessions
  <2> HIDE DEF n, a, i, s
  <2>8. /\ DOMAIN pass' = Annotators
        /\ \A j \in DOMAIN pass[a] \ {i} : j \in DOMAIN pass'[a] /\ pass'[a][j] = pass[a][j]
        /\ \A b \in Annotators \ {a} : pass'[b] = pass[b]
    <3>1. DOMAIN pass' = Annotators /\ pass'[a] = With(pass[a], i, desk[d].writing)
          /\ \A b \in Annotators \ {a} : pass'[b] = pass[b]
      BY <2>3, <2>6 DEF PassesOK
    <3> QED BY <3>1 DEF With
  <2>9. ComparedStands' BY <2>5, <2>6, <2>8 DEF ComparedStands
  <2>10. desk' \in [Desks -> Sessions] /\ \A e \in Desks : desk'[e] = IF e = d THEN s ELSE desk[e]
    BY <2>6, <2>7 DEF PassesOK
  <2>11. \A e \in Desks, c \in Annotators : Shrinks(e, c) BY <2>7, <2>10 DEF Shrinks, a
  <2>12. Unexposed' BY <2>6, <2>11, StaysSettled DEF PassesOK
  <2>13. PassesOK'
    BY <2>1, <2>3, <2>6, <2>7, <2>8, <2>10, <2>12 DEF PassesOK, BlindPassesAssumption
  <2> QED BY <2>9, <2>13
<1>6. ASSUME NEW d \in Desks, Leave(d) \/ Killed(d) PROVE PassesOK' /\ ComparedStands'
  <2>1. desk' = [desk EXCEPT ![d] = Away] /\ UNCHANGED <<pass, compared>> /\ sealed \subseteq sealed'
    BY <1>6 DEF Leave, Killed
  <2> QED BY <1>0, <2>1, DeskStepOK
<1>7. ASSUME NEW seal \in BOOLEAN, Agreement(seal) PROVE PassesOK' /\ ComparedStands'
  <2> DEFINE shown(a, b, c) == {i \in Shared(a, b, "type") : ~Exposed(c, i)}
  <2>1. PICK a, b \in Annotators :
          /\ a # b
          /\ compared' = [c \in Annotators |-> [i \in DOMAIN compared[c] \cup shown(a, b, c) |->
                           IF i \in DOMAIN compared[c] THEN compared[c][i] ELSE pass[c][i]]]
          /\ sealed' = IF seal THEN Annotators ELSE sealed
          /\ UNCHANGED <<pass, desk>>
    BY <1>7 DEF Agreement
  <2>2. Annotators = {a, b}
    <3>1. IsFiniteSet({a, b}) /\ Cardinality({a, b}) = 2 BY <2>1, TwoAre
    <3> QED BY <3>1, FS_Subset DEF BlindPassesAssumption
  <2>3. Shared(a, b, "type") \subseteq DOMAIN pass[a] \cap DOMAIN pass[b]
    BY DEF Shared, OnAxis
  <2>4. ASSUME NEW c \in Annotators, NEW i \in DOMAIN compared'[c]
        PROVE  i \in DOMAIN pass[c] /\ pass[c][i] = compared'[c][i] /\ ~Exposed(c, i)
    <3>1. compared'[c] = [j \in DOMAIN compared[c] \cup shown(a, b, c) |->
                             IF j \in DOMAIN compared[c] THEN compared[c][j] ELSE pass[c][j]]
      BY <2>1
    <3> QED BY <2>2, <2>3, <3>1 DEF ComparedStands, PassesOK, Unexposed
  <2>5. ComparedStands' BY <2>1, <2>4 DEF ComparedStands
  <2>6. ASSUME NEW c \in Annotators, NEW i \in DOMAIN compared'[c] PROVE ~Exposed(c, i)'
    <3>1. (c \in sealed => c \in sealed') /\ desk' = desk BY <2>1
    <3>2. ~Exposed(c, i) BY <2>4
    <3> QED BY <3>1, <3>2 DEF Exposed, AtHand
  <2>7. PassesOK' BY <2>1, <2>6 DEF PassesOK, Unexposed
  <2> QED BY <2>5, <2>7
<1>8. ASSUME BuildGold PROVE PassesOK' /\ ComparedStands'
  BY <1>8 DEF BuildGold, PassesOK, Unexposed, Exposed, AtHand, ComparedStands
<1> QED BY <1>1, <1>2, <1>3, <1>4, <1>5, <1>6, <1>7, <1>8, PassesApart DEF PassesNext

(* What two passes were compared on stays in them, unless another session   *)
(* of the annotator could still write it when it was shown (cmd_annotate,   *)
(* cmd_adjudicate and cmd_agreement of annotation/cli.py, append of         *)
(* annotation/store.py), on any number of desks.                            *)
THEOREM ComparisonStands == StudySpec => []ComparedStands
<1>1. StudyInit => PassesOK /\ ComparedStands
  BY PassesInitOK DEF StudyInit
<1>2. PassesOK /\ ComparedStands /\ [StudyNext]_studyVars => (PassesOK /\ ComparedStands)'
  BY PassesStepOK
<1> QED BY <1>1, <1>2, PTL DEF StudySpec

------------------------------------------------------------------------------
(* The review. *)

Decisions == {Decision(i, say[1], say[2], v) : i \in Range(Instances), say \in Said, v \in Nat}

Files == Seq(Decisions \cup {Half, Garbled})

ReadAt(file) == {n \in DOMAIN file : Readable(file[n])}

(* What a decision, half a line and a garbled one are told apart by. *)
LEMMA DecisionIs ==
  ASSUME NEW d \in Decisions
  PROVE  /\ Readable(d) /\ d # Half /\ d.item \in Range(Instances) /\ d.on \in Nat
         /\ d.verdict # "edit" => d.edits # "unsound"
  BY DEF Decisions, Decision, Said, Readable, Half, Garbled

(* Half a line and a garbled one are not read (review.py skips what json    *)
(* cannot parse).                                                           *)
LEMMA HalvesAre == ~Readable(Half) /\ ~Readable(Garbled) /\ Half # Garbled
  BY DEF Readable, Half, Garbled, Decision

(* The decision that counts is a line of the file, about its item. *)
LEMMA LoadedIs ==
  ASSUME NEW file \in Files, NEW i \in DOMAIN Load(file)
  PROVE  Load(file)[i] \in Decisions /\ Load(file)[i].item = i
<1> DEFINE S == {n \in ReadAt(file) : file[n].item = i}
<1>1. Load(file)[i] = file[Max(S)] /\ S # {} BY DEF Load, Latest, ReadAt
<1>2. Len(file) \in Nat /\ S \in SUBSET (1..Len(file)) BY DEF ReadAt, Files
<1>3. Max(S) \in S
  <2> HIDE DEF S
  <2> QED BY <1>1, <1>2, GreatestExists
<1>4. file[Max(S)] \in Decisions \cup {Half, Garbled} BY <1>3 DEF ReadAt, Files
<1> QED BY <1>1, <1>3, <1>4, HalvesAre DEF ReadAt

(* A line that is added: it lands behind the others, or on the half line. *)
LEMMA AppendedIs ==
  ASSUME NEW file \in Files, NEW line \in Decisions \cup {Half}
  PROVE  LET torn == file # <<>> /\ Last(file) = Half
             new == Appended(file, line)
         IN /\ new \in Files /\ new # <<>>
            /\ torn => /\ Last(new) = (IF line = Half THEN Half ELSE Garbled) /\ ReadAt(new) = ReadAt(file)
            /\ ~torn => Last(new) = line /\ ReadAt(new) = ReadAt(file) \cup {n \in {Len(file) + 1} : Readable(line)}
            /\ \A n \in ReadAt(file) : new[n] = file[n]
            /\ ~torn => new[Len(file) + 1] = line
<1> DEFINE Lines == Decisions \cup {Half, Garbled}
           new == Appended(file, line)
<1>1. file \in Seq(Lines) /\ line \in Lines BY DEF Files
<1>2. CASE file # <<>> /\ Last(file) = Half
  <2> DEFINE w == IF line = Half THEN Half ELSE Garbled
             n == Len(file)
             front == Front(file)
  <2>1. w \in Lines /\ ~Readable(w) BY HalvesAre
  <2>2. new = Append(Front(file), w) BY <1>2 DEF Appended
  <2>3. n \in Nat /\ n >= 1 /\ file[n] = Half /\ DOMAIN file = 1..n BY <1>1, <1>2 DEF Last
  <2>4. Front(file) \in Seq(Lines) /\ Len(Front(file)) = n - 1 /\ \A k \in 1..(n - 1) : Front(file)[k] = file[k]
    BY <1>1, <2>3 DEF Front
  <2> HIDE DEF Lines, w, n, front
  <2>5. /\ new \in Seq(Lines) /\ Len(new) = n /\ new[n] = w
        /\ \A k \in 1..(n - 1) : new[k] = file[k]
    <3>1. new = Append(front, w) /\ front \in Seq(Lines) /\ w \in Lines /\ n \in Nat /\ Len(front) = n - 1
      BY <2>1, <2>2, <2>3, <2>4 DEF front
    <3>2. new \in Seq(Lines) /\ Len(new) = Len(front) + 1 /\ new[Len(front) + 1] = w
          /\ \A k \in 1..Len(front) : new[k] = front[k]
      BY <3>1
    <3>3. Len(front) + 1 = n BY <3>1
    <3> QED BY <3>1, <3>2, <3>3, <2>4 DEF front
  <2>6. new # <<>> /\ Last(new) = w BY <2>3, <2>5 DEF Last
  <2>7. ReadAt(new) = ReadAt(file) /\ \A k \in ReadAt(file) : new[k] = file[k]
    BY <2>1, <2>3, <2>5, HalvesAre DEF ReadAt
  <2> QED BY <1>2, <2>5, <2>6, <2>7 DEF Files, w, Lines
<1>3. CASE ~(file # <<>> /\ Last(file) = Half)
  <2> DEFINE n == Len(file)
  <2>1. new = Append(file, line) BY <1>3 DEF Appended
  <2> HIDE DEF Lines
  <2>2. /\ n \in Nat /\ DOMAIN file = 1..n /\ new \in Seq(Lines) /\ Len(new) = n + 1 /\ new[n + 1] = line
        /\ \A k \in 1..n : new[k] = file[k]
    BY <1>1, <2>1
  <2>3. new # <<>> /\ Last(new) = line BY <2>2 DEF Last
  <2>4. ReadAt(new) = ReadAt(file) \cup {k \in {n + 1} : Readable(line)}
        /\ \A k \in ReadAt(file) : new[k] = file[k]
    BY <2>2 DEF ReadAt
  <2> QED BY <1>3, <2>2, <2>3, <2>4 DEF Files, Lines
<1> QED BY <1>2, <1>3

IsTorn(file) == file # <<>> /\ Last(file) = Half

(* A line that is added leaves what was read where it was, and is read      *)
(* itself unless it is lost on half a line or is one.                       *)
LEMMA VerdictStays ==
  ASSUME NEW file \in Files, NEW line \in Decisions \cup {Half}
  PROVE  LET new == Appended(file, line)
             lost == IsTorn(file) \/ line = Half
         IN /\ ReadAt(new) = ReadAt(file) \cup (IF lost THEN {} ELSE {Len(file) + 1})
            /\ \A n \in ReadAt(file) : new[n] = file[n]
            /\ ~lost => new[Len(file) + 1] = line
            /\ DOMAIN Load(new) = DOMAIN Load(file) \cup (IF lost THEN {} ELSE {line.item})
<1> DEFINE new == Appended(file, line)
           here == Len(file) + 1
           added == IF IsTorn(file) \/ line = Half THEN {} ELSE {here}
<1>1. DOMAIN Load(file) = {file[n].item : n \in ReadAt(file)} /\ DOMAIN Load(new) = {new[n].item : n \in ReadAt(new)}
  BY DEF Load, Latest, ReadAt
<1>2. /\ ReadAt(new) = ReadAt(file) \cup added
      /\ \A n \in ReadAt(file) : new[n] = file[n]
      /\ added # {} => new[here] = line /\ line # Half
  <2>1. line # Half => Readable(line)
    BY DecisionIs
  <2> QED BY <2>1, AppendedIs, HalvesAre DEF IsTorn
<1>3. DOMAIN Load(new) = DOMAIN Load(file) \cup (IF IsTorn(file) \/ line = Half THEN {} ELSE {line.item})
  <2> HIDE DEF new
  <2>1. {new[n].item : n \in ReadAt(file) \cup added} = {file[n].item : n \in ReadAt(file)} \cup {new[n].item : n \in added}
    BY <1>2
  <2>2. {new[n].item : n \in added} = IF IsTorn(file) \/ line = Half THEN {} ELSE {line.item}
    BY <1>2
  <2> QED BY <1>1, <1>2, <2>1, <2>2
<1> QED BY <1>2, <1>3

(* A step of the study is one of the loop or leaves it alone. *)
LEMMA LoopApart ==
  ASSUME [StudyNext]_studyVars
  PROVE  LoopNext \/ UNCHANGED loopVars
  BY DEF StudyNext, studyVars

Somebody == Reviewers \cup {Nobody}

Entries == [branches : Nat, by : Somebody, second : Somebody, personas : Nat, sound : BOOLEAN, reader : Somebody]

Proposed == [version : Nat \ {0}, base : Entries, problems : 0..1]

ItemFiles == UNION {[S -> Proposed] : S \in SUBSET Range(Instances)}

(* Whatever apply-* wrote, merged or not, was let through; and whoever has  *)
(* decided on an item of the file, or has it still before them, saw the     *)
(* proposal that is in the file, or was overtaken by it.                    *)
Vouched(entry, i) ==
  entry \in Entries /\ Signed(entry, i) /\ (entry.personas # 0 => entry.reader \in Reviewers)

Current(r, kind, i, on) ==
  i \in DOMAIN items[kind] => on = items[kind][i].version \/ <<kind, r, i, items[kind][i].version>> \in overtaken

LinesOK(kind, r) ==
  \A n \in ReadAt(lines[kind][r]) : Current(r, kind, lines[kind][r][n].item, lines[kind][r][n].on)

Reviews == [by : Somebody, kind : Kinds \cup {Nobody}, todo : SUBSET DOMAIN Instances, shown : ItemFiles]

Asking(s) ==
  /\ s.kind \in Kinds /\ s.todo # {}
  /\ \A n \in s.todo : Instances[n] \in DOMAIN s.shown /\ Current(s.by, s.kind, Instances[n], s.shown[Instances[n]].version)

SessionOK(t) == session[t].by # Nobody => Asking(session[t])

LoopOK ==
  /\ corpus \in [Range(Instances) -> Entries] /\ \A i \in Range(Instances) : Vouched(corpus[i], i)
  /\ items \in [Kinds -> ItemFiles] /\ \A i \in DOMAIN items["branches"] : items["branches"][i].base.personas = 0
  /\ lines \in [Kinds -> [Reviewers -> Files]] /\ \A kind \in Kinds, r \in Reviewers : LinesOK(kind, r)
  /\ session \in [Terminals -> Reviews] /\ \A t \in Terminals : SessionOK(t)
  /\ DOMAIN updates \subseteq Range(Instances) /\ \A i \in DOMAIN updates : Vouched(updates[i], i)
  /\ given \in [Kinds -> [Reviewers -> SUBSET Range(Instances)]]
  /\ fresh \in Nat /\ kills \in [Reviewers -> Nat]

(* The files that end in half a line, which the next one will be lost on. *)
Torn(r) == {kind \in Kinds : IsTorn(lines[kind][r])}

KillsPay == \A r \in Reviewers : Cardinality(Lost(r)) + Cardinality(Torn(r)) <= kills[r]

(* Nobody is neither a kind nor a reviewer, and no items are a file. *)
LEMMA SomebodyElse ==
  /\ Nobody \notin Kinds /\ Nobody \notin Reviewers
  /\ NoItems \in ItemFiles /\ DOMAIN NoItems = {}
  /\ Idle \in Reviews /\ Idle.by = Nobody
<1>1. NoItems \in [{} -> Proposed] BY DEF NoItems
<1>2. {} \in SUBSET Range(Instances) OBVIOUS
<1>3. NoItems \in ItemFiles /\ DOMAIN NoItems = {} /\ Nobody \notin Kinds
  BY <1>1, <1>2 DEF Nobody, Kinds, NoItems, ItemFiles
<1>4. Idle \in Reviews /\ Idle.by = Nobody BY <1>3 DEF Idle, Reviews, Somebody
<1> QED BY <1>3, <1>4, HumanLoopAssumption DEF HumanLoopAssumption

(* At first nothing was proposed, said or merged. *)
LEMMA LoopInitOK ==
  ASSUME LoopInit
  PROVE  LoopOK /\ KillsPay
<1>1. << >> \in Files /\ ReadAt(<< >>) = {} BY DEF Files, ReadAt
<1>2. \A i \in Range(Instances) : Vouched(corpus[i], i)
  BY DEF LoopInit, Vouched, Signed, Entries, Somebody
<1>3. corpus \in [Range(Instances) -> Entries] BY DEF LoopInit, Entries, Somebody
<1>4. items \in [Kinds -> ItemFiles] /\ \A kind \in Kinds : DOMAIN items[kind] = {}
  BY SomebodyElse DEF LoopInit
<1>5. /\ lines \in [Kinds -> [Reviewers -> Files]] /\ \A kind \in Kinds, r \in Reviewers : LinesOK(kind, r)
  BY <1>1 DEF LoopInit, LinesOK
<1>6. session \in [Terminals -> Reviews] /\ \A t \in Terminals : SessionOK(t)
  BY SomebodyElse DEF LoopInit, SessionOK
<1>7. /\ DOMAIN updates = {} /\ given \in [Kinds -> [Reviewers -> SUBSET Range(Instances)]]
      /\ fresh \in Nat /\ kills \in [Reviewers -> Nat]
  BY SomebodyElse DEF LoopInit
<1>8. LoopOK BY <1>2, <1>3, <1>4, <1>5, <1>6, <1>7 DEF LoopOK, Kinds
<1>9. ASSUME NEW r \in Reviewers PROVE Lost(r) = {} /\ Torn(r) = {}
  BY DEF LoopInit, Lost, Torn, IsTorn
<1>10. KillsPay
  <2>1. \A r \in Reviewers : Cardinality(Lost(r)) = 0 /\ Cardinality(Torn(r)) = 0 /\ kills[r] = 0
    BY <1>9, FS_EmptySet DEF LoopInit
  <2> QED BY <2>1 DEF KillsPay
<1> QED BY <1>8, <1>10

(* What was read in a file is still read in it, where it was. *)
StillRead(kind, r) ==
  \A n \in ReadAt(lines[kind][r]) : n \in ReadAt(lines'[kind][r]) /\ lines'[kind][r][n] = lines[kind][r][n]

(* What was let through is let through as long as what was read is read. *)
LEMMA StaysVouched ==
  ASSUME NEW entry, NEW i, Vouched(entry, i),
         \A kind \in Kinds, r \in Reviewers : StillRead(kind, r), overtaken \subseteq overtaken'
  PROVE  Vouched(entry, i)'
<1>1. ASSUME NEW kind \in Kinds, NEW r \in Reviewers, NEW version, LetThrough(r, kind, i, version)
      PROVE  LetThrough(r, kind, i, version)'
  <2>1. PICK n \in DOMAIN lines[kind][r] :
          LET line == lines[kind][r][n] IN
          /\ Readable(line) /\ line.item = i /\ line.verdict \in Positive
          /\ line.on = version \/ <<kind, r, i, version>> \in overtaken
    BY <1>1 DEF LetThrough
  <2>2. n \in ReadAt(lines[kind][r]) BY <2>1 DEF ReadAt
  <2>3. n \in ReadAt(lines'[kind][r]) /\ lines'[kind][r][n] = lines[kind][r][n]
    BY <2>2 DEF StillRead
  <2>4. n \in DOMAIN lines'[kind][r] BY <2>3 DEF ReadAt
  <2> QED BY <2>1, <2>3, <2>4 DEF LetThrough
<1>2. entry.by \in Somebody /\ entry.second \in Somebody BY DEF Vouched, Entries
<1>3. "branches" \in Kinds /\ "personas" \in Kinds BY DEF Kinds
<1> HIDE DEF LetThrough
<1> QED BY <1>1, <1>2, <1>3 DEF Vouched, Signed, Somebody

(* A line more takes nothing away that was read, and is read as written. *)
LEMMA ReadOn ==
  ASSUME NEW file \in Files, NEW line \in Decisions \cup {Half}, NEW new, new = Appended(file, line)
  PROVE  /\ \A n \in ReadAt(file) : n \in ReadAt(new) /\ new[n] = file[n]
         /\ ReadAt(new) \subseteq ReadAt(file) \cup {Len(file) + 1}
         /\ Len(file) + 1 \in ReadAt(new) => new[Len(file) + 1] = line
         /\ line = Half => ReadAt(new) = ReadAt(file)
<1> DEFINE lost == IsTorn(file) \/ line = Half
           more == IF lost THEN {} ELSE {Len(file) + 1}
<1>1. /\ ReadAt(new) = ReadAt(file) \cup more
      /\ \A n \in ReadAt(file) : new[n] = file[n]
      /\ ~lost => new[Len(file) + 1] = line
  BY VerdictStays
<1>2. Len(file) + 1 \notin ReadAt(file) BY DEF ReadAt, Files
<1>3. (line = Half => lost) /\ (more = {} \/ (more = {Len(file) + 1} /\ ~lost)) /\ (lost => more = {}) OBVIOUS
<1> HIDE DEF lost, more
<1> QED BY <1>1, <1>2, <1>3

(* One file gets one line more. *)
LEMMA LineAdded ==
  ASSUME lines \in [Kinds -> [Reviewers -> Files]],
         NEW kind \in Kinds, NEW r \in Reviewers, NEW line \in Decisions \cup {Half},
         lines' = [lines EXCEPT ![kind][r] = Appended(@, line)]
  PROVE  /\ lines' \in [Kinds -> [Reviewers -> Files]]
         /\ lines'[kind][r] = Appended(lines[kind][r], line)
         /\ \A k \in Kinds, q \in Reviewers : <<k, q>> # <<kind, r>> => lines'[k][q] = lines[k][q]
         /\ \A k \in Kinds, q \in Reviewers : StillRead(k, q)
<1>1. lines[kind][r] \in Files /\ Appended(lines[kind][r], line) \in Files
  <2>1. lines[kind][r] \in Files OBVIOUS
  <2> QED BY <2>1, AppendedIs
<1>2. /\ lines' \in [Kinds -> [Reviewers -> Files]]
      /\ lines'[kind][r] = Appended(lines[kind][r], line)
      /\ \A k \in Kinds, q \in Reviewers : <<k, q>> # <<kind, r>> => lines'[k][q] = lines[k][q]
  BY <1>1
<1>3. StillRead(kind, r)
  <2>1. lines[kind][r] \in Files OBVIOUS
  <2>2. \A n \in ReadAt(lines[kind][r]) : n \in ReadAt(lines'[kind][r]) /\ lines'[kind][r][n] = lines[kind][r][n]
    BY <1>2, <2>1, ReadOn
  <2> QED BY <2>2 DEF StillRead
<1>4. ASSUME NEW k \in Kinds, NEW q \in Reviewers, <<k, q>> # <<kind, r>> PROVE StillRead(k, q)
  BY <1>2, <1>4 DEF StillRead
<1> QED BY <1>2, <1>3, <1>4

(* What is counted is finite. *)
LEMMA CountsAreFinite ==
  ASSUME NEW r
  PROVE  IsFiniteSet(Lost(r)) /\ IsFiniteSet(Torn(r)) /\ Cardinality(Lost(r)) \in Nat /\ Cardinality(Torn(r)) \in Nat
<1>1. IsFiniteSet(Kinds) BY TwoAre DEF Kinds
<1>2. IsFiniteSet(Range(Instances))
  BY RangeIsFinite, HumanLoopAssumption DEF HumanLoopAssumption
<1>3. IsFiniteSet(Kinds \X Range(Instances)) BY <1>1, <1>2, FS_Product
<1>4. Lost(r) \in SUBSET (Kinds \X Range(Instances)) /\ Torn(r) \in SUBSET Kinds
  BY DEF Lost, Torn
<1> HIDE DEF Kinds
<1> QED BY <1>1, <1>3, <1>4, Fewer

(* Half a line costs a kill, and the line that it swallows costs a verdict. *)
LineWritten(kind, r, line) ==
  /\ lines' = [lines EXCEPT ![kind][r] = Appended(@, line)]
  /\ \A k \in Kinds, q \in Reviewers :
       given'[k][q] \subseteq given[k][q] \cup (IF <<k, q>> = <<kind, r>> /\ line # Half THEN {line.item} ELSE {})
  /\ \A q \in Reviewers : kills'[q] = IF q = r /\ line = Half THEN kills[q] + 1 ELSE kills[q]

(* A line loses at most one verdict, and only on the half line of a kill. *)
LEMMA LineCosts ==
  ASSUME LoopOK, KillsPay,
         NEW kind \in Kinds, NEW r \in Reviewers, NEW line \in Decisions \cup {Half}, LineWritten(kind, r, line)
  PROVE  KillsPay'
<1> USE DEF LineWritten
<1> DEFINE file == lines[kind][r]
           new == Appended(file, line)
<1>1. /\ lines \in [Kinds -> [Reviewers -> Files]] /\ file \in Files
      /\ \A q \in Reviewers : kills[q] \in Nat
  BY DEF LoopOK
<1>2. /\ lines'[kind][r] = new
      /\ \A k \in Kinds, q \in Reviewers : <<k, q>> # <<kind, r>> => lines'[k][q] = lines[k][q]
  <2>1. lines \in [Kinds -> [Reviewers -> Files]] /\ lines' = [lines EXCEPT ![kind][r] = Appended(@, line)]
    BY <1>1
  <2> HIDE DEF file, new, LineWritten
  <2>2. lines'[kind][r] = Appended(lines[kind][r], line) BY <2>1, LineAdded
  <2>3. \A k \in Kinds, q \in Reviewers : <<k, q>> # <<kind, r>> => lines'[k][q] = lines[k][q]
    BY <2>1, LineAdded
  <2> QED BY <2>2, <2>3 DEF file, new
<1>3. DOMAIN Load(new) = DOMAIN Load(file) \cup (IF IsTorn(file) \/ line = Half THEN {} ELSE {line.item})
  BY <1>1, VerdictStays
<1>4. IsTorn(new) <=> line = Half
  <2>1. new # << >> /\ Last(new) \in {line, IF line = Half THEN Half ELSE Garbled}
    BY <1>1, AppendedIs
  <2>2. line # Half => Last(new) # Half
    BY <2>1, HalvesAre
  <2>3. line = Half => Last(new) = Half
    BY <2>1
  <2> QED BY <2>1, <2>2, <2>3 DEF IsTorn
<1> HIDE DEF file, new
<1>5. ASSUME NEW q \in Reviewers, NEW p \in Lost(q)'
      PROVE  p \in Lost(q) \/ (q = r /\ line # Half /\ IsTorn(file) /\ p = <<kind, line.item>>)
  <2>1. p \in Kinds \X Range(Instances) /\ p[2] \in given'[p[1]][q] /\ p[2] \notin DOMAIN Load(lines'[p[1]][q])
    BY DEF Lost
  <2>2. p[2] \notin DOMAIN Load(lines[p[1]][q])
    <3>1. CASE <<p[1], q>> = <<kind, r>>
      BY <2>1, <3>1, <1>2, <1>3 DEF file
    <3>2. CASE <<p[1], q>> # <<kind, r>>
      BY <2>1, <3>2, <1>2
    <3> QED BY <3>1, <3>2
  <2>3. p[2] \in given[p[1]][q] => p \in Lost(q)
    BY <2>1, <2>2 DEF Lost
  <2>4. CASE p[2] \notin given[p[1]][q]
    <3>1. p[1] = kind /\ q = r /\ line # Half /\ p[2] = line.item BY <2>1, <2>4
    <3>2. IsTorn(file) BY <2>1, <3>1, <1>2, <1>3
    <3> QED BY <2>1, <3>1, <3>2
  <2> QED BY <2>3, <2>4
<1>6. \A q \in Reviewers, k \in Kinds : k \in Torn(q)' <=> IF <<k, q>> = <<kind, r>> THEN line = Half ELSE k \in Torn(q)
  BY <1>2, <1>4 DEF Torn
<1>7. ASSUME NEW q \in Reviewers
      PROVE  Cardinality(Lost(q)') + Cardinality(Torn(q)') <= kills'[q]
  <2> DEFINE l == Cardinality(Lost(q))
             t == Cardinality(Torn(q))
             l1 == Cardinality(Lost(q)')
             t1 == Cardinality(Torn(q)')
  <2>1. IsFiniteSet(Lost(q)) /\ IsFiniteSet(Torn(q)) /\ l \in Nat /\ t \in Nat
    BY CountsAreFinite
  <2>2. l + t <= kills[q] /\ kills[q] \in Nat BY <1>1 DEF KillsPay
  <2>3. CASE q # r \/ (line # Half /\ ~IsTorn(file))
    <3>1. Lost(q)' \in SUBSET Lost(q) /\ Torn(q)' \in SUBSET Torn(q)
      <4>1. Lost(q)' \in SUBSET Lost(q) BY <1>5, <2>3
      <4>2. Torn(q)' \in SUBSET Torn(q)
        <5>1. Torn(q)' \subseteq Kinds BY DEF Torn
        <5> QED BY <5>1, <1>6, <2>3
      <4> QED BY <4>1, <4>2
    <3>2. kills'[q] = kills[q] BY <2>3
    <3>3. l1 \in Nat /\ l1 <= l /\ t1 \in Nat /\ t1 <= t BY <2>1, <3>1, Fewer
    <3> HIDE DEF l, t, l1, t1
    <3>4. l1 + t1 <= kills'[q] BY <2>1, <2>2, <3>2, <3>3
    <3> QED BY <3>4 DEF l1, t1
  <2>4. CASE q = r /\ line = Half
    <3>1. Lost(q)' \in SUBSET Lost(q) BY <1>5, <2>4
    <3>2. Torn(q)' \in SUBSET (Torn(q) \cup {kind})
      <4>1. Torn(q)' \subseteq Kinds BY DEF Torn
      <4> QED BY <4>1, <1>6, <2>4
    <3>3. kills'[q] = kills[q] + 1 BY <2>4
    <3>4. l1 \in Nat /\ l1 <= l BY <2>1, <3>1, Fewer
    <3>5. t1 \in Nat /\ t1 <= t + 1 BY <2>1, <3>2, OneMore
    <3> HIDE DEF l, t, l1, t1
    <3>6. l1 + t1 <= kills'[q] BY <2>1, <2>2, <3>3, <3>4, <3>5
    <3> QED BY <3>6 DEF l1, t1
  <2>5. CASE q = r /\ line # Half /\ IsTorn(file)
    <3>1. Lost(q)' \in SUBSET (Lost(q) \cup {<<kind, line.item>>}) BY <1>5, <2>5
    <3>2. kind \in Torn(q) /\ Torn(q)' \in SUBSET (Torn(q) \ {kind})
      <4>1. Torn(q)' \subseteq Kinds BY DEF Torn
      <4>2. kind \in Torn(q) BY <2>5 DEF Torn, file
      <4> QED BY <4>1, <4>2, <1>6, <2>5
    <3>3. kills'[q] = kills[q] BY <2>5
    <3>4. l1 \in Nat /\ l1 <= l + 1 BY <2>1, <3>1, OneMore
    <3>5. t1 \in Nat /\ t1 <= t - 1 BY <2>1, <3>2, OneLess
    <3> HIDE DEF l, t, l1, t1
    <3>6. l1 + t1 <= kills'[q] BY <2>1, <2>2, <3>3, <3>4, <3>5
    <3> QED BY <3>6 DEF l1, t1
  <2> QED BY <2>3, <2>4, <2>5
<1> QED BY <1>7 DEF KillsPay

(* A session that is not asked differently stays in order when the files    *)
(* only change by what is read, or by what is overtaken.                    *)
LEMMA AskingStays ==
  ASSUME UNCHANGED items, overtaken \subseteq overtaken', NEW s, Asking(s)
  PROVE  Asking(s)'
<1>1. s.kind \in Kinds /\ s.todo # {} BY DEF Asking
<1>2. ASSUME NEW n \in s.todo
      PROVE  Instances[n] \in DOMAIN s.shown /\ Current(s.by, s.kind, Instances[n], s.shown[Instances[n]].version)'
  BY <1>2 DEF Asking, Current
<1> QED BY <1>1, <1>2 DEF Asking

(* Where nothing is written the invariant is about the same files. *)
LEMMA FilesStay ==
  ASSUME LoopOK, UNCHANGED <<corpus, items, lines, updates, overtaken>>
  PROVE  /\ \A kind \in Kinds, r \in Reviewers : LinesOK(kind, r)'
         /\ \A s : Asking(s) => Asking(s)'
         /\ \A entry, i : Vouched(entry, i) => Vouched(entry, i)'
<1>1. \A kind \in Kinds, r \in Reviewers : LinesOK(kind, r)'
  BY DEF LoopOK, LinesOK, Current
<1>2. \A s : Asking(s) => Asking(s)'
  BY AskingStays
<1>3. \A entry, i : Vouched(entry, i) => Vouched(entry, i)'
  BY DEF Vouched, Signed, LetThrough
<1> QED BY <1>1, <1>2, <1>3

(* A decision is about the item as the session has it, which is the one of  *)
(* the file or was overtaken by it.                                         *)
LEMMA DecideOK ==
  ASSUME LoopOK, KillsPay, NEW t \in Terminals, Decide(t)
  PROVE  LoopOK' /\ KillsPay'
<1> DEFINE kind == session[t].kind
           r == session[t].by
           n == Min(session[t].todo)
           i == Instances[n]
           file == lines[kind][r]
<1>1. /\ session \in [Terminals -> Reviews] /\ SessionOK(t) /\ lines \in [Kinds -> [Reviewers -> Files]]
      /\ given \in [Kinds -> [Reviewers -> SUBSET Range(Instances)]]
  BY DEF LoopOK
<1>2. r \in Reviewers /\ Asking(session[t])
  <2>1. r # Nobody BY DEF Decide, Reviewing
  <2> QED BY <2>1, <1>1 DEF SessionOK, Reviews, Somebody
<1>3. /\ session[t].todo \in SUBSET DOMAIN Instances /\ session[t].todo # {}
      /\ DOMAIN Instances \subseteq Nat /\ session[t].shown \in ItemFiles
  BY <1>1, <1>2, HumanLoopAssumption DEF Asking, Reviews, HumanLoopAssumption
<1>4. n \in session[t].todo /\ i \in Range(Instances) BY <1>3, LeastExists DEF Range
<1>5. kind \in Kinds /\ i \in DOMAIN session[t].shown /\ Current(r, kind, i, session[t].shown[i].version)
  BY <1>2, <1>4 DEF Asking
<1>6. session[t].shown[i].version \in Nat BY <1>3, <1>5 DEF ItemFiles, Proposed
<1>7. PICK say \in Said :
        lines' = [lines EXCEPT ![kind][r] = Appended(@, Decision(i, say[1], say[2], session[t].shown[i].version))]
  BY DEF Decide
<1>8. /\ given' = [given EXCEPT ![kind][r] = @ \cup {i}]
      /\ session' = [session EXCEPT ![t] = IF session[t].todo \ {n} = {} THEN Idle ELSE [@ EXCEPT !.todo = session[t].todo \ {n}]]
      /\ UNCHANGED <<corpus, items, updates, overtaken, fresh, kills>>
  BY DEF Decide
<1> DEFINE line == Decision(i, say[1], say[2], session[t].shown[i].version)
<1>9. line \in Decisions /\ line.item = i /\ line # Half /\ line.on = session[t].shown[i].version
  <2>1. line \in Decisions BY <1>4, <1>6 DEF Decisions
  <2> QED BY <2>1, DecisionIs DEF Decision
<1>10. lines' = [lines EXCEPT ![kind][r] = Appended(@, line)] BY <1>7
<1> HIDE DEF line, kind, n, i, r
<1>11. /\ lines' \in [Kinds -> [Reviewers -> Files]]
       /\ lines'[kind][r] = Appended(file, line)
       /\ \A k \in Kinds, q \in Reviewers : <<k, q>> # <<kind, r>> => lines'[k][q] = lines[k][q]
       /\ \A k \in Kinds, q \in Reviewers : StillRead(k, q)
  BY <1>1, <1>2, <1>5, <1>9, <1>10, LineAdded
<1>12. ASSUME NEW k \in Kinds, NEW q \in Reviewers PROVE LinesOK(k, q)'
  <2>1. CASE <<k, q>> = <<kind, r>>
    <3>1. file \in Files /\ LinesOK(kind, r) BY <1>1, <1>2, <1>5 DEF LoopOK
    <3>2. /\ ReadAt(lines'[kind][r]) \subseteq ReadAt(file) \cup {Len(file) + 1}
          /\ \A m \in ReadAt(file) : lines'[kind][r][m] = file[m]
          /\ Len(file) + 1 \in ReadAt(lines'[kind][r]) => lines'[kind][r][Len(file) + 1] = line
      BY <3>1, <1>9, <1>11, ReadOn
    <3>3. Current(r, kind, line.item, line.on) BY <1>5, <1>9
    <3>4. ASSUME NEW m \in ReadAt(lines'[kind][r])
          PROVE  Current(r, kind, lines'[kind][r][m].item, lines'[kind][r][m].on)
      <4>1. CASE m \in ReadAt(file)
        BY <4>1, <3>1, <3>2 DEF LinesOK
      <4>2. CASE m = Len(file) + 1
        BY <4>2, <3>2, <3>3, <3>4
      <4> QED BY <4>1, <4>2, <3>2
    <3> QED BY <2>1, <3>4, <1>8 DEF LinesOK, Current
  <2>2. CASE <<k, q>> # <<kind, r>>
    <3>1. LinesOK(k, q) BY DEF LoopOK
    <3>2. lines'[k][q] = lines[k][q] BY <2>2, <1>11
    <3> QED BY <3>1, <3>2, <1>8 DEF LinesOK, Current
  <2> QED BY <2>1, <2>2
<1>13. session' \in [Terminals -> Reviews] /\ \A u \in Terminals : SessionOK(u)'
  <2> DEFINE s == [session[t] EXCEPT !.todo = session[t].todo \ {n}]
  <2>1. session' = [session EXCEPT ![t] = IF session[t].todo \ {n} = {} THEN Idle ELSE s]
    BY <1>8
  <2>2. s \in Reviews /\ s.todo = session[t].todo \ {n} /\ s.kind = kind /\ s.by = r /\ s.shown = session[t].shown
    BY <1>1 DEF Reviews, kind, r
  <2>3. session[t].todo \ {n} # {} => Asking(s)
    BY <2>2, <1>2 DEF Asking, kind, r
  <2> HIDE DEF s
  <2>4. session' \in [Terminals -> Reviews] BY <2>1, <2>2, <1>1, SomebodyElse
  <2>5. ASSUME NEW u \in Terminals PROVE SessionOK(u)'
    <3>1. u = t => session'[u] = Idle \/ (session[t].todo \ {n} # {} /\ session'[u] = s)
      BY <2>1, <1>1
    <3>2. u # t => session'[u] = session[u]
      BY <2>1, <1>1
    <3>3. session'[u].by # Nobody => Asking(session'[u])
      BY <3>1, <3>2, <2>3, SomebodyElse DEF LoopOK, SessionOK
    <3>4. Asking(session'[u]) => Asking(session[u])'
      BY <1>8 DEF Asking, Current
    <3> QED BY <3>3, <3>4 DEF SessionOK
  <2> QED BY <2>4, <2>5
<1>14. given' \in [Kinds -> [Reviewers -> SUBSET Range(Instances)]]
  BY <1>1, <1>4, <1>8 DEF i
<1>15. /\ \A j \in Range(Instances) : Vouched(corpus[j], j)'
       /\ \A j \in DOMAIN updates : Vouched(updates[j], j)'
  <2>1. ASSUME NEW j \in Range(Instances) PROVE Vouched(corpus[j], j)'
    BY <1>8, <1>11, StaysVouched DEF LoopOK
  <2>2. ASSUME NEW j \in DOMAIN updates PROVE Vouched(updates[j], j)'
    BY <1>8, <1>11, StaysVouched DEF LoopOK
  <2> QED BY <2>1, <2>2
<1>16. LoopOK' BY <1>8, <1>11, <1>12, <1>13, <1>14, <1>15 DEF LoopOK
<1>17. KillsPay'
  <2>1. \A k \in Kinds, q \in Reviewers :
          given'[k][q] \subseteq given[k][q] \cup (IF <<k, q>> = <<kind, r>> /\ line # Half THEN {line.item} ELSE {})
    BY <1>1, <1>2, <1>5, <1>8, <1>9 DEF i, kind, r
  <2>2. \A q \in Reviewers : kills'[q] = IF q = r /\ line = Half THEN kills[q] + 1 ELSE kills[q]
    BY <1>8, <1>9
  <2>3. LineWritten(kind, r, line) BY <1>10, <2>1, <2>2 DEF LineWritten
  <2> QED BY <1>2, <1>5, <1>9, <2>3, LineCosts
<1> QED BY <1>16, <1>17

(* A kill within a line costs what kills counts. *)
LEMMA DieOK ==
  ASSUME LoopOK, KillsPay, NEW t \in Terminals, DieInLine(t)
  PROVE  LoopOK' /\ KillsPay'
<1> DEFINE kind == session[t].kind
           r == session[t].by
           file == lines[kind][r]
           half == Half
<1>1. /\ session \in [Terminals -> Reviews] /\ SessionOK(t) /\ lines \in [Kinds -> [Reviewers -> Files]]
      /\ kills \in [Reviewers -> Nat]
  BY DEF LoopOK
<1>2. r \in Reviewers /\ kind \in Kinds
  <2>1. r # Nobody BY DEF DieInLine, Reviewing
  <2> QED BY <2>1, <1>1 DEF SessionOK, Asking, Reviews, Somebody
<1>3. /\ lines' = [lines EXCEPT ![kind][r] = Appended(@, half)]
      /\ session' = [session EXCEPT ![t] = Idle] /\ kills' = [kills EXCEPT ![r] = @ + 1]
      /\ UNCHANGED <<corpus, items, updates, given, overtaken, fresh>>
  BY DEF DieInLine
<1>4. half \in Decisions \cup {Half} OBVIOUS
<1>5. half = Half OBVIOUS
<1> HIDE DEF kind, r, half
<1>6. /\ lines' \in [Kinds -> [Reviewers -> Files]]
      /\ lines'[kind][r] = Appended(file, half)
      /\ \A k \in Kinds, q \in Reviewers : <<k, q>> # <<kind, r>> => lines'[k][q] = lines[k][q]
      /\ \A k \in Kinds, q \in Reviewers : StillRead(k, q)
  <2>1. lines \in [Kinds -> [Reviewers -> Files]] BY <1>1
  <2>2. lines' = [lines EXCEPT ![kind][r] = Appended(@, half)] BY <1>3
  <2> HIDE DEF file
  <2>3. lines'[kind][r] = Appended(lines[kind][r], half) BY <1>2, <1>4, <2>1, <2>2, LineAdded
  <2>4. lines' \in [Kinds -> [Reviewers -> Files]] BY <1>2, <1>4, <2>1, <2>2, LineAdded
  <2>5. /\ \A k \in Kinds, q \in Reviewers : <<k, q>> # <<kind, r>> => lines'[k][q] = lines[k][q]
        /\ \A k \in Kinds, q \in Reviewers : StillRead(k, q)
    BY <1>2, <1>4, <2>1, <2>2, LineAdded
  <2> QED BY <2>3, <2>4, <2>5 DEF file
<1>7. ASSUME NEW k \in Kinds, NEW q \in Reviewers PROVE LinesOK(k, q)'
  <2>1. CASE <<k, q>> = <<kind, r>>
    <3>1. file \in Files /\ LinesOK(kind, r) BY <1>1, <1>2 DEF LoopOK
    <3>2. ReadAt(lines'[kind][r]) = ReadAt(file) /\ \A m \in ReadAt(file) : lines'[kind][r][m] = file[m]
      <4>1. lines'[kind][r] = Appended(file, half) BY <1>6
      <4> HIDE DEF file
      <4>2. /\ \A m \in ReadAt(file) : lines'[kind][r][m] = file[m]
            /\ half = Half => ReadAt(lines'[kind][r]) = ReadAt(file)
        BY <3>1, <4>1, <1>4, ReadOn
      <4> QED BY <4>2, <1>5
    <3> QED BY <2>1, <3>1, <3>2, <1>3 DEF LinesOK, Current
  <2>2. CASE <<k, q>> # <<kind, r>>
    <3>1. LinesOK(k, q) BY DEF LoopOK
    <3>2. lines'[k][q] = lines[k][q] BY <2>2, <1>6
    <3> QED BY <3>1, <3>2, <1>3 DEF LinesOK, Current
  <2> QED BY <2>1, <2>2
<1>8. session' \in [Terminals -> Reviews] /\ \A u \in Terminals : SessionOK(u)'
  <2>1. session' \in [Terminals -> Reviews] /\ \A u \in Terminals : session'[u] = IF u = t THEN Idle ELSE session[u]
    BY <1>1, <1>3, SomebodyElse
  <2>2. ASSUME NEW u \in Terminals PROVE SessionOK(u)'
    <3>1. session'[u].by # Nobody => Asking(session'[u])
      BY <2>1, SomebodyElse DEF LoopOK, SessionOK
    <3>2. Asking(session'[u]) => Asking(session[u])'
      BY <1>3 DEF Asking, Current
    <3> QED BY <3>1, <3>2 DEF SessionOK
  <2> QED BY <2>1, <2>2
<1>9. /\ \A j \in Range(Instances) : Vouched(corpus[j], j)'
      /\ \A j \in DOMAIN updates : Vouched(updates[j], j)'
  <2>1. ASSUME NEW j \in Range(Instances) PROVE Vouched(corpus[j], j)'
    BY <1>3, <1>6, StaysVouched DEF LoopOK
  <2>2. ASSUME NEW j \in DOMAIN updates PROVE Vouched(updates[j], j)'
    BY <1>3, <1>6, StaysVouched DEF LoopOK
  <2> QED BY <2>1, <2>2
<1>10. kills' \in [Reviewers -> Nat] /\ \A q \in Reviewers : kills'[q] = IF q = r THEN kills[q] + 1 ELSE kills[q]
  BY <1>1, <1>2, <1>3
<1>11. LoopOK' BY <1>3, <1>6, <1>7, <1>8, <1>9, <1>10 DEF LoopOK
<1>12. KillsPay'
  <2>1. LineWritten(kind, r, half) BY <1>3, <1>5, <1>10 DEF LineWritten
  <2> QED BY <1>2, <1>4, <2>1, LineCosts
<1> QED BY <1>11, <1>12

(* Where neither files nor kills change, the account stays as it is. *)
LEMMA AccountStays == ASSUME KillsPay, UNCHANGED <<lines, given, kills>> PROVE KillsPay'
  BY DEF KillsPay, Lost, Torn

(* A session reads the file of items as it is. *)
LEMMA StartOK ==
  ASSUME LoopOK, NEW t \in Terminals, NEW r \in Reviewers, NEW kind \in Kinds, Start(t, r, kind)
  PROVE  LoopOK'
<1> DEFINE s == [by |-> r, kind |-> kind, todo |-> Undecided(kind, r), shown |-> items[kind]]
<1>1. session' = [session EXCEPT ![t] = s] /\ s.todo # {}
      /\ UNCHANGED <<corpus, items, lines, updates, given, overtaken, fresh, kills>>
  BY DEF Start
<1>2. s \in Reviews BY DEF LoopOK, Reviews, Undecided, Somebody
<1>3. \A n \in s.todo : Instances[n] \in DOMAIN items[kind] BY DEF Undecided
<1>4. Asking(s) BY <1>1, <1>3 DEF Asking, Current
<1> HIDE DEF s
<1>5. session' \in [Terminals -> Reviews] /\ session'[t] = s /\ \A u \in Terminals \ {t} : session'[u] = session[u]
  BY <1>1, <1>2 DEF LoopOK
<1>6. ASSUME NEW u \in Terminals PROVE SessionOK(u)'
  <2>1. session'[u].by # Nobody => Asking(session'[u])
    BY <1>4, <1>5 DEF LoopOK, SessionOK
  <2>2. Asking(session'[u]) => Asking(session[u])'
    BY <1>1 DEF Asking, Current
  <2> QED BY <2>1, <2>2 DEF SessionOK
<1> QED BY <1>1, <1>5, <1>6, FilesStay DEF LoopOK

(* A session that ends leaves the files alone. *)
LEMMA StopOK ==
  ASSUME LoopOK, NEW t \in Terminals, Stop(t)
  PROVE  LoopOK'
<1>1. session' = [session EXCEPT ![t] = Idle] /\ UNCHANGED <<corpus, items, lines, updates, given, overtaken, fresh, kills>>
  BY DEF Stop
<1>2. session' \in [Terminals -> Reviews] /\ \A u \in Terminals : session'[u] = IF u = t THEN Idle ELSE session[u]
  BY <1>1, SomebodyElse DEF LoopOK
<1>3. ASSUME NEW u \in Terminals PROVE SessionOK(u)'
  <2>1. session'[u].by # Nobody => Asking(session'[u])
    BY <1>2, SomebodyElse DEF LoopOK, SessionOK
  <2>2. Asking(session'[u]) => Asking(session[u])'
    BY <1>1 DEF Asking, Current
  <2> QED BY <2>1, <2>2 DEF SessionOK
<1> QED BY <1>1, <1>2, <1>3, FilesStay DEF LoopOK

(* A proposal takes its base from the corpus, and overtakes whoever has     *)
(* decided on the instance or has it still before them.                     *)
LEMMA ProposeOK ==
  ASSUME LoopOK, NEW kind \in Kinds, Propose(kind)
  PROVE  LoopOK'
<1>1. PICK who \in SUBSET {i \in Range(Instances) : Needs(kind, i)}, first \in 0..1, retry \in 0..1 :
        /\ items' = [items EXCEPT ![kind] =
                       [i \in who |-> [version |-> fresh + 1, base |-> corpus[i], problems |-> Repaired(first, retry)]]]
        /\ overtaken' = overtaken \cup {p \in {kind} \X Reviewers \X who \X {fresh + 1} : Behind(p[1], p[2], p[3])}
  BY DEF Propose
<1>2. fresh' = fresh + 1 /\ UNCHANGED <<corpus, lines, session, updates, given, kills>>
  BY DEF Propose
<1> DEFINE file == [i \in who |-> [version |-> fresh + 1, base |-> corpus[i], problems |-> Repaired(first, retry)]]
<1>3. file \in [who -> Proposed] /\ DOMAIN file = who /\ \A i \in who : file[i].version = fresh + 1
  BY DEF LoopOK, Proposed, Repaired
<1>4. file \in ItemFiles BY <1>3 DEF ItemFiles
<1>5. kind = "branches" => \A i \in DOMAIN file : file[i].base.personas = 0
  <2>1. ASSUME NEW i \in who, kind = "branches" PROVE corpus[i].personas = 0
    <3>1. i \in Range(Instances) /\ corpus[i].branches = 0 /\ Vouched(corpus[i], i)
      BY <2>1 DEF Needs, LoopOK
    <3> QED BY <3>1 DEF Vouched, Signed, Entries
  <2> QED BY <2>1
<1> HIDE DEF file
<1>6. items' \in [Kinds -> ItemFiles] /\ items'[kind] = file /\ \A k \in Kinds \ {kind} : items'[k] = items[k]
  BY <1>1, <1>4 DEF LoopOK, file
<1>7. \A i \in DOMAIN items'["branches"] : items'["branches"][i].base.personas = 0
  BY <1>5, <1>6 DEF LoopOK, Kinds
<1>8. overtaken \subseteq overtaken' BY <1>1
<1>9. ASSUME NEW r \in Reviewers, NEW i, NEW on, Behind(kind, r, i) PROVE Current(r, kind, i, on)'
  <2>1. ASSUME i \in DOMAIN items'[kind] PROVE <<kind, r, i, items'[kind][i].version>> \in overtaken'
    <3>1. i \in who /\ items'[kind][i].version = fresh + 1 BY <2>1, <1>3, <1>6
    <3> DEFINE p == <<kind, r, i, fresh + 1>>
    <3>2. p \in {kind} \X Reviewers \X who \X {fresh + 1} /\ p[1] = kind /\ p[2] = r /\ p[3] = i
      BY <3>1
    <3> HIDE DEF p
    <3>3. p \in overtaken' BY <3>2, <1>1, <1>9
    <3> QED BY <3>1, <3>3 DEF p
  <2> QED BY <2>1 DEF Current
<1>10. ASSUME NEW k \in Kinds, NEW r \in Reviewers PROVE LinesOK(k, r)'
  <2>1. CASE k = kind
    <3>1. ASSUME NEW n \in ReadAt(lines[kind][r])
          PROVE  Current(r, kind, lines[kind][r][n].item, lines[kind][r][n].on)'
      <4>1. lines[kind][r][n].item \in DOMAIN Load(lines[kind][r])
        BY DEF Load, Latest, ReadAt
      <4>2. Behind(kind, r, lines[kind][r][n].item) BY <4>1 DEF Behind
      <4> DEFINE j == lines[kind][r][n].item
                 on == lines[kind][r][n].on
      <4>3. Current(r, kind, j, on)'
        <5>1. j' = j /\ on' = on BY <1>2
        <5> HIDE DEF j, on
        <5> QED BY <4>2, <5>1, <1>9 DEF j
      <4> QED BY <4>3, <1>2
    <3> QED BY <2>1, <3>1, <1>2 DEF LinesOK
  <2>2. CASE k # kind
    BY <2>2, <1>2, <1>6, <1>8 DEF LoopOK, LinesOK, Current
  <2> QED BY <2>1, <2>2
<1>11. ASSUME NEW t \in Terminals PROVE SessionOK(t)'
  <2> DEFINE s == session[t]
  <2>1. ASSUME s.by # Nobody PROVE Asking(s)'
    <3>1. Asking(s) /\ s.by \in Reviewers BY <2>1 DEF LoopOK, SessionOK, Reviews, Somebody
    <3>2. ASSUME NEW n \in s.todo PROVE Current(s.by, s.kind, Instances[n], s.shown[Instances[n]].version)'
      <4>1. CASE s.kind = kind
        <5>1. Behind(kind, s.by, Instances[n]) BY <4>1 DEF Behind
        <5> DEFINE r == s.by
                   i == Instances[n]
                   on == s.shown[i].version
        <5>2. r' = r /\ i' = i /\ on' = on /\ r \in Reviewers /\ s.kind' = kind
          BY <3>1, <4>1, <1>2
        <5>3. Behind(kind, r, i) BY <5>1
        <5> HIDE DEF r, i, on
        <5>4. Current(r, kind, i, on)' BY <5>2, <5>3, <1>9
        <5> QED BY <5>4, <4>1, <5>2 DEF r, i, on
      <4>2. CASE s.kind # kind
        BY <4>2, <3>1, <1>2, <1>6, <1>8 DEF Asking, Current
      <4> QED BY <4>1, <4>2
    <3> HIDE DEF s
    <3>3. s' = s BY <1>2 DEF s
    <3> QED BY <3>1, <3>2, <3>3 DEF Asking
  <2> QED BY <2>1, <1>2 DEF SessionOK
<1>12. \A k \in Kinds, r \in Reviewers : StillRead(k, r) BY <1>2 DEF StillRead
<1>13. /\ \A j \in Range(Instances) : Vouched(corpus[j], j)'
       /\ \A j \in DOMAIN updates : Vouched(updates[j], j)'
  <2>1. ASSUME NEW j \in Range(Instances) PROVE Vouched(corpus[j], j)'
    BY <1>2, <1>8, <1>12, StaysVouched DEF LoopOK
  <2>2. ASSUME NEW j \in DOMAIN updates PROVE Vouched(updates[j], j)'
    BY <1>2, <1>8, <1>12, StaysVouched DEF LoopOK
  <2> QED BY <2>1, <2>2
<1> QED BY <1>2, <1>6, <1>7, <1>10, <1>11, <1>13 DEF LoopOK

(* The decision that counts is a line of the file: if it is positive, the   *)
(* proposal of the file was let through by it.                              *)
LEMMA PositiveLetsThrough ==
  ASSUME LoopOK, NEW kind \in Kinds, NEW r \in Reviewers, NEW i \in DOMAIN Load(lines[kind][r]),
         i \in DOMAIN items[kind], Load(lines[kind][r])[i].verdict \in Positive
  PROVE  LetThrough(r, kind, i, items[kind][i].version)
<1> DEFINE file == lines[kind][r]
           S == {n \in ReadAt(file) : file[n].item = i}
<1>1. file \in Files /\ LinesOK(kind, r) BY DEF LoopOK
<1>2. Load(file)[i] = file[Max(S)] /\ S # {} BY DEF Load, Latest, ReadAt
<1>3. Len(file) \in Nat /\ S \in SUBSET (1..Len(file)) BY <1>1 DEF ReadAt, Files
<1>4. Max(S) \in S
  <2> HIDE DEF S
  <2> QED BY <1>2, <1>3, GreatestExists
<1>5. Max(S) \in ReadAt(file) /\ file[Max(S)].item = i /\ file[Max(S)].verdict \in Positive
  BY <1>2, <1>4
<1>6. Current(r, kind, i, file[Max(S)].on) BY <1>1, <1>5 DEF LinesOK
<1> HIDE DEF S
<1> QED BY <1>5, <1>6 DEF LetThrough, Current, ReadAt

(* What apply writes was let through by those it names. *)
LEMMA ApplyOK ==
  ASSUME LoopOK, NEW r \in Reviewers, NEW kind \in Kinds, NEW second \in Reviewers \cup {Nobody}, Apply(kind, r, second)
  PROVE  LoopOK'
<1> DEFINE primary == Load(lines[kind][r])
           other == IF second = Nobody THEN NoItems ELSE Load(lines[kind][second])
           applied == {i \in DOMAIN items[kind] :
                         /\ Gate(primary, other, second # Nobody, i)
                         /\ Sound(kind, items[kind][i], primary[i])
                         /\ kind = "personas" => corpus[i].branches # 0}
<1>1. /\ updates' = [i \in applied |-> Updated(kind, i, primary[i], r, second)]
      /\ UNCHANGED <<corpus, items, lines, session, given, overtaken, fresh, kills>>
  BY DEF Apply
<1>2. items[kind] \in ItemFiles /\ lines[kind][r] \in Files BY DEF LoopOK
<1>3. applied \subseteq Range(Instances) BY <1>2 DEF ItemFiles
<1>4. ASSUME NEW i \in applied PROVE Vouched(Updated(kind, i, primary[i], r, second), i)
  <2> DEFINE d == primary[i]
             item == items[kind][i]
             new == Updated(kind, i, d, r, second)
  <2>1. i \in Range(Instances) /\ item \in Proposed BY <1>2, <1>3 DEF ItemFiles
  <2>2. d \in Decisions /\ LetThrough(r, kind, i, item.version)
    <3>1. i \in DOMAIN primary /\ d.verdict \in Positive /\ i \in DOMAIN items[kind]
      BY DEF Gate
    <3> QED BY <3>1, <1>2, LoadedIs, PositiveLetsThrough
  <2>3. second # Nobody => second \in Reviewers /\ LetThrough(second, kind, i, item.version)
    <3>1. ASSUME second # Nobody PROVE second \in Reviewers /\ i \in DOMAIN Load(lines[kind][second])
                                       /\ Load(lines[kind][second])[i].verdict \in Positive /\ i \in DOMAIN items[kind]
      BY <3>1 DEF Gate
    <3> QED BY <3>1, PositiveLetsThrough
  <2>4. d.verdict # "edit" => d.edits # "unsound"
    BY <2>2, DecisionIs
  <2>5. Sound(kind, item, d) /\ (kind = "personas" => corpus[i].branches # 0) OBVIOUS
  <2>6. corpus[i] \in Entries /\ Signed(corpus[i], i) BY <2>1 DEF LoopOK, Vouched
  <2>7. item.version \in Nat \ {0} /\ item.base \in Entries BY <2>1 DEF Proposed
  <2>8. r \in Somebody /\ second \in Somebody BY DEF Somebody
  <2> HIDE DEF d, item
  <2>9. CASE kind = "branches"
    <3>1. item.base.personas = 0 BY <2>9 DEF LoopOK, item
    <3>2. new = [item.base EXCEPT !.branches = item.version, !.by = r, !.second = second]
      BY <2>9 DEF Updated, item
    <3>3. /\ new \in Entries /\ new.branches = item.version /\ new.by = r /\ new.second = second /\ new.personas = 0
      BY <3>1, <3>2, <2>7, <2>8 DEF Entries
    <3> HIDE DEF new
    <3>4. Vouched(new, i)
      <4> HIDE DEF LetThrough
      <4> QED BY <3>3, <2>2, <2>3, <2>9 DEF Vouched, Signed
    <3> QED BY <3>4 DEF new, d
  <2>10. CASE kind = "personas"
    <3> DEFINE sound == d.edits # "unsound" /\ (d.verdict = "edit" \/ item.problems = 0)
    <3>1. sound BY <2>4, <2>5, <2>10 DEF Sound
    <3>2. new = [corpus[i] EXCEPT !.personas = item.version, !.sound = sound, !.reader = r]
      BY <2>10 DEF Updated, item
    <3> HIDE DEF sound, new
    <3>3. /\ new \in Entries /\ new.branches = corpus[i].branches /\ new.by = corpus[i].by
          /\ new.second = corpus[i].second /\ new.sound /\ new.reader = r /\ new.personas = item.version
      BY <3>1, <3>2, <2>6, <2>7, <2>8 DEF Entries
    <3>4. Vouched(new, i) BY <3>3, <2>2, <2>5, <2>6, <2>10 DEF Vouched, Signed
    <3> QED BY <3>4 DEF new, d
  <2> QED BY <2>9, <2>10 DEF Kinds
<1>5. \A entry, i : Vouched(entry, i) => Vouched(entry, i)'
  BY <1>1 DEF Vouched, Signed, LetThrough
<1>6. DOMAIN updates' \subseteq Range(Instances) /\ \A i \in DOMAIN updates' : Vouched(updates[i], i)'
  <2> HIDE DEF primary, applied
  <2>1. DOMAIN updates' = applied BY <1>1
  <2>2. ASSUME NEW i \in applied PROVE Vouched(updates[i], i)'
    <3>1. Vouched(updates'[i], i) BY <1>1, <1>4
    <3> QED BY <1>1, <3>1 DEF Vouched, Signed, LetThrough
  <2> QED BY <1>3, <2>1, <2>2
<1>7. \A k \in Kinds, q \in Reviewers : LinesOK(k, q)'
  BY <1>1 DEF LoopOK, LinesOK, Current
<1>8. \A t \in Terminals : SessionOK(t)' BY <1>1 DEF LoopOK, SessionOK, Asking, Current
<1> QED BY <1>1, <1>5, <1>6, <1>7, <1>8 DEF LoopOK

(* Merging carries over what was let through. *)
LEMMA MergeOK ==
  ASSUME LoopOK, Merge
  PROVE  LoopOK'
<1>1. /\ corpus' = [i \in DOMAIN corpus |-> IF i \in DOMAIN updates THEN updates[i] ELSE corpus[i]]
      /\ UNCHANGED <<items, lines, session, updates, given, overtaken, fresh, kills>>
  BY DEF Merge
<1>2. ASSUME NEW i \in Range(Instances) PROVE corpus'[i] \in Entries /\ Vouched(corpus[i], i)'
  <2>1. Vouched(corpus'[i], i) BY <1>1 DEF LoopOK
  <2>2. Vouched(corpus[i], i)' BY <1>1, <2>1 DEF Vouched, Signed, LetThrough
  <2> QED BY <2>1, <2>2 DEF Vouched
<1>3. corpus' \in [Range(Instances) -> Entries] BY <1>1, <1>2 DEF LoopOK
<1>4. \A j \in DOMAIN updates' : Vouched(updates[j], j)'
  <2>1. \A j \in DOMAIN updates : Vouched(updates[j], j) BY DEF LoopOK
  <2> QED BY <1>1, <2>1 DEF Vouched, Signed, LetThrough
<1>5. \A k \in Kinds, q \in Reviewers : LinesOK(k, q)'
  BY <1>1 DEF LoopOK, LinesOK, Current
<1>6. \A t \in Terminals : SessionOK(t)' BY <1>1 DEF LoopOK, SessionOK, Asking, Current
<1> QED BY <1>1, <1>2, <1>3, <1>4, <1>5, <1>6 DEF LoopOK

(* Every step keeps the invariant of the loop and its account. *)
LEMMA LoopStepOK ==
  ASSUME LoopOK, KillsPay, [StudyNext]_studyVars
  PROVE  LoopOK' /\ KillsPay'
<1>1. CASE UNCHANGED loopVars
  <2>1. UNCHANGED <<lines, given, kills>> /\ UNCHANGED <<corpus, items, lines, updates, overtaken>> /\ UNCHANGED <<session, fresh>>
    BY <1>1 DEF loopVars
  <2>2. \A t \in Terminals : SessionOK(t)' BY <2>1 DEF LoopOK, SessionOK, Asking, Current
  <2> QED BY <2>1, <2>2, FilesStay, AccountStays DEF LoopOK
<1>2. ASSUME NEW t \in Terminals, NEW r \in Reviewers, NEW kind \in Kinds, Start(t, r, kind) PROVE LoopOK' /\ KillsPay'
  BY <1>2, StartOK, AccountStays DEF Start
<1>3. ASSUME NEW t \in Terminals, Decide(t) PROVE LoopOK' /\ KillsPay'
  BY <1>3, DecideOK
<1>4. ASSUME NEW t \in Terminals, Stop(t) PROVE LoopOK' /\ KillsPay'
  BY <1>4, StopOK, AccountStays DEF Stop
<1>5. ASSUME NEW t \in Terminals, DieInLine(t) PROVE LoopOK' /\ KillsPay'
  BY <1>5, DieOK
<1>6. ASSUME NEW kind \in Kinds, Propose(kind) PROVE LoopOK' /\ KillsPay'
  BY <1>6, ProposeOK, AccountStays DEF Propose
<1>7. ASSUME NEW r \in Reviewers, NEW kind \in Kinds, NEW second \in Reviewers \cup {Nobody}, Apply(kind, r, second)
      PROVE LoopOK' /\ KillsPay'
  BY <1>7, ApplyOK, AccountStays DEF Apply
<1>8. ASSUME Merge PROVE LoopOK' /\ KillsPay'
  BY <1>8, MergeOK, AccountStays DEF Merge
<1> QED BY <1>1, <1>2, <1>3, <1>4, <1>5, <1>6, <1>7, <1>8, LoopApart DEF LoopNext

(* The invariant of the loop and its account hold throughout. *)
LEMMA LoopHolds == StudySpec => [](LoopOK /\ KillsPay)
<1>1. StudyInit => LoopOK /\ KillsPay
  BY LoopInitOK DEF StudyInit
<1>2. (LoopOK /\ KillsPay) /\ [StudyNext]_studyVars => (LoopOK /\ KillsPay)'
  BY LoopStepOK
<1> QED BY <1>1, <1>2, PTL DEF StudySpec

(* The corpus carries, in the very version it carries it, what the people   *)
(* it names let through, unless they were past being shown that version     *)
(* when it was proposed (review of benchmark/review.py, propose_*, apply_*  *)
(* and merge of benchmark/human_loop.py), on any number of terminals.       *)
THEOREM PeopleDecide == StudySpec => []PersonDecided
<1>1. LoopOK => PersonDecided
  BY DEF LoopOK, Vouched, PersonDecided
<1> QED BY <1>1, LoopHolds, PTL

(* A session killed within a line costs at most the next verdict: a lost    *)
(* verdict fell on a half line, and a half line took a kill.                *)
THEOREM VerdictsAreKept == StudySpec => []VerdictsSurvive
<1>1. ASSUME LoopOK, KillsPay, NEW r \in Reviewers PROVE Cardinality(Lost(r)) <= kills[r]
  <2>1. Cardinality(Lost(r)) \in Nat /\ Cardinality(Torn(r)) \in Nat BY CountsAreFinite
  <2>2. kills[r] \in Nat /\ Cardinality(Lost(r)) + Cardinality(Torn(r)) <= kills[r]
    BY <1>1 DEF LoopOK, KillsPay
  <2> QED BY <2>1, <2>2
<1>2. LoopOK /\ KillsPay => VerdictsSurvive
  BY <1>1 DEF VerdictsSurvive
<1> QED BY <1>2, LoopHolds, PTL

------------------------------------------------------------------------------
(* The held-out test set. *)

(* A step of the study is one of the held-out set or leaves it alone. *)
LEMMA HeldApart ==
  ASSUME [StudyNext]_studyVars
  PROVE  HeldNext \/ UNCHANGED heldVars
  BY DEF StudyNext, studyVars

(* An instance outside stratum S5 was not written by a model. *)
LEMMA AuthoredIsS5 == ASSUME NEW i, NEW contrast, Stratum(i, contrast) # "S5" PROVE ~i.authored
  BY DEF Stratum

Unauthored(file) == \A row \in file : ~Pool[row[1]].authored

(* The tag does not move once something was answered, and no export puts    *)
(* an authored instance into the file.                                      *)
HeldOK ==
  /\ Unauthored(test)
  /\ \A file \in answered : tag # NoCommit /\ file = tag.test /\ Unauthored(file)

(* Answer asserts the freeze, Tag refuses to move, Export filters S5 out. *)
LEMMA HeldStepOK ==
  ASSUME HeldOK, [StudyNext]_studyVars
  PROVE  HeldOK'
<1>1. CASE UNCHANGED heldVars
  BY <1>1 DEF HeldOK, heldVars, Unauthored
<1>2. ASSUME UNCHANGED Frozen PROVE HeldOK'
  BY <1>2 DEF HeldOK, Frozen, Unauthored
<1>3. ASSUME NEW h3 \in Comparators, Export(h3) PROVE HeldOK'
  <2>1. test' = {<<n, 0>> : n \in {m \in Known : split[m] = "test" /\ Stratum(Pool[m], FALSE) # "S5"}}
        /\ UNCHANGED <<tag, answered>>
    BY <1>3 DEF Export
  <2>2. Unauthored(test')
    <3>1. \A m : Stratum(Pool[m], FALSE) # "S5" => ~Pool[m].authored
      BY AuthoredIsS5
    <3> DEFINE S == {m \in Known : split[m] = "test" /\ Stratum(Pool[m], FALSE) # "S5"}
    <3>2. ASSUME NEW row \in test' PROVE Stratum(Pool[row[1]], FALSE) # "S5"
      <4>1. \A m \in S : Stratum(Pool[m], FALSE) # "S5" OBVIOUS
      <4>2. test' = {<<m, 0>> : m \in S} BY <2>1
      <4> HIDE DEF S
      <4>3. PICK m \in S : row = <<m, 0>>
        BY <4>2
      <4> QED BY <4>1, <4>3
    <3> QED BY <3>1, <3>2 DEF Unauthored
  <2> QED BY <2>1, <2>2 DEF HeldOK, Unauthored
<1>4. ASSUME NEW row \in test, Edit(row) PROVE HeldOK'
  <2>1. test' = (test \ {row}) \cup {<<row[1], 1 - row[2]>>} /\ UNCHANGED <<tag, answered>>
    BY <1>4 DEF Edit
  <2>2. ~Pool[row[1]].authored BY DEF HeldOK, Unauthored
  <2>3. \A other \in test' : other \in test \/ other[1] = row[1] BY <2>1
  <2>4. Unauthored(test') BY <2>2, <2>3 DEF HeldOK, Unauthored
  <2> QED BY <2>1, <2>4 DEF HeldOK, Unauthored
<1>5. ASSUME Tag PROVE HeldOK'
  BY <1>5 DEF Tag, HeldOK, Unauthored
<1>6. ASSUME Answer PROVE HeldOK'
  BY <1>6 DEF Answer, Asserted, HeldOK, Unauthored
<1>7. ASSUME UNCHANGED <<test, tag, answered>> PROVE HeldOK'
  BY <1>7 DEF HeldOK, Unauthored
<1>8. CASE HeldNext
  BY <1>8, <1>2, <1>3, <1>4, <1>5, <1>6, <1>7
     DEF HeldNext, Mine, Split, Resplit, WriteManifest, Interrupted, Commit, Report
<1> QED BY <1>1, <1>8, HeldApart

(* Whatever was answered is the tagged file, without an authored instance   *)
(* (experiments/staging.py).                                                *)
THEOREM Freezing == StudySpec => []AnswersAreFrozen
<1>1. StudyInit => HeldOK
  BY DEF StudyInit, HeldInit, HeldOK, Unauthored
<1>2. HeldOK /\ [StudyNext]_studyVars => HeldOK'
  BY HeldStepOK
<1>3. HeldOK => AnswersAreFrozen
  BY DEF HeldOK, AnswersAreFrozen, Unauthored
<1> QED BY <1>1, <1>2, <1>3, PTL DEF StudySpec

(* The splits. *)

(* The groups are the instances' components: each instance is in one, and   *)
(* whatever shares a document with it is in the same.                       *)
LEMMA GroupsAre ==
  /\ \A g \in Groups : g \subseteq Known /\ g # {}
  /\ \A n \in Known : \E g \in Groups : n \in g
  /\ \A g, h \in Groups : g \cap h # {} => g = h
  /\ \A g \in Groups : \A n \in g, m \in Known : Docs[n] \cap Docs[m] # {} => m \in g
<1> DEFINE U == {S \in SUBSET Known : S # {} /\ Unconnected(S)}
<1>1. Groups = {S \in U : \A T \in U : T \subseteq S => T = S}
  BY DEF Groups
<1>2. \A S \in U : S \in SUBSET Known /\ S # {} /\ \A n \in S, m \in Known \ S : Docs[n] \cap Docs[m] = {}
  BY DEF Unconnected
<1>3. \A S \in SUBSET Known : S # {} /\ (\A n \in S, m \in Known \ S : Docs[n] \cap Docs[m] = {}) => S \in U
  BY DEF Unconnected
<1> HIDE DEF U
<1>4. \A S \in Groups : S \in U /\ \A T \in U : T \subseteq S => T = S
  BY <1>1
<1>5. \A S \in U : (\A T \in U : T \subseteq S => T = S) => S \in Groups
  BY <1>1
<1>6. ASSUME NEW n \in Known PROVE \E g \in Groups : n \in g
  <2> DEFINE C == {m \in Known : \A S \in U : n \in S => m \in S}
  <2>1. n \in C /\ C \in SUBSET Known OBVIOUS
  <2>2. ASSUME NEW a \in C, NEW m \in Known \ C PROVE Docs[a] \cap Docs[m] = {}
    <3>1. PICK S \in U : n \in S /\ m \notin S OBVIOUS
    <3>2. a \in S BY <3>1
    <3> QED BY <1>2, <3>1, <3>2
  <2>3. C \in U BY <1>3, <2>1, <2>2
  <2>4. ASSUME NEW T \in U, T \subseteq C PROVE T = C
    <3>1. CASE n \in T
      BY <2>4, <3>1
    <3>2. CASE n \notin T
      <4> DEFINE R == Known \ T
      <4>1. n \in R /\ R \in SUBSET Known BY <3>2
      <4>2. ASSUME NEW a \in R, NEW m \in Known \ R PROVE Docs[a] \cap Docs[m] = {}
        <5>1. m \in T /\ a \in Known \ T BY <4>2
        <5>2. Docs[m] \cap Docs[a] = {} BY <1>2, <5>1
        <5> QED BY <5>2
      <4>3. R \in U BY <1>3, <4>1, <4>2
      <4>4. C \subseteq R BY <4>1, <4>3
      <4>5. T = {} BY <2>4, <4>4
      <4> QED BY <1>2, <4>5
    <3> QED BY <3>1, <3>2
  <2>5. C \in Groups BY <1>5, <2>3, <2>4
  <2> QED BY <2>1, <2>5
<1>7. ASSUME NEW g \in Groups, NEW h \in Groups, g \cap h # {} PROVE g = h
  <2> DEFINE I == g \cap h
  <2>1. I \in SUBSET Known /\ I # {} BY <1>2, <1>4, <1>7
  <2>2. ASSUME NEW a \in I, NEW m \in Known \ I PROVE Docs[a] \cap Docs[m] = {}
    <3>1. a \in g /\ a \in h /\ (m \in Known \ g \/ m \in Known \ h) OBVIOUS
    <3> QED BY <1>2, <1>4, <3>1
  <2>3. I \in U BY <1>3, <2>1, <2>2
  <2>4. I = g /\ I = h BY <1>4, <2>3
  <2> QED BY <2>4
<1>8. ASSUME NEW g \in Groups, NEW n \in g, NEW m \in Known, Docs[n] \cap Docs[m] # {} PROVE m \in g
  BY <1>2, <1>4, <1>8
<1>9. \A g \in Groups : g \subseteq Known /\ g # {} BY <1>2, <1>4
<1> QED BY <1>6, <1>7, <1>8, <1>9

(* An assignment that keeps every group together keeps every document so. *)
Together(a) == DOMAIN a = Known /\ \A g \in Groups : \A n, m \in g : a[n] = a[m]

(* Then no document spans two splits. *)
LEMMA NothingSpans ==
  ASSUME NEW a, Together(a)
  PROVE  Spanning(a) = {}
<1> DEFINE Holders(d) == {m \in DOMAIN a : d \in Docs[m]}
           Of(d) == {a[n] : n \in Holders(d)}
<1>1. ASSUME NEW d, NEW n \in Holders(d) PROVE ~(Cardinality(Of(d)) > 1)
  <2>1. n \in Known /\ d \in Docs[n] BY DEF Together
  <2>2. PICK g \in Groups : n \in g
    BY <2>1, GroupsAre
  <2>3. ASSUME NEW m \in Holders(d) PROVE a[m] = a[n]
    <3>1. m \in Known /\ Docs[n] \cap Docs[m] # {} BY <2>1 DEF Together
    <3>2. m \in g BY <2>2, <3>1, GroupsAre
    <3> QED BY <2>2, <3>2 DEF Together
  <2>4. Of(d) = {a[n]} BY <2>3
  <2>5. Cardinality({a[n]}) = 1 BY FS_Singleton
  <2> HIDE DEF Holders, Of
  <2> QED BY <2>4, <2>5
<1>2. ASSUME NEW d \in UNION {Docs[n] : n \in DOMAIN a} PROVE ~(Cardinality(Of(d)) > 1)
  <2>1. PICK n \in DOMAIN a : d \in Docs[n]
    BY <1>2
  <2>2. n \in Holders(d) BY <2>1
  <2> HIDE DEF Holders, Of
  <2> QED BY <1>1, <2>2
<1> QED BY <1>2 DEF Spanning

(* What Place comes to after each group. *)
Placing(up, order, ratios, total, before, c) ==
  up = [k \in 0..c |-> IF k = 0 THEN before ELSE Placed(up[k - 1], order[k], ratios, total)]

(* There is such a sequence of assignments. *)
LEMMA PlacingExists ==
  ASSUME NEW order, NEW ratios, NEW total, NEW before, NEW c \in Nat
  PROVE  \E up : Placing(up, order, ratios, total, before, c)
<1> DEFINE Step(up, k) == IF k = 0 THEN before ELSE Placed(up[k - 1], order[k], ratios, total)
           G == {n \in Nat : \E up : up = [k \in 0..n |-> Step(up, k)]}
<1>1. 0 \in G
  <2> DEFINE up == [k \in 0..0 |-> before]
  <2>1. up = [k \in 0..0 |-> Step(up, k)] OBVIOUS
  <2> QED BY <2>1
<1>2. ASSUME NEW n \in Nat, n \in G PROVE n + 1 \in G
  <2>1. PICK up : up = [k \in 0..n |-> Step(up, k)]
    BY <1>2
  <2>2. \A k \in 0..n : up[k] = Step(up, k) BY <2>1
  <2> DEFINE more == [k \in 0..(n + 1) |-> IF k = n + 1 THEN Step(up, k) ELSE up[k]]
  <2>3. ASSUME NEW k \in 0..(n + 1) PROVE more[k] = Step(more, k)
    <3>1. k # 0 => k - 1 \in 0..n /\ k - 1 \in 0..(n + 1) /\ k - 1 # n + 1 OBVIOUS
    <3>2. k # 0 => more[k - 1] = up[k - 1]
      BY <3>1
    <3>3. k # n + 1 => k \in 0..n OBVIOUS
    <3> HIDE DEF Step
    <3>4. more[k] = Step(up, k) BY <2>2, <3>3
    <3> HIDE DEF more
    <3> QED BY <3>2, <3>4 DEF Step
  <2>4. more = [k \in 0..(n + 1) |-> more[k]] OBVIOUS
  <2> HIDE DEF more, Step
  <2>5. more = [k \in 0..(n + 1) |-> Step(more, k)] BY <2>3, <2>4
  <2> QED BY <2>5
<1>3. c \in G
  <2> HIDE DEF G
  <2> QED BY <1>1, <1>2, AllNumbers
<1> QED BY <1>3 DEF Placing

(* Place puts every group of the order somewhere as a whole, on top of what *)
(* was there before, which it leaves alone.                                 *)
PlacedWell(a, before, order, c) ==
  /\ a = [n \in DOMAIN a |-> a[n]]
  /\ DOMAIN a = DOMAIN before \cup UNION {order[i] : i \in 1..c}
  /\ \A n \in DOMAIN before : a[n] = before[n]
  /\ \A i \in 1..c : \A n, m \in order[i] : a[n] = a[m]

(* By induction on the order. *)
LEMMA PlaceKeepsTogether ==
  ASSUME NEW c \in Nat, NEW order, DOMAIN order = 1..c, Len(order) = c,
         \A i, j \in 1..c : i # j => order[i] \cap order[j] = {},
         NEW before, before = [n \in DOMAIN before |-> before[n]],
         \A i \in 1..c : order[i] \cap DOMAIN before = {},
         NEW ratios, NEW total
  PROVE  PlacedWell(Place(order, ratios, total, before), before, order, c)
<1> DEFINE a == Place(order, ratios, total, before)
<1>1. PICK up : Placing(up, order, ratios, total, before, c) /\ a = up[c]
  <2> DEFINE F == CHOOSE upto : upto = [k \in 0..Len(order) |->
                    IF k = 0 THEN before ELSE Placed(upto[k - 1], order[k], ratios, total)]
  <2>1. a = F[c] BY DEF Place
  <2>2. \E upto : upto = [k \in 0..Len(order) |->
                    IF k = 0 THEN before ELSE Placed(upto[k - 1], order[k], ratios, total)]
    <3>1. PICK up : Placing(up, order, ratios, total, before, c)
      BY PlacingExists
    <3> QED BY <3>1 DEF Placing
  <2>3. F = [k \in 0..Len(order) |-> IF k = 0 THEN before ELSE Placed(F[k - 1], order[k], ratios, total)]
    BY <2>2
  <2> HIDE DEF F
  <2>4. Placing(F, order, ratios, total, before, c) BY <2>3 DEF Placing
  <2> QED BY <2>1, <2>4
<1>2. up[0] = before /\ \A k \in 1..c : up[k] = Placed(up[k - 1], order[k], ratios, total)
  <2>1. \A k \in 0..c : up[k] = IF k = 0 THEN before ELSE Placed(up[k - 1], order[k], ratios, total)
    BY <1>1 DEF Placing
  <2>2. 0 \in 0..c /\ \A k \in 1..c : k \in 0..c /\ k # 0 OBVIOUS
  <2> QED BY <2>1, <2>2
<1> DEFINE Good(f, k) == /\ f = [n \in DOMAIN f |-> f[n]]
                         /\ DOMAIN f = DOMAIN before \cup UNION {order[i] : i \in 1..k}
                         /\ \A n \in DOMAIN before : f[n] = before[n]
                         /\ \A i \in 1..k : \A n, m \in order[i] : f[n] = f[m]
           G == {k \in Nat : k <= c => Good(up[k], k)}
<1>3. 0 \in G BY <1>2
<1>4. ASSUME NEW k \in Nat, k \in G PROVE k + 1 \in G
  <2>1. SUFFICES ASSUME k + 1 <= c PROVE Good(up[k + 1], k + 1)
    BY <1>4
  <2> DEFINE b == up[k]
             f == up[k + 1]
             new == order[k + 1]
  <2>2. Good(b, k) BY <1>4, <2>1
  <2>3. f = Placed(b, new, ratios, total)
    <3>1. k + 1 \in 1..c /\ (k + 1) - 1 = k BY <2>1
    <3> QED BY <1>2, <3>1
  <2> HIDE DEF b, f, new
  <2>4. PICK to : f = [n \in DOMAIN b \cup new |-> IF n \in new THEN to ELSE b[n]]
    BY <2>3 DEF Placed
  <2>5. new \cap DOMAIN before = {} /\ \A i \in 1..k : order[i] \cap new = {}
    <3>1. k + 1 \in 1..c /\ \A i \in 1..k : i \in 1..c /\ i # k + 1 BY <2>1
    <3> QED BY <3>1 DEF new
  <2>6. 1..(k + 1) = 1..k \cup {k + 1} OBVIOUS
  <2>7. f = [n \in DOMAIN f |-> f[n]] BY <2>4
  <2>8. DOMAIN f = DOMAIN before \cup UNION {order[i] : i \in 1..(k + 1)}
    <3>1. DOMAIN f = DOMAIN b \cup new BY <2>4
    <3>2. UNION {order[i] : i \in 1..(k + 1)} = (UNION {order[i] : i \in 1..k}) \cup new
      BY <2>6 DEF new
    <3> QED BY <2>2, <3>1, <3>2
  <2>9. \A n \in DOMAIN before : f[n] = before[n] BY <2>2, <2>4, <2>5
  <2>10. ASSUME NEW i \in 1..(k + 1), NEW n \in order[i], NEW m \in order[i] PROVE f[n] = f[m]
    <3>1. CASE i \in 1..k
      <4>1. order[i] \subseteq DOMAIN b /\ order[i] \cap new = {} /\ b[n] = b[m]
        BY <2>2, <2>5, <3>1
      <4> QED BY <2>4, <4>1
    <3>2. CASE i = k + 1
      BY <2>4, <3>2 DEF new
    <3> QED BY <2>6, <3>1, <3>2
  <2>11. Good(f, k + 1) BY <2>7, <2>8, <2>9, <2>10
  <2> QED BY <2>11 DEF f
<1>5. c \in G
  <2> HIDE DEF G
  <2> QED BY <1>3, <1>4, AllNumbers
<1> QED BY <1>1, <1>5 DEF PlacedWell

(* An order of finitely many groups has each of them, once. *)
LEMMA OrdersAre ==
  ASSUME NEW groups, IsFiniteSet(groups), NEW order \in Orders(groups)
  PROVE  \E c \in Nat : /\ DOMAIN order = 1..c /\ Len(order) = c
                        /\ groups = {order[i] : i \in 1..c}
                        /\ \A i, j \in 1..c : i # j => order[i] # order[j]
<1> DEFINE c == Cardinality(groups)
<1>1. c \in Nat BY FS_CardinalityType
<1>2. order \in [1..c -> groups] /\ \A i, j \in 1..c : i # j => order[i] # order[j]
  BY DEF Orders, SetToSeqs
<1>3. order \in Injection(1..c, groups) BY <1>2 DEF Injection, IsInjective
<1>4. Cardinality(1..c) = c BY <1>1, FS_Interval
<1>5. order \in Surjection(1..c, groups) BY <1>3, <1>4, FS_Injection
<1>6. groups = {order[i] : i \in 1..c} BY <1>2, <1>5 DEF Surjection
<1>7. DOMAIN order = 1..c /\ Len(order) = c BY <1>1, <1>2
<1> QED BY <1>1, <1>2, <1>6, <1>7

(* What Place makes of some of the groups. *)
GroupsPlaced(a, base, groups) ==
  /\ a = [n \in DOMAIN a |-> a[n]]
  /\ DOMAIN a = DOMAIN base \cup UNION groups
  /\ \A n \in DOMAIN base : a[n] = base[n]
  /\ \A g \in groups : \A n, m \in g : a[n] = a[m]

(* Place does so, in whatever order it takes them. *)
LEMMA PlacedGroups ==
  ASSUME NEW groups \in SUBSET Groups, IsFiniteSet(groups), NEW order \in Orders(groups),
         NEW base, base = [n \in DOMAIN base |-> base[n]], (UNION groups) \cap DOMAIN base = {},
         NEW ratios, NEW total
  PROVE  GroupsPlaced(Place(order, ratios, total, base), base, groups)
<1> DEFINE a == Place(order, ratios, total, base)
<1>1. PICK c \in Nat : /\ DOMAIN order = 1..c /\ Len(order) = c
                       /\ groups = {order[i] : i \in 1..c}
                       /\ \A i, j \in 1..c : i # j => order[i] # order[j]
  BY OrdersAre
<1>2. \A i \in 1..c : order[i] \in groups /\ order[i] \in Groups BY <1>1
<1>3. \A i, j \in 1..c : i # j => order[i] \cap order[j] = {}
  BY <1>1, <1>2, GroupsAre
<1>4. \A i \in 1..c : order[i] \cap DOMAIN base = {} BY <1>2
<1>5. /\ a = [n \in DOMAIN a |-> a[n]]
      /\ DOMAIN a = DOMAIN base \cup UNION {order[i] : i \in 1..c}
      /\ \A n \in DOMAIN base : a[n] = base[n]
      /\ \A i \in 1..c : \A n, m \in order[i] : a[n] = a[m]
  <2>1. DOMAIN order = 1..c /\ Len(order) = c BY <1>1
  <2>2. PlacedWell(Place(order, ratios, total, base), base, order, c)
    BY <1>3, <1>4, <2>1, PlaceKeepsTogether
  <2> QED BY <2>2 DEF PlacedWell
<1>6. \A g \in groups : \E i \in 1..c : g = order[i] BY <1>1
<1>7. \A g \in groups : \A n, m \in g : a[n] = a[m] BY <1>5, <1>6
<1> HIDE DEF a
<1>8. GroupsPlaced(a, base, groups) BY <1>1, <1>5, <1>7 DEF GroupsPlaced
<1> QED BY <1>8 DEF a

(* There are finitely many groups, and together they are all there is. *)
LEMMA GroupsFinite ==
  ASSUME IsFiniteSet(Known)
  PROVE  /\ UNION Groups = Known
         /\ \A groups \in SUBSET Groups : IsFiniteSet(groups)
<1>1. IsFiniteSet(SUBSET Known) BY FS_SUBSET
<1>2. Groups \in SUBSET (SUBSET Known) BY GroupsAre
<1>3. \A groups \in SUBSET Groups : groups \in SUBSET (SUBSET Known) BY <1>2
<1> QED BY <1>1, <1>2, <1>3, GroupsAre, FS_Subset

(* splits.assign() keeps the groups together. *)
LEMMA AssignTogether ==
  ASSUME IsFiniteSet(Known), NEW a \in Assign
  PROVE  Together(a) /\ a = [n \in Known |-> a[n]]
<1>1. PICK order \in Orders(Groups) : a = Place(order, DefaultRatios, Cardinality(Known), <<>>)
  BY DEF Assign
<1>2. <<>> = [n \in DOMAIN <<>> |-> <<>>[n]] /\ (UNION Groups) \cap DOMAIN <<>> = {} OBVIOUS
<1>3. Groups \in SUBSET Groups /\ IsFiniteSet(Groups) /\ UNION Groups = Known
  BY GroupsFinite
<1>4. /\ a = [n \in DOMAIN a |-> a[n]]
      /\ DOMAIN a = DOMAIN <<>> \cup UNION Groups
      /\ \A g \in Groups : \A n, m \in g : a[n] = a[m]
  <2>1. GroupsPlaced(Place(order, DefaultRatios, Cardinality(Known), <<>>), <<>>, Groups)
    BY <1>2, <1>3, PlacedGroups
  <2> QED BY <1>1, <2>1 DEF GroupsPlaced
<1>5. DOMAIN a = Known BY <1>3, <1>4
<1> QED BY <1>4, <1>5 DEF Together

(* The group of an instance, and of any other in it, is the one it is in. *)
LEMMA ClassOfIs ==
  ASSUME NEW g \in Groups, NEW n \in g
  PROVE  ClassOf(n) = Class(g)
<1>1. g = CHOOSE h \in Groups : n \in h BY GroupsAre
<1> QED BY <1>1 DEF ClassOf

Staying(class, incremental) == IF incremental THEN {g \in {h \in Groups : Class(h) = class} : Kept(g)} ELSE {}

(* strata.assign_stratified() keeps the groups together, and in an          *)
(* incremental run leaves those that stay where they are.                   *)
LEMMA StratifiedTogether ==
  ASSUME IsFiniteSet(Known), NEW incremental \in BOOLEAN,
         incremental => \A g \in Groups : \A n, m \in g : split[n] = split[m],
         NEW a \in AssignStratified(incremental)
  PROVE  /\ Together(a) /\ a = [n \in Known |-> a[n]]
         /\ incremental => \A g \in Groups : Kept(g) => \A n \in g : a[n] = split[n]
<1> DEFINE class == [n \in Known |-> ClassOf(n)]
           classes == Range(class)
           by == [c \in classes |-> AssignClass(c, incremental)]
<1>1. PICK pick \in [classes -> UNION Range(by)] : /\ \A c \in classes : pick[c] \in by[c]
                                                   /\ a = [n \in Known |-> pick[class[n]][n]]
  BY DEF AssignStratified
<1>2. ASSUME NEW g \in Groups
      PROVE  /\ \A n, m \in g : a[n] = a[m]
             /\ incremental /\ Kept(g) => \A n \in g : a[n] = split[n]
  <2> DEFINE c == Class(g)
             groups == {h \in Groups : Class(h) = c}
             staying == Staying(c, incremental)
             base == [n \in UNION staying |-> split[n]]
             p == pick[c]
  <2>1. g \subseteq Known /\ g # {} /\ \A n \in g : class[n] = c BY GroupsAre, ClassOfIs
  <2>2. c \in classes BY <2>1 DEF Range
  <2>3. p \in AssignClass(c, incremental) BY <1>1, <2>2
  <2>4. PICK order \in Orders(groups \ staying) : p = Place(order, ClassRatios[c], Cardinality(UNION groups), base)
    BY <2>3 DEF AssignClass, Staying
  <2>5. staying \subseteq groups /\ groups \subseteq Groups /\ g \in groups BY DEF Staying
  <2>6. \A n \in g : a[n] = p[n] BY <1>1, <2>1
  <2> HIDE DEF groups, staying, p, c
  <2>7. base = [n \in DOMAIN base |-> base[n]] /\ DOMAIN base = UNION staying OBVIOUS
  <2>8. (UNION (groups \ staying)) \cap UNION staying = {}
    <3>1. ASSUME NEW h \in groups \ staying, NEW k \in staying PROVE h \cap k = {}
      BY <2>5, GroupsAre
    <3> QED BY <3>1
  <2>9. groups \ staying \in SUBSET Groups /\ IsFiniteSet(groups \ staying)
    BY <2>5, GroupsFinite
  <2>10. /\ \A n \in DOMAIN base : p[n] = base[n]
         /\ \A h \in groups \ staying : \A n, m \in h : p[n] = p[m]
    <3> DEFINE rest == groups \ staying
    <3>1. rest \in SUBSET Groups /\ IsFiniteSet(rest) /\ order \in Orders(rest) /\ (UNION rest) \cap DOMAIN base = {}
      BY <2>4, <2>7, <2>8, <2>9
    <3> HIDE DEF rest, base
    <3>2. GroupsPlaced(Place(order, ClassRatios[c], Cardinality(UNION groups), base), base, rest)
      BY <2>7, <3>1, PlacedGroups
    <3>3. GroupsPlaced(p, base, rest) BY <2>4, <3>2
    <3> QED BY <3>3 DEF GroupsPlaced, rest
  <2>11. CASE g \in staying
    <3>1. incremental BY <2>11 DEF staying, Staying
    <3>2. \A n \in g : n \in DOMAIN base /\ p[n] = split[n] BY <2>10, <2>11
    <3>3. \A n, m \in g : split[n] = split[m] BY <3>1
    <3> QED BY <2>6, <3>2, <3>3
  <2>12. CASE g \notin staying
    <3>1. ~(incremental /\ Kept(g)) BY <2>5, <2>12 DEF staying, Staying, groups
    <3>2. \A n, m \in g : p[n] = p[m] BY <2>5, <2>10, <2>12
    <3> QED BY <2>6, <3>1, <3>2
  <2> QED BY <2>11, <2>12
<1>3. a = [n \in Known |-> a[n]] /\ DOMAIN a = Known BY <1>1
<1> QED BY <1>2, <1>3 DEF Together

(* Mining appends and no command forgets: the split is of the first         *)
(* instances of the pool.                                                   *)
MinedOK == \E k \in Nat : k <= Len(Pool) /\ split = [n \in 1..k |-> split[n]]

(* The instances are finitely many, the first ones of the pool. *)
LEMMA KnownIs ==
  ASSUME MinedOK
  PROVE  IsFiniteSet(Known) /\ Known \subseteq DOMAIN Pool
<1>1. PICK k \in Nat : k <= Len(Pool) /\ split = [n \in 1..k |-> split[n]]
  BY DEF MinedOK
<1>2. Known = 1..k BY <1>1 DEF Known
<1>3. IsFiniteSet(1..k)
  <2>1. \A m \in Nat : IsFiniteSet(1..m) BY FS_Interval
  <2> QED BY <2>1
<1>4. 1..k \subseteq DOMAIN Pool
  <2>1. Len(Pool) \in Nat /\ DOMAIN Pool = 1..Len(Pool) BY HeldOutAssumption
  <2> QED BY <1>1, <2>1
<1> QED BY <1>2, <1>3, <1>4

(* An incremental run that is not refused starts from whole groups. *)
LEMMA WholeGroups ==
  ASSUME IsFiniteSet(Known), ~Refused(TRUE), NEW g \in Groups, NEW n \in g, NEW m \in g
  PROVE  split[n] = split[m]
<1>1. SUFFICES ASSUME split[n] # split[m] PROVE FALSE OBVIOUS
<1> DEFINE Of == {split[i] : i \in g}
           f == [i \in g |-> split[i]]
<1>2. g \in SUBSET Known BY GroupsAre
<1>3. IsFiniteSet(g) BY <1>2, FS_Subset
<1>4. f \in Surjection(g, Of) BY DEF Surjection
<1>5. ~(Cardinality(Of) > 1) BY DEF Refused
<1>6. {split[n], split[m]} \in SUBSET Of OBVIOUS
<1> HIDE DEF Of, f
<1>7. IsFiniteSet(Of) BY <1>3, <1>4, FS_Surjection
<1>8. Cardinality({split[n], split[m]}) = 2 BY <1>1, TwoAre
<1>9. Cardinality(Of) \in Nat /\ Cardinality({split[n], split[m]}) <= Cardinality(Of)
  BY <1>6, <1>7, Fewer
<1> QED BY <1>5, <1>8, <1>9

(* Only what a model wrote is in the stratum of what models wrote. *)
LEMMA OthersOutsideS5 ==
  ASSUME NEW n \in DOMAIN Pool, ~Pool[n].authored
  PROVE  Strata[n] \in {"S1", "S2", "S3", "S4", "control"}
<1>1. Pool[n].separation \in {"cross_document", "same_guide", "synthetic_split"} /\ Pool[n].contrast \in BOOLEAN
  BY HeldOutAssumption
<1>2. Stratum(Pool[n], TRUE) \in {"S1", "S2", "S3", "S4", "control"} BY <1>1 DEF Stratum
<1> QED BY <1>2 DEF Strata

(* The class of a group is that of its most protected member, and every     *)
(* class but S5 has quota in dev and in test.                               *)
LEMMA HeldOutStays ==
  ASSUME NEW g \in Groups, g \subseteq DOMAIN Pool, NEW n \in g, ~Pool[n].authored, split[n] \in {"dev", "test"}
  PROVE  Kept(g)
<1> DEFINE present == {Strata[i] : i \in g}
           S == {k \in DOMAIN Priority : Priority[k] \in present}
           c == Priority[Min(S)]
<1>1. DOMAIN Priority = 1..6 /\ Priority[1] = "S1" /\ Priority[2] = "S2" /\ Priority[3] = "S3"
      /\ Priority[4] = "S4" /\ Priority[5] = "control" /\ Priority[6] = "S5"
  BY DEF Priority
<1>2. PICK j \in 1..5 : j \in S
  <2>1. Strata[n] \in {"S1", "S2", "S3", "S4", "control"} /\ Strata[n] \in present
    BY OthersOutsideS5
  <2> HIDE DEF present
  <2>2. \E j \in 1..5 : Priority[j] = Strata[n] BY <1>1, <2>1
  <2>3. PICK j \in 1..5 : Priority[j] = Strata[n]
    BY <2>2
  <2>4. j \in DOMAIN Priority BY <1>1
  <2> QED BY <2>1, <2>3, <2>4
<1>3. S \in SUBSET (1..6) BY <1>1
<1> HIDE DEF S
<1>4. Min(S) \in S /\ \A k \in S : Min(S) <= k
  <2>1. S \in SUBSET Nat /\ S # {} BY <1>2, <1>3
  <2>2. \E m \in S : \A k \in S : m <= k BY <2>1, LeastBelow
  <2> QED BY <2>2 DEF Min
<1>5. Min(S) \in 1..5
  <2>1. Min(S) \in 1..6 /\ Min(S) <= j BY <1>2, <1>3, <1>4
  <2> QED BY <2>1
<1>6. Class(g) = c BY DEF Class, S
<1>7. c \in {"S1", "S2", "S3", "S4", "control"} BY <1>1, <1>5
<1> HIDE DEF c
<1>8. \A s \in {"dev", "test"} : s \in {r.split : r \in Range(ClassRatios[c])}
  <2>1. ASSUME NEW s \in {"dev", "test"} PROVE \E k \in DOMAIN ClassRatios[c] : ClassRatios[c][k].split = s
    <3>1. ClassRatios.S1[1].split = "test" /\ ClassRatios.S1[2].split = "dev" /\ DOMAIN ClassRatios.S1 = 1..2
      BY DEF ClassRatios, Share
    <3>2. ClassRatios.S2[1].split = "test" /\ ClassRatios.S2[2].split = "dev" /\ DOMAIN ClassRatios.S2 = 1..3
      BY DEF ClassRatios, Share
    <3>3. ClassRatios.S3[1].split = "test" /\ ClassRatios.S3[2].split = "dev" /\ DOMAIN ClassRatios.S3 = 1..3
      BY DEF ClassRatios, Share
    <3>4. ClassRatios.S4[1].split = "test" /\ ClassRatios.S4[2].split = "dev" /\ DOMAIN ClassRatios.S4 = 1..3
      BY DEF ClassRatios, Share
    <3>5. ClassRatios.control[1].split = "test" /\ ClassRatios.control[2].split = "dev" /\ DOMAIN ClassRatios.control = 1..3
      BY DEF ClassRatios, Share
    <3> QED BY <1>7, <3>1, <3>2, <3>3, <3>4, <3>5
  <2>2. \A k \in DOMAIN ClassRatios[c] : ClassRatios[c][k] \in Range(ClassRatios[c])
    BY DEF Range
  <2> QED BY <2>1, <2>2
<1> QED BY <1>6, <1>8 DEF Kept

(* What a step of the corpus may do. *)
SplitsHeld ==
  /\ how' \in {"assign", "resplit", "incremental"} /\ split' # split => Spanning(split') = {}
  /\ archived' # archived /\ how' = "incremental" =>
       \A n \in Known : split[n] \in {"dev", "test"} /\ ~Pool[n].authored => split'[n] = split[n]

(* Split and Resplit place whole groups; the rest does not assign. *)
LEMMA SplitStepOK ==
  ASSUME MinedOK, [StudyNext]_studyVars
  PROVE  MinedOK' /\ SplitsHeld
<1>1. PICK k \in Nat : k <= Len(Pool) /\ split = [n \in 1..k |-> split[n]]
  BY DEF MinedOK
<1>2. IsFiniteSet(Known) /\ Known \subseteq DOMAIN Pool BY KnownIs
<1>3. Known = 1..k BY <1>1 DEF Known
<1>4. ASSUME UNCHANGED <<split, how, archived>> PROVE MinedOK' /\ SplitsHeld
  BY <1>4 DEF MinedOK, SplitsHeld
<1>5. ASSUME Mine PROVE MinedOK' /\ SplitsHeld
  <2>1. Len(split) < Len(Pool) /\ split' = Append(split, "train") /\ how' = "mined" /\ UNCHANGED archived
    BY <1>5 DEF Mine
  <2>2. split \in Seq(Range(split)) /\ Len(split) = k BY <1>1 DEF Range
  <2>3. split' = [n \in 1..(k + 1) |-> split'[n]]
    <3> DEFINE S == Range(split) \cup {"train"}
    <3>1. split \in Seq(S) BY <1>1 DEF Range
    <3> HIDE DEF S
    <3>2. "train" \in S BY DEF S
    <3>3. split' \in Seq(S) /\ Len(split') = k + 1 BY <2>1, <2>2, <3>1, <3>2
    <3>4. \A s \in Seq(S) : s = [n \in 1..Len(s) |-> s[n]] OBVIOUS
    <3> QED BY <3>3, <3>4
  <2>4. k + 1 <= Len(Pool) /\ k + 1 \in Nat BY <2>1, <2>2, HeldOutAssumption
  <2> QED BY <2>1, <2>3, <2>4 DEF MinedOK, SplitsHeld
<1>6. ASSUME split' = [n \in Known |-> split'[n]] PROVE MinedOK'
  BY <1>1, <1>3, <1>6 DEF MinedOK
<1>7. ASSUME Split PROVE MinedOK' /\ SplitsHeld
  <2>1. split' \in Assign /\ how' = "assign" BY <1>7 DEF Split
  <2>2. Together(split') /\ split' = [n \in Known |-> split'[n]]
    BY <1>2, <2>1, AssignTogether
  <2>3. Spanning(split') = {} BY <2>2, NothingSpans
  <2> QED BY <1>6, <2>1, <2>2, <2>3 DEF SplitsHeld
<1>8. ASSUME NEW incremental \in BOOLEAN, Resplit(incremental) PROVE MinedOK' /\ SplitsHeld
  <2>1. split' \in AssignStratified(incremental) /\ ~Refused(incremental)
        /\ how' = IF incremental THEN "incremental" ELSE "resplit"
    BY <1>8 DEF Resplit
  <2>2. incremental => \A g \in Groups : \A n, m \in g : split[n] = split[m]
    BY <1>2, <2>1, WholeGroups
  <2>3. Together(split') /\ split' = [n \in Known |-> split'[n]]
        /\ (incremental => \A g \in Groups : Kept(g) => \A n \in g : split'[n] = split[n])
    BY <1>2, <2>1, <2>2, StratifiedTogether
  <2>4. Spanning(split') = {} BY <2>3, NothingSpans
  <2>5. ASSUME incremental, NEW n \in Known, split[n] \in {"dev", "test"}, ~Pool[n].authored
        PROVE  split'[n] = split[n]
    <3>1. PICK g \in Groups : n \in g
      BY GroupsAre
    <3>2. g \subseteq DOMAIN Pool BY <1>2, GroupsAre
    <3>3. Kept(g) BY <2>5, <3>1, <3>2, HeldOutStays
    <3> QED BY <2>3, <2>5, <3>1, <3>3
  <2>6. how' = "incremental" => incremental
    BY <2>1
  <2> QED BY <1>6, <2>3, <2>4, <2>5, <2>6 DEF SplitsHeld
<1>9. CASE UNCHANGED heldVars
  BY <1>4, <1>9 DEF heldVars
<1>10. CASE HeldNext
  BY <1>10, <1>4, <1>5, <1>7, <1>8
     DEF HeldNext, Export, Report, WriteManifest, Interrupted, Edit, Commit, Tag, Answer, Corpus
<1> QED BY <1>9, <1>10, HeldApart

(* Whatever the corpus, its order and its ties: no command that assigns     *)
(* splits lets a document span two of them, and an incremental run leaves   *)
(* dev and test where they are (benchmark/splits.py, strata.py).            *)
THEOREM HoldingOut == StudySpec => SplitsHold
<1>1. StudyInit => MinedOK
  <2>1. ASSUME split = <<>> PROVE MinedOK
    <3>1. 0 \in Nat /\ 0 <= Len(Pool) BY HeldOutAssumption
    <3>2. split = [n \in 1..0 |-> split[n]] BY <2>1
    <3> QED BY <3>1, <3>2 DEF MinedOK
  <2> QED BY <2>1 DEF StudyInit, HeldInit
<1>2. MinedOK /\ [StudyNext]_studyVars => MinedOK' /\ SplitsHeld
  BY SplitStepOK
<1>3. MinedOK /\ [StudyNext]_studyVars => [SplitsHeld]_heldVars
  BY <1>2
<1>4. SplitsHold <=> [][SplitsHeld]_heldVars
  BY DEF SplitsHold, SplitsHeld
<1> QED BY <1>1, <1>2, <1>3, <1>4, PTL DEF StudySpec

------------------------------------------------------------------------------
(* The release. *)

(* A step of the study is one of the release or leaves it alone. *)
LEMMA ReleaseApart ==
  ASSUME [StudyNext]_studyVars
  PROVE  ReleaseNext \/ UNCHANGED releaseVars
  BY DEF StudyNext, studyVars

TextOf(n) == instance.passages[n].text

(* A bundle that nobody edited holds every text it may hold, and of every   *)
(* text it withholds what tells whether a slice of the page is that text.   *)
BundleOK ==
  /\ bundle = [made |-> bundle.made, passages |-> bundle.passages, records |-> bundle.records]
  /\ Built =>
       /\ instance # Unread /\ DOMAIN bundle.records = ClosedOnes
       /\ \A n \in ClosedOnes : bundle.records[n].sha = IF bundle.records[n].place.exact THEN TextOf(n) ELSE Flat(TextOf(n))
       /\ ~tampered => bundle.passages = [n \in DOMAIN instance.passages |-> IF n \in ClosedOnes THEN Withheld ELSE TextOf(n)]
  /\ back.outcome = "restored" => Built /\ RestoredIsOriginal

(* At first there is no bundle. *)
LEMMA ReleaseInitOK == ReleaseInit => BundleOK
  BY DEF ReleaseInit, BundleOK, NoBundle, Built, NotBack

(* Building withholds and records; rehydration compares before it restores. *)
LEMMA ReleaseStepOK ==
  ASSUME BundleOK, [StudyNext]_studyVars
  PROVE  BundleOK'
<1>1. CASE UNCHANGED releaseVars
  BY <1>1 DEF BundleOK, releaseVars, Built, TextOf, ClosedOnes, RestoredIsOriginal
<1>2. ASSUME NEW opening, NEW text, LoadAll(opening, text) PROVE BundleOK'
  <2>1. ~Built BY <1>2 DEF LoadAll, BundleOK
  <2> QED BY <1>2, <2>1 DEF LoadAll, BundleOK, Built
<1>3. ASSUME NEW allowQuotes, NEW allowUnlocated, Build(allowQuotes, allowUnlocated) PROVE BundleOK'
  <2>1. /\ instance # Unread /\ bundle.made = "not" /\ UNCHANGED <<instance, tampered, back>>
        /\ \/ bundle' = [NoBundle EXCEPT !.made = "refused"]
           \/ \E made \in {"quoting", "clean"} :
                bundle' = [made |-> made,
                           passages |-> [n \in DOMAIN instance.passages |-> IF n \in ClosedOnes THEN Withheld ELSE TextOf(n)],
                           records |-> [n \in ClosedOnes |-> Records[n]]]
    BY <1>3 DEF Build, TextOf
  <2>2. back.outcome # "restored" BY <2>1 DEF BundleOK, Built
  <2>3. \A n \in ClosedOnes : Records[n].sha = IF Records[n].place.exact THEN TextOf(n) ELSE Flat(TextOf(n))
    BY DEF Records, Record, ClosedOnes, TextOf
  <2>4. CASE bundle' = [NoBundle EXCEPT !.made = "refused"]
    BY <2>1, <2>2, <2>4 DEF BundleOK, NoBundle, Built
  <2>5. ASSUME NEW made \in {"quoting", "clean"},
               bundle' = [made |-> made,
                          passages |-> [n \in DOMAIN instance.passages |-> IF n \in ClosedOnes THEN Withheld ELSE TextOf(n)],
                          records |-> [n \in ClosedOnes |-> Records[n]]]
        PROVE BundleOK'
    <3>1. ClosedOnes' = ClosedOnes /\ \A n : TextOf(n)' = TextOf(n)
      BY <2>1 DEF ClosedOnes, TextOf
    <3>2. /\ bundle'.made = made /\ DOMAIN bundle'.records = ClosedOnes /\ \A n \in ClosedOnes : bundle'.records[n] = Records[n]
          /\ bundle'.passages = [n \in DOMAIN instance.passages |-> IF n \in ClosedOnes THEN Withheld ELSE TextOf(n)]
          /\ bundle' = [made |-> bundle'.made, passages |-> bundle'.passages, records |-> bundle'.records]
      BY <2>5
    <3> QED BY <2>1, <2>2, <2>3, <3>1, <3>2 DEF BundleOK
  <2> QED BY <2>1, <2>4, <2>5
<1>4. ASSUME NEW text, PageChanges(text) PROVE BundleOK'
  BY <1>4 DEF PageChanges, BundleOK, NotBack, Built, ClosedOnes, TextOf
<1>5. ASSUME Tamper PROVE BundleOK'
  <2>1. /\ bundle' = [bundle EXCEPT !.passages[1] = Append(@, "added")]
        /\ tampered' /\ back' = NotBack /\ UNCHANGED instance
    BY <1>5 DEF Tamper
  <2>2. /\ bundle'.made = bundle.made /\ bundle'.records = bundle.records
        /\ bundle' = [made |-> bundle'.made, passages |-> bundle'.passages, records |-> bundle'.records]
    BY <2>1 DEF BundleOK
  <2> QED BY <2>1, <2>2 DEF BundleOK, NotBack, Built, ClosedOnes, TextOf
<1>6. ASSUME Rehydrate PROVE BundleOK'
  <2> DEFINE located == {n \in DOMAIN bundle.records : bundle.records[n].located}
  <2>1. Built /\ UNCHANGED <<instance, web, bundle, tampered>> BY <1>6 DEF Rehydrate
  <2>2. ASSUME back'.outcome = "restored" PROVE RestoredIsOriginal'
    <3>1. /\ ~tampered /\ \A n \in located : Unchanged(bundle.records[n])
          /\ back'.unrestorable = DOMAIN bundle.records \ located
          /\ back'.passages = [n \in DOMAIN bundle.passages |->
                                 IF n \in located THEN Slice(bundle.records[n].place) ELSE bundle.passages[n]]
      BY <1>6, <2>2 DEF Rehydrate, NotBack
    <3>2. /\ DOMAIN bundle.records = ClosedOnes /\ DOMAIN bundle.passages = DOMAIN instance.passages
          /\ \A n \in DOMAIN instance.passages : bundle.passages[n] = IF n \in ClosedOnes THEN Withheld ELSE TextOf(n)
          /\ \A n \in ClosedOnes : bundle.records[n].sha = IF bundle.records[n].place.exact THEN TextOf(n) ELSE Flat(TextOf(n))
      BY <2>1, <3>1 DEF BundleOK
    <3>3. ASSUME NEW n \in DOMAIN instance.passages
          PROVE  IF n \in back'.unrestorable THEN back'.passages[n] = Withheld
                 ELSE Flat(back'.passages[n]) = Flat(TextOf(n))
      <4>1. CASE n \in located
        <5>1. bundle.records[n].sha = IF bundle.records[n].place.exact THEN Slice(bundle.records[n].place)
                                      ELSE Flat(Slice(bundle.records[n].place))
          BY <3>1, <4>1 DEF Unchanged
        <5>2. n \notin back'.unrestorable /\ back'.passages[n] = Slice(bundle.records[n].place) /\ n \in ClosedOnes
          BY <3>1, <3>2, <4>1
        <5> QED BY <3>2, <5>1, <5>2
      <4>2. CASE n \notin located
        BY <3>1, <3>2, <4>2
      <4> QED BY <4>1, <4>2
    <3> QED BY <2>1, <3>3 DEF RestoredIsOriginal, TextOf
  <2> QED BY <2>1, <2>2 DEF BundleOK, Built, ClosedOnes, TextOf
<1> QED BY <1>1, <1>2, <1>3, <1>4, <1>5, <1>6, ReleaseApart DEF ReleaseNext

(* What rehydrate puts back compares equal to what was annotated            *)
(* (release/bundle.py).                                                     *)
THEOREM Restoring == StudySpec => []RestoredIsOriginal
<1>1. StudyInit => BundleOK
  BY ReleaseInitOK DEF StudyInit
<1>2. BundleOK /\ [StudyNext]_studyVars => BundleOK'
  BY ReleaseStepOK
<1>3. BundleOK => RestoredIsOriginal
  BY DEF BundleOK, RestoredIsOriginal
<1> QED BY <1>1, <1>2, <1>3, PTL DEF StudySpec

(* What of a text Collapse leaves, symbol by symbol. *)
Remnants(text) == [n \in DOMAIN text |-> Remains(text, n)]

(* What is left of each symbol is a text. *)
LEMMA RemnantsAre ==
  ASSUME NEW A, Blank \in A, NEW text \in Seq(A)
  PROVE  Remnants(text) \in Seq(Seq(A)) /\ Len(Remnants(text)) = Len(text)
<1>1. Len(text) \in Nat /\ DOMAIN text = 1..Len(text) /\ \A n \in DOMAIN text : text[n] \in A
  OBVIOUS
<1>2. \A n \in DOMAIN text : Remains(text, n) \in {<<text[n]>>, <<Blank>>, <<>>}
  BY DEF Remains
<1>3. \A n \in DOMAIN text : Remains(text, n) \in Seq(A)
  <2>1. <<>> \in Seq(A) /\ \A x \in A : <<x>> \in Seq(A) OBVIOUS
  <2> QED BY <1>1, <1>2, <2>1
<1>4. Remnants(text) \in [1..Len(text) -> Seq(A)] BY <1>1, <1>3 DEF Remnants
<1> QED BY <1>1, <1>4

(* In a text that holds a field after a blank, as much is left of the field *)
(* as of the field alone, up to its last word.                              *)
Holds(text, o, field) ==
  /\ o \in 1..Len(text) /\ text[o] = Blank /\ o + Len(field) <= Len(text)
  /\ \A i \in 1..Len(field) : text[o + i] = field[i]

Wordy(field, i) == \E m \in i..Len(field) : ~White(field[m])

(* A symbol of the field leaves in the text what it leaves in the field, but*)
(* for the blanks at the end of the field.                                  *)
LEMMA SameRemains ==
  ASSUME NEW A, White(Blank), NEW text \in Seq(A), NEW field \in Seq(A), NEW o, Holds(text, o, field),
         NEW i \in 1..Len(field)
  PROVE  Remains(field, i) = IF Wordy(field, i) THEN Remains(text, o + i) ELSE <<>>
<1>1. o \in Nat \ {0} /\ i \in Nat \ {0} /\ Len(field) \in Nat /\ Len(text) \in Nat /\ i <= Len(field) /\ o + Len(field) <= Len(text)
  BY DEF Holds
<1>2. text[o] = Blank /\ \A m \in 1..Len(field) : text[o + m] = field[m] BY DEF Holds
<1>3. text[o + i] = field[i] BY <1>2
<1>4. CASE ~White(field[i])
  <2>1. i \in i..Len(field) BY <1>1
  <2>2. Wordy(field, i) BY <1>4, <2>1 DEF Wordy
  <2> QED BY <1>3, <1>4, <2>2 DEF Remains
<1>5. CASE White(field[i]) /\ ~Wordy(field, i)
  BY <1>5 DEF Remains, Wordy
<1>6. CASE White(field[i]) /\ Wordy(field, i)
  <2>1. \E m \in (o + i)..Len(text) : ~White(text[m])
    <3>1. PICK m \in i..Len(field) : ~White(field[m])
      BY <1>6 DEF Wordy
    <3>2. m \in 1..Len(field) /\ o + m \in (o + i)..Len(text) BY <1>1, <3>1
    <3>3. ~White(text[o + m]) BY <1>2, <3>1, <3>2
    <3> QED BY <3>2, <3>3
  <2>2. o + i > 1 BY <1>1
  <2>3. White(text[(o + i) - 1]) <=> ~(i > 1 /\ ~White(field[i - 1]))
    <3>1. CASE i = 1
      <4>1. (o + i) - 1 = o BY <1>1, <3>1
      <4> QED BY <1>2, <3>1, <4>1
    <3>2. CASE i # 1
      <4>1. i > 1 /\ i - 1 \in 1..Len(field) /\ (o + i) - 1 = o + (i - 1) BY <1>1, <3>2
      <4> QED BY <1>2, <4>1
    <3> QED BY <3>1, <3>2
  <2>4. \E m \in i..Len(field) : ~White(field[m]) BY <1>6 DEF Wordy
  <2>5. White(text[o + i]) BY <1>3, <1>6
  <2> QED BY <1>6, <2>1, <2>2, <2>3, <2>4, <2>5 DEF Remains
<1> QED BY <1>4, <1>5, <1>6

(* What follows on from what, in three texts. *)
LEMMA Regroup ==
  ASSUME NEW A, NEW s \in Seq(A), NEW t \in Seq(A), NEW u \in Seq(A)
  PROVE  (s \o t) \o u = s \o (t \o u) /\ t \o u \in Seq(A) /\ s \o t \in Seq(A) /\ s \o <<>> = s
  BY ConcatAssociative

Associates(s, t, u) == (s \o t) \o u = s \o (t \o u)

(* How three texts are grouped makes no difference. *)
LEMMA AllAssociate ==
  ASSUME NEW A, NEW s \in Seq(A), NEW t \in Seq(A), NEW u \in Seq(A)
  PROVE  Associates(s, t, u)
  BY ConcatAssociative DEF Associates

(* What is left of the field is in what is left of the text. *)
LEMMA CollapseInside ==
  ASSUME NEW A, Blank \in A, White(Blank), NEW text \in Seq(A), NEW field \in Seq(A), NEW o, Holds(text, o, field)
  PROVE  Inside(Collapse(field), Collapse(text), A)
<1> DEFINE L == Len(field)
           N == Len(text)
<1>1. Remnants(field) \in Seq(Seq(A)) /\ Len(Remnants(field)) = L /\ Remnants(text) \in Seq(Seq(A)) /\ Len(Remnants(text)) = N
  BY RemnantsAre
<1>2. PICK f : Flattening(f, Remnants(field), A)
  BY <1>1, FlattenedSoFar
<1>3. PICK t : Flattening(t, Remnants(text), A)
  BY <1>1, FlattenedSoFar
<1>4. L \in Nat /\ N \in Nat /\ o \in Nat \ {0} /\ o + L <= N BY DEF Holds
<1>5. /\ f \in [0..L -> Seq(A)] /\ f[0] = <<>> /\ f[L] = Collapse(field)
      /\ \A i \in 1..L : f[i] = f[i - 1] \o Remains(field, i)
  <2>1. Collapse(field) = FlattenSeq(Remnants(field)) BY DEF Collapse, Remnants
  <2>2. \A i \in 1..L : Remnants(field)[i] = Remains(field, i) BY DEF Remnants
  <2> QED BY <1>1, <1>2, <2>1, <2>2 DEF Flattening
<1>6. /\ t \in [0..N -> Seq(A)] /\ t[N] = Collapse(text)
      /\ \A i \in 1..N : t[i] = t[i - 1] \o Remains(text, i)
  <2>1. Collapse(text) = FlattenSeq(Remnants(text)) BY DEF Collapse, Remnants
  <2>2. \A i \in 1..N : Remnants(text)[i] = Remains(text, i) BY DEF Remnants
  <2> QED BY <1>1, <1>3, <2>1, <2>2 DEF Flattening
<1>7. /\ \A i \in 1..L : Remains(field, i) \in Seq(A)
      /\ \A i \in 1..N : Remains(text, i) \in Seq(A)
  <2>1. (\A i \in 1..L : Remnants(field)[i] \in Seq(A)) /\ (\A i \in 1..N : Remnants(text)[i] \in Seq(A))
    <3> HIDE DEF L, N
    <3> QED BY <1>1
  <2>2. (\A i \in 1..L : Remnants(field)[i] = Remains(field, i)) /\ (\A i \in 1..N : Remnants(text)[i] = Remains(text, i))
    BY DEF Remnants
  <2> QED BY <2>1, <2>2
<1> HIDE DEF L, N
<1> DEFINE Same(i, y) == t[o + i] = (t[o] \o f[i]) \o y /\ (Wordy(field, i + 1) => y = <<>>)
           Good == {i \in Nat : i <= L => \E y \in Seq(A) : Same(i, y)}
<1>8. t[o] \in Seq(A) BY <1>4, <1>6
<1>9. 0 \in Good
  <2>1. o + 0 = o /\ f[0] = <<>> /\ <<>> \in Seq(A) BY <1>4, <1>5
  <2>2. (t[o] \o <<>>) \o <<>> = t[o] BY <1>8
  <2>3. Same(0, <<>>) BY <2>1, <2>2
  <2> QED BY <2>1, <2>3
<1>10. ASSUME NEW i \in Nat, i \in Good PROVE i + 1 \in Good
  <2>1. SUFFICES ASSUME i + 1 <= L PROVE \E y \in Seq(A) : Same(i + 1, y)
    <3>1. i + 1 \in Nat OBVIOUS
    <3> QED BY <3>1
  <2>2. i <= L /\ i \in 0..L /\ i + 1 \in 1..L /\ (i + 1) - 1 = i
        /\ o + (i + 1) \in 1..N /\ (o + (i + 1)) - 1 = o + i /\ o + i \in 0..N
    BY <1>4, <2>1
  <2>3. PICK y \in Seq(A) : Same(i, y)
    BY <1>10, <2>2
  <2> DEFINE p == Remains(field, i + 1)
             q == Remains(text, o + (i + 1))
             b == t[o]
             a == f[i]
  <2>4. f[i + 1] = a \o p /\ t[o + (i + 1)] = t[o + i] \o q BY <1>5, <1>6, <2>2
  <2>5. a \in Seq(A) /\ p \in Seq(A) /\ q \in Seq(A) /\ b \in Seq(A)
    BY <1>5, <1>7, <1>8, <2>2
  <2>6. p = IF Wordy(field, i + 1) THEN q ELSE <<>>
    BY <2>2, SameRemains DEF L
  <2>7. t[o + i] = (b \o a) \o y /\ (Wordy(field, i + 1) => y = <<>>)
    BY <2>3
  <2>8. Wordy(field, (i + 1) + 1) => Wordy(field, i + 1)
    BY <1>4, <2>2 DEF Wordy, L
  <2> HIDE DEF p, q, a, b
  <2>9. CASE Wordy(field, i + 1)
    <3>1. t[o + i] = b \o a BY <2>5, <2>7, <2>9, Regroup
    <3>2. t[o + (i + 1)] = (b \o a) \o p BY <2>4, <2>6, <2>9, <3>1
    <3>3. t[o + (i + 1)] = b \o (a \o p)
      <4>1. Associates(b, a, p) BY <2>5, AllAssociate
      <4> QED BY <3>2, <4>1 DEF Associates
    <3>4. a \o p \in Seq(A) /\ b \o (a \o p) \in Seq(A) /\ <<>> \in Seq(A) BY <2>5
    <3>5. t[o + (i + 1)] = (b \o (a \o p)) \o <<>> BY <3>3, <3>4
    <3>6. Same(i + 1, <<>>) BY <2>4, <3>5 DEF b
    <3> QED BY <3>4, <3>6
  <2>10. CASE ~Wordy(field, i + 1)
    <3>1. f[i + 1] = a BY <2>4, <2>5, <2>6, <2>10, Regroup
    <3>2. b \o a \in Seq(A) BY <2>5
    <3>3. t[o + (i + 1)] = ((b \o a) \o y) \o q BY <2>4, <2>7
    <3>4. ((b \o a) \o y) \o q = (b \o a) \o (y \o q) /\ y \o q \in Seq(A)
      <4> DEFINE ba == b \o a
      <4>1. ba \in Seq(A) /\ q \in Seq(A) /\ y \in Seq(A) BY <2>5, <3>2
      <4> HIDE DEF ba
      <4>2. Associates(ba, y, q) BY <4>1, AllAssociate
      <4>3. y \o q \in Seq(A) BY <4>1
      <4> QED BY <4>2, <4>3 DEF ba, Associates
    <3>5. Same(i + 1, y \o q) BY <2>8, <2>10, <3>1, <3>3, <3>4 DEF b
    <3> QED BY <3>4, <3>5
  <2> QED BY <2>9, <2>10
<1>11. L \in Good
  <2> HIDE DEF Good
  <2> QED BY <1>4, <1>9, <1>10, AllNumbers
<1>12. PICK y \in Seq(A) : t[o + L] = (t[o] \o f[L]) \o y
  <2>1. \E y \in Seq(A) : Same(L, y)
    <3> HIDE DEF Same
    <3> QED BY <1>4, <1>11
  <2> QED BY <2>1
<1>13. PICK z \in Seq(A) : t[N] = t[o + L] \o z
  <2>1. o + L \in 0..Len(Remnants(text)) BY <1>1, <1>4 DEF N
  <2>2. \E z \in Seq(A) : FlattenSeq(Remnants(text)) = t[o + L] \o z
    <3> DEFINE seqs == Remnants(text)
               k == o + L
    <3>1. seqs \in Seq(Seq(A)) /\ Flattening(t, seqs, A) /\ k \in 0..Len(seqs)
      BY <1>1, <1>3, <2>1
    <3> HIDE DEF seqs, k
    <3>2. \E z \in Seq(A) : FlattenSeq(seqs) = t[k] \o z
      BY <3>1, FlattenedFrom, ZenonT(60)
    <3> QED BY <3>2 DEF seqs, k
  <2>3. t[N] = FlattenSeq(Remnants(text)) BY <1>6 DEF Collapse, Remnants
  <2> QED BY <2>2, <2>3
<1>14. t[o] \o f[L] \in Seq(A)
  <2>1. f[L] \in Seq(A) BY <1>4, <1>5
  <2> QED BY <1>8, <2>1
<1> DEFINE c == t[o] \o f[L]
<1>15. t[N] = (c \o y) \o z /\ c \in Seq(A) BY <1>12, <1>13, <1>14
<1> HIDE DEF c
<1>16. t[N] = c \o (y \o z) /\ y \o z \in Seq(A) BY <1>15, Regroup, SMTT(30)
<1>17. t[N] = (t[o] \o f[L]) \o (y \o z) BY <1>16 DEF c
<1> QED BY <1>5, <1>6, <1>8, <1>16, <1>17 DEF Inside

(* Where the needle starts. *)
Starts(needle, text) == {n \in 1..(Len(text) - Len(needle) + 1) : SubSeq(text, n, n + Len(needle) - 1) = needle}

(* Find() finds the needle if it starts somewhere. *)
LEMMA FindIs ==
  ASSUME NEW A, NEW needle \in Seq(A), NEW text \in Seq(A)
  PROVE  Find(needle, text) # 0 <=> Starts(needle, text) # {}
<1>1. Find(needle, text) = IF Starts(needle, text) = {} THEN 0 ELSE Min(Starts(needle, text))
  BY DEF Find, Starts
<1>2. Starts(needle, text) \in SUBSET (Nat \ {0}) BY DEF Starts
<1>3. ASSUME Starts(needle, text) # {} PROVE Min(Starts(needle, text)) # 0
  <2> DEFINE S == Starts(needle, text)
  <2>1. S \in SUBSET Nat /\ S # {} /\ 0 \notin S BY <1>2, <1>3
  <2> HIDE DEF S
  <2>2. Min(S) \in S BY <2>1, LeastExists
  <2>3. Min(S) # 0 BY <2>1, <2>2
  <2> QED BY <2>3 DEF S
<1> QED BY <1>1, <1>3

(* A slice, symbol by symbol. *)
LEMMA SubSeqIs ==
  ASSUME NEW s, NEW m \in Int, NEW k \in Int
  PROVE  SubSeq(s, m, k) = [i \in 1..(1 + k - m) |-> s[i + m - 1]]
  OBVIOUS

(* What is found in a part is found in the whole. *)
LEMMA FoundInside ==
  ASSUME NEW A, NEW part \in Seq(A), NEW all \in Seq(A), NEW needle \in Seq(A), Inside(part, all, A),
         Find(needle, part) # 0
  PROVE  Find(needle, all) # 0
<1>1. PICK x, y \in Seq(A) : all = (x \o part) \o y
  BY DEF Inside
<1> DEFINE l == Len(needle)
           c == Len(part)
           b == Len(x)
           N == Len(all)
<1>2. PICK n \in 1..(c - l + 1) : SubSeq(part, n, n + l - 1) = needle
  <2>1. Starts(needle, part) # {} BY FindIs
  <2> QED BY <2>1 DEF Starts
<1>3. l \in Nat /\ c \in Nat /\ b \in Nat /\ N \in Nat OBVIOUS
<1>4. N = b + c + Len(y) /\ Len(y) \in Nat /\ \A i \in 1..c : all[b + i] = part[i]
  <2>1. x \o part \in Seq(A) /\ Len(x \o part) = b + c /\ \A i \in 1..c : (x \o part)[b + i] = part[i]
    <3>1. \A i \in 1..c : b + i \in 1..(b + c) /\ ~(b + i <= b) /\ (b + i) - b = i BY <1>3
    <3> QED BY <3>1, ConcatProperties
  <2> DEFINE d == x \o part
  <2>2. d \in Seq(A) /\ all = d \o y /\ Len(d) = b + c BY <1>1, <2>1
  <2> HIDE DEF d
  <2>3. Len(all) = Len(d) + Len(y) /\ \A i \in 1..Len(d) : all[i] = d[i] BY <2>2
  <2>4. \A i \in 1..c : b + i \in 1..Len(d) BY <1>3, <2>2
  <2>5. \A i \in 1..c : d[b + i] = part[i] BY <2>1 DEF d
  <2> QED BY <2>2, <2>3, <2>4, <2>5
<1>5. \A i \in 1..l : part[n + i - 1] = needle[i]
  <2>1. SubSeq(part, n, n + l - 1) = [i \in 1..(1 + (n + l - 1) - n) |-> part[i + n - 1]]
    BY SubSeqIs
  <2>2. 1 + (n + l - 1) - n = l BY <1>3
  <2>3. \A i \in 1..l : i + n - 1 = n + i - 1 BY <1>3
  <2> QED BY <1>2, <2>1, <2>2, <2>3
<1>6. b + n \in 1..(N - l + 1) BY <1>3, <1>4
<1>7. \A i \in 1..l : n + i - 1 \in 1..c /\ i + (b + n) - 1 = b + (n + i - 1) BY <1>3
<1> HIDE DEF b, c, N, l
<1>8. \A i \in 1..l : all[i + (b + n) - 1] = needle[i] BY <1>4, <1>5, <1>7
<1>9. SubSeq(all, b + n, (b + n) + l - 1) = needle
  <2>1. SubSeq(all, b + n, (b + n) + l - 1) = [i \in 1..(1 + ((b + n) + l - 1) - (b + n)) |-> all[i + (b + n) - 1]]
    <3>1. b + n \in Int /\ (b + n) + l - 1 \in Int BY <1>3
    <3> QED BY <3>1, SubSeqIs, SMTT(30)
  <2>2. 1 + ((b + n) + l - 1) - (b + n) = l BY <1>3
  <2>3. needle = [i \in 1..l |-> needle[i]] BY DEF l
  <2> QED BY <1>8, <2>1, <2>2, <2>3
<1>10. b + n \in Starts(needle, all) BY <1>6, <1>9 DEF Starts, l, N
<1> QED BY <1>10, FindIs

(* Every one of the others is in what they are joined to. *)
LEMMA JoinedHas ==
  ASSUME NEW A, Blank \in A, White(Blank), NEW others \in Seq(Seq(A)), NEW k \in DOMAIN others
  PROVE  Inside(Collapse(others[k]), Joined(others), A) /\ Joined(others) \in Seq(A) /\ Collapse(others[k]) \in Seq(A)
<1> DEFINE seqs == [n \in DOMAIN others |-> <<Blank>> \o others[n]]
           field == others[k]
           text == FlattenSeq(seqs)
<1>1. /\ Len(others) \in Nat /\ DOMAIN others = 1..Len(others) /\ k \in 1..Len(others)
      /\ field \in Seq(A) /\ \A n \in DOMAIN others : others[n] \in Seq(A)
  OBVIOUS
<1>2. seqs \in Seq(Seq(A)) /\ Len(seqs) = Len(others) /\ seqs[k] = <<Blank>> \o field
  <2>1. \A n \in DOMAIN others : <<Blank>> \o others[n] \in Seq(A)
    <3>1. <<Blank>> \in Seq(A) OBVIOUS
    <3> QED BY <1>1, <3>1
  <2>2. seqs \in [1..Len(others) -> Seq(A)] BY <1>1, <2>1
  <2> QED BY <1>1, <2>2
<1> HIDE DEF seqs, field
<1>3. PICK g : Flattening(g, seqs, A)
  BY <1>2, FlattenedSoFar
<1>4. k - 1 \in 0..Len(seqs) /\ k \in 0..Len(seqs) /\ k \in 1..Len(seqs) BY <1>1, <1>2
<1>5. PICK y \in Seq(A) : text = g[k] \o y
  <2>1. k \in 0..Len(seqs) BY <1>4
  <2>2. seqs \in Seq(Seq(A)) BY <1>2
  <2>3. \E y \in Seq(A) : FlattenSeq(seqs) = g[k] \o y
    BY <1>3, <2>1, <2>2, FlattenedFrom, ZenonT(60)
  <2> QED BY <2>3
<1> DEFINE b == g[k - 1]
           o == Len(b) + 1
<1>6. b \in Seq(A) /\ text = (b \o (<<Blank>> \o field)) \o y /\ text \in Seq(A)
  <2>1. g[k - 1] \in Seq(A) /\ g[k] = g[k - 1] \o seqs[k] BY <1>4, <1>3 DEF Flattening
  <2>2. text \in Seq(A) BY <1>2, FlattenIs
  <2> QED BY <1>2, <1>5, <2>1, <2>2
<1> HIDE DEF b, text
<1>7. Holds(text, o, field)
  <2> DEFINE f == <<Blank>> \o field
             d == b \o f
  <2>1. f \in Seq(A) /\ Len(f) = Len(field) + 1 /\ f[1] = Blank /\ \A i \in 1..Len(field) : f[i + 1] = field[i]
    <3>1. <<Blank>> \in Seq(A) /\ Len(<<Blank>>) = 1 /\ <<Blank>>[1] = Blank /\ field \in Seq(A) /\ Len(field) \in Nat
      BY <1>1
    <3>2. f \in Seq(A) /\ Len(f) = Len(field) + 1 BY <3>1
    <3>3. \A i \in 1..(1 + Len(field)) : f[i] = IF i <= 1 THEN <<Blank>>[i] ELSE field[i - 1]
      BY <3>1, ConcatProperties
    <3>4. 1 \in 1..(1 + Len(field)) /\ \A i \in 1..Len(field) : i + 1 \in 1..(1 + Len(field)) /\ ~(i + 1 <= 1) /\ (i + 1) - 1 = i
      BY <3>1
    <3> QED BY <3>1, <3>2, <3>3, <3>4
  <2> HIDE DEF f
  <2>2. Len(b) \in Nat /\ Len(field) \in Nat /\ Len(y) \in Nat /\ b \in Seq(A)
    BY <1>1, <1>6
  <2>3. d \in Seq(A) /\ Len(d) = Len(b) + Len(f) /\ \A i \in 1..Len(f) : d[Len(b) + i] = f[i]
    <3>1. d \in Seq(A) /\ Len(d) = Len(b) + Len(f)
      <4>1. f \in Seq(A) /\ b \in Seq(A) BY <2>1, <2>2
      <4> QED BY <4>1, ConcatProperties
    <3>2. \A i \in 1..(Len(b) + Len(f)) : d[i] = IF i <= Len(b) THEN b[i] ELSE f[i - Len(b)]
      BY <2>1, <2>2, ConcatProperties
    <3>3. \A i \in 1..Len(f) : Len(b) + i \in 1..(Len(b) + Len(f)) /\ ~(Len(b) + i <= Len(b)) /\ (Len(b) + i) - Len(b) = i
      BY <2>1, <2>2
    <3> QED BY <3>1, <3>2, <3>3
  <2>4. text = d \o y BY <1>6 DEF f
  <2> HIDE DEF d
  <2>5. Len(text) = Len(d) + Len(y) /\ \A i \in 1..Len(d) : text[i] = d[i] BY <2>3, <2>4
  <2>6. o \in 1..Len(text) /\ o + Len(field) <= Len(text) BY <2>1, <2>2, <2>3, <2>5
  <2>7. text[o] = Blank
    <3>1. 1 \in 1..Len(f) /\ Len(b) + 1 \in 1..Len(d) BY <2>1, <2>2, <2>3
    <3> QED BY <2>1, <2>3, <2>5, <3>1
  <2>8. \A i \in 1..Len(field) : text[o + i] = field[i]
    <3>1. \A i \in 1..Len(field) : i + 1 \in 1..Len(f) /\ o + i = Len(b) + (i + 1) /\ o + i \in 1..Len(d)
      BY <2>1, <2>2, <2>3
    <3> QED BY <2>1, <2>3, <2>5, <3>1
  <2> QED BY <2>6, <2>7, <2>8 DEF Holds
<1>8. Inside(Collapse(field), Collapse(text), A)
  <2> HIDE DEF o
  <2> QED BY <1>1, <1>6, <1>7, CollapseInside
<1>9. \A u \in Seq(A) : Collapse(u) \in Seq(A)
  BY RemnantsAre, FlattenIs DEF Collapse, Remnants
<1>10. Joined(others) = Collapse(text) BY DEF Joined, text, seqs
<1> QED BY <1>1, <1>6, <1>8, <1>9, <1>10 DEF field

(* Of a text no run of words that the others do not have together is in one *)
(* of them.                                                                 *)
LEMMA UnquotedApart ==
  ASSUME NEW A, Blank \in A, White(Blank), NEW text \in Seq(A), NEW others \in Seq(Seq(A)),
         ~Quoted(text, others), NEW k \in DOMAIN others,
         NEW first \in DOMAIN Collapse(text), NEW last \in DOMAIN Collapse(text), IsRun(Collapse(text), first, last)
  PROVE  Find(SubSeq(Collapse(text), first, last), Collapse(others[k])) = 0
<1> DEFINE words == Collapse(text)
           needle == SubSeq(words, first, last)
<1>1. Find(needle, Joined(others)) = 0 BY DEF Quoted
<1>2. words \in Seq(A) BY RemnantsAre, FlattenIs DEF Collapse, Remnants
<1>3. needle \in Seq(A)
  <2> HIDE DEF words
  <2>1. first \in 1..Len(words) /\ last \in 1..Len(words) /\ Len(words) \in Nat
    BY <1>2 DEF words
  <2>2. \A i \in first..last : words[i] \in A BY <1>2, <2>1
  <2> QED BY <2>1, <2>2, SubSeqProperties
<1>4. Inside(Collapse(others[k]), Joined(others), A) /\ Joined(others) \in Seq(A) /\ Collapse(others[k]) \in Seq(A)
  BY JoinedHas
<1> HIDE DEF needle
<1>5. ~(Find(needle, Collapse(others[k])) # 0) BY <1>1, <1>3, <1>4, FoundInside
<1> QED BY <1>5 DEF needle

(* A clean bundle is of an instance that was read, none of whose withheld   *)
(* passages is quoted.                                                      *)
ShipsOK ==
  /\ instance \in Openings \cup {Unread}
  /\ bundle.made = "clean" => \A n \in ClosedOnes : ~Quoted(TextOf(n), Others)

(* A bundle is made clean only where nothing withheld is quoted. *)
LEMMA ShipsStepOK ==
  ASSUME BundleOK, ShipsOK, [StudyNext]_studyVars
  PROVE  ShipsOK'
<1>1. ASSUME UNCHANGED <<instance, bundle>> PROVE ShipsOK'
  BY <1>1 DEF ShipsOK, ClosedOnes, TextOf, Others
<1>2. ASSUME NEW opening \in Openings, NEW text, LoadAll(opening, text) PROVE ShipsOK'
  <2>1. instance = Unread /\ instance' = opening /\ bundle' = bundle BY <1>2 DEF LoadAll
  <2>2. bundle.made # "clean" BY <2>1 DEF BundleOK, Built
  <2> QED BY <2>1, <2>2 DEF ShipsOK
<1>3. ASSUME NEW allowQuotes, NEW allowUnlocated, Build(allowQuotes, allowUnlocated) PROVE ShipsOK'
  <2> DEFINE quoted == {n \in ClosedOnes : Quoted(TextOf(n), Others)}
  <2>1. instance' = instance /\ (bundle'.made = "clean" => quoted = {})
    <3>1. instance' = instance BY <1>3 DEF Build
    <3>2. \/ bundle' = [NoBundle EXCEPT !.made = "refused"]
          \/ bundle'.made = IF quoted # {} THEN "quoting" ELSE "clean"
      BY <1>3 DEF Build, TextOf
    <3>3. [NoBundle EXCEPT !.made = "refused"].made = "refused" BY DEF NoBundle
    <3> HIDE DEF quoted
    <3> QED BY <3>1, <3>2, <3>3
  <2>2. ClosedOnes' = ClosedOnes /\ Others' = Others /\ \A n : TextOf(n)' = TextOf(n)
    BY <2>1 DEF ClosedOnes, Others, TextOf
  <2> QED BY <2>1, <2>2 DEF ShipsOK
<1>4. ASSUME Tamper PROVE ShipsOK'
  <2>1. bundle' = [bundle EXCEPT !.passages[1] = Append(@, "added")] /\ UNCHANGED instance
    BY <1>4 DEF Tamper
  <2>2. bundle'.made = bundle.made BY <2>1 DEF BundleOK
  <2> QED BY <2>1, <2>2 DEF ShipsOK, ClosedOnes, TextOf, Others
<1>5. CASE UNCHANGED releaseVars
  BY <1>1, <1>5 DEF releaseVars
<1>6. CASE ReleaseNext
  BY <1>6, <1>1, <1>2, <1>3, <1>4 DEF ReleaseNext, PageChanges, Rehydrate
<1> QED BY <1>5, <1>6, ReleaseApart

(* What a bundle ships is among what the withheld texts were compared with. *)
LEMMA ShippedIsCompared ==
  ASSUME BundleOK, ShipsOK, Built, ~tampered,
         NEW field \in Range(instance.fields) \cup (Range(bundle.passages) \ {Withheld})
  PROVE  /\ Others \in Seq(Texts) /\ \E k \in DOMAIN Others : field = Others[k]
         /\ \A n \in ClosedOnes : TextOf(n) \in Texts
<1> DEFINE fields == instance.fields
           passages == instance.passages
           open == [n \in DOMAIN passages |-> IF n \in ClosedOnes THEN <<>> ELSE passages[n].text]
<1>1. instance \in Openings BY DEF ShipsOK, BundleOK
<1>2. fields \in Seq(Texts) /\ passages \in Seq(Range(passages)) /\ \A p \in Range(passages) : p.text \in Texts
  BY <1>1, ReleaseAssumption
<1>3. /\ Len(passages) \in Nat /\ DOMAIN passages = 1..Len(passages)
      /\ \A n \in DOMAIN passages : passages[n].text \in Texts
  BY <1>2 DEF Range
<1>4. <<>> \in Texts BY DEF Texts
<1>5. open \in Seq(Texts) /\ DOMAIN open = DOMAIN passages /\ Len(open) = Len(passages)
  <2>1. open \in [1..Len(passages) -> Texts] BY <1>3, <1>4
  <2> QED BY <1>3, <2>1
<1>6. Others = fields \o open BY DEF Others
<1>7. bundle.passages = [n \in DOMAIN passages |-> IF n \in ClosedOnes THEN Withheld ELSE passages[n].text]
  BY DEF BundleOK, TextOf
<1>8. \A n \in ClosedOnes : TextOf(n) \in Texts BY <1>3 DEF ClosedOnes, TextOf
<1>9. field \in Range(fields) \/ \E n \in DOMAIN open : field = open[n]
  <2>1. CASE field \in Range(bundle.passages) \ {Withheld}
    <3>1. PICK n \in DOMAIN passages : field = bundle.passages[n] /\ n \notin ClosedOnes
      BY <1>7, <2>1 DEF Range
    <3>2. field = open[n] BY <1>7, <3>1
    <3> QED BY <1>5, <3>1, <3>2
  <2> QED BY <2>1
<1> HIDE DEF fields, open, passages
<1>10. Others \in Seq(Texts) /\ Len(Others) = Len(fields) + Len(open) /\ Len(fields) \in Nat /\ Len(open) \in Nat
       /\ \A i \in 1..(Len(fields) + Len(open)) : Others[i] = IF i <= Len(fields) THEN fields[i] ELSE open[i - Len(fields)]
  <2>1. fields \in Seq(Texts) /\ open \in Seq(Texts) BY <1>2, <1>5
  <2>2. /\ fields \o open \in Seq(Texts) /\ Len(fields \o open) = Len(fields) + Len(open)
        /\ \A i \in 1..(Len(fields) + Len(open)) :
             (fields \o open)[i] = IF i <= Len(fields) THEN fields[i] ELSE open[i - Len(fields)]
    BY <2>1, ConcatProperties
  <2>3. Len(fields) \in Nat /\ Len(open) \in Nat BY <2>1
  <2> QED BY <1>6, <2>2, <2>3
<1>11. DOMAIN Others = 1..(Len(fields) + Len(open)) /\ DOMAIN fields = 1..Len(fields) /\ DOMAIN open = 1..Len(open)
  BY <1>2, <1>5, <1>10
<1>12. CASE field \in Range(fields)
  <2>1. PICK i \in 1..Len(fields) : field = fields[i]
    BY <1>11, <1>12 DEF Range
  <2>2. i \in 1..(Len(fields) + Len(open)) /\ i <= Len(fields) BY <1>10
  <2>3. field = Others[i] /\ i \in DOMAIN Others BY <1>10, <1>11, <2>1, <2>2
  <2> QED BY <1>8, <1>10, <2>3
<1>13. CASE \E n \in DOMAIN open : field = open[n]
  <2>1. PICK n \in 1..Len(open) : field = open[n]
    BY <1>11, <1>13
  <2> DEFINE i == Len(fields) + n
  <2>2. i \in 1..(Len(fields) + Len(open)) /\ ~(i <= Len(fields)) /\ i - Len(fields) = n
    BY <1>10
  <2>3. field = Others[i] /\ i \in DOMAIN Others BY <1>10, <1>11, <2>1, <2>2
  <2> QED BY <1>8, <1>10, <2>3
<1> QED BY <1>9, <1>12, <1>13

(* What a clean bundle ships has no run of words of a text it withholds,    *)
(* but in a string that nobody searches (release/bundle.py).                *)
THEOREM Shipping == StudySpec => []NothingWithheldShips
<1>1. StudyInit => BundleOK /\ ShipsOK
  BY ReleaseInitOK DEF StudyInit, ReleaseInit, ShipsOK, NoBundle
<1>2. BundleOK /\ ShipsOK /\ [StudyNext]_studyVars => BundleOK' /\ ShipsOK'
  BY ReleaseStepOK, ShipsStepOK
<1>3. BundleOK /\ ShipsOK => NothingWithheldShips
  <2>1. SUFFICES ASSUME BundleOK, ShipsOK, bundle.made = "clean", ~tampered, NEW n \in DOMAIN bundle.records,
                        NEW field \in Strings \ instance.unsearched,
                        NEW first \in DOMAIN Collapse(TextOf(n)), NEW last \in DOMAIN Collapse(TextOf(n)),
                        IsRun(Collapse(TextOf(n)), first, last)
                 PROVE  Find(SubSeq(Collapse(TextOf(n)), first, last), Collapse(field)) = 0
    BY DEF NothingWithheldShips, TextOf
  <2>0. field \in Range(instance.fields) \cup (Range(bundle.passages) \ {Withheld})
    BY <2>1 DEF Strings
  <2>2. Built /\ n \in ClosedOnes /\ ~Quoted(TextOf(n), Others)
    BY <2>1 DEF Built, BundleOK, ShipsOK
  <2>3. Others \in Seq(Texts) /\ TextOf(n) \in Texts
    BY <2>0, <2>1, <2>2, ShippedIsCompared
  <2>4. PICK k \in DOMAIN Others : field = Others[k]
    BY <2>0, <2>1, <2>2, ShippedIsCompared
  <2>5. Blank \in DOMAIN Written /\ White(Blank) BY ReleaseAssumption DEF White, Blank
  <2> DEFINE text == TextOf(n)
  <2>6. text \in Seq(DOMAIN Written) /\ Others \in Seq(Seq(DOMAIN Written)) /\ ~Quoted(text, Others)
    BY <2>2, <2>3 DEF Texts
  <2>7. first \in DOMAIN Collapse(text) /\ last \in DOMAIN Collapse(text) /\ IsRun(Collapse(text), first, last)
    BY <2>1
  <2> HIDE DEF text
  <2>8. Find(SubSeq(Collapse(text), first, last), Collapse(Others[k])) = 0
    BY <2>5, <2>6, <2>7, UnquotedApart
  <2> QED BY <2>4, <2>8 DEF text
<1> QED BY <1>1, <1>2, <1>3, PTL DEF StudySpec

------------------------------------------------------------------------------
(* The contract. *)

(* A step of the study is one of the contract or leaves it alone. *)
LEMMA ContractApart ==
  ASSUME [StudyNext]_studyVars
  PROVE  ContractNext \/ UNCHANGED contractVars
  BY DEF StudyNext, studyVars, ScoringStep, scoreVars

(* What was accepted is a draft that passed the validators of the gold      *)
(* schema, and only what was accepted is projected.                         *)
ContractOK ==
  /\ written = << >> \/ \E d \in Drafts : written = <<d>>
  /\ accepted = << >> \/ \E g \in Drafts : accepted = <<g>> /\ GoldOk(g)
  /\ ~record.valid => accepted # << >>

(* The wire schema accepts what the gold schema accepted, but for the three *)
(* things the gold schema does not look at.                                 *)
LEMMA GoldProjects ==
  ASSUME NEW g, g.passages \in Seq(Range(g.passages)), LabelsOk(g), OppositionOk(g), Distinct(g.passages), ProvenanceOk(g),
         g.relation # NotGiven => g.type \in {"conditional", "factual"},
         NEW withGold \in BOOLEAN
  PROVE  /\ \A p \in Range(Labelling(g, withGold)) : ConflictPairOk(p)
         /\ RecordOk(g, Labelling(g, withGold))
<1>1. CASE Labelling(g, withGold) = << >>
  <2>1. Range(Labelling(g, withGold)) = {} BY <1>1 DEF Range
  <2> QED BY <1>1, <2>1 DEF RecordOk
<1>2. CASE withGold /\ Len(g.passages) >= 2
  <2> DEFINE pair == ConflictPair(g.passages[1].id, g.passages[2].id, g)
  <2>1. Labelling(g, withGold) = <<pair>> BY <1>2 DEF Labelling
  <2>2. g.passages \in Seq(Range(g.passages)) /\ 1 \in DOMAIN g.passages /\ 2 \in DOMAIN g.passages
    BY <1>2
  <2>3. g.passages[1].id # g.passages[2].id BY <2>2 DEF Distinct
  <2>4. /\ pair.type = g.type /\ pair.relation = g.relation /\ pair.opposition = g.opposition
        /\ pair.conflict = (g.type # "no_conflict")
        /\ \/ pair.key = <<g.passages[1].id, g.passages[2].id>>
           \/ pair.key = <<g.passages[2].id, g.passages[1].id>>
    BY DEF ConflictPair
  <2> HIDE DEF pair
  <2>5. ConflictPairOk(pair)
    <3>1. LabelsOk(g) /\ OppositionOk(g) OBVIOUS
    <3>2. pair.key[1] # pair.key[2] BY <2>3, <2>4
    <3>3. pair.conflict <=> pair.type # "no_conflict"
      BY <2>4
    <3>4. /\ pair.type = "conditional" => pair.relation # NotGiven
          /\ pair.relation # NotGiven => pair.type \in {"conditional", "factual"}
          /\ pair.opposition # NotGiven => pair.relation = "opposed"
      BY <2>4, <3>1 DEF LabelsOk, OppositionOk
    <3> QED BY <3>2, <3>3, <3>4 DEF ConflictPairOk
  <2>6. Range(<<pair>>) = {pair} BY DEF Range
  <2>7. Range(pair.key) \subseteq Ids(g.passages) BY <2>2, <2>4 DEF Range, Ids
  <2>8. \A i, j \in DOMAIN <<pair>> : i = j OBVIOUS
  <2> QED BY <2>1, <2>5, <2>6, <2>7, <2>8 DEF RecordOk
<1> QED BY <1>1, <1>2 DEF Labelling

(* A draft is accepted whole and projected from what was accepted. *)
LEMMA ContractStepOK ==
  ASSUME ContractOK, ProjectsOtherwise, [StudyNext]_studyVars
  PROVE  ContractOK' /\ ProjectsOtherwise'
<1>1. CASE UNCHANGED contractVars
  BY <1>1 DEF contractVars, ContractOK, ProjectsOtherwise
<1>2. ASSUME NEW d \in Drafts, Annotate(d) PROVE ContractOK' /\ ProjectsOtherwise'
  BY <1>2 DEF Annotate, ContractOK, ProjectsOtherwise
<1>3. ASSUME Accept PROVE ContractOK' /\ ProjectsOtherwise'
  BY <1>3 DEF Accept, ContractOK, ProjectsOtherwise
<1>4. ASSUME NEW withGold \in BOOLEAN, ToQueryRecord(withGold) PROVE ContractOK' /\ ProjectsOtherwise'
  <2> DEFINE g == accepted[1]
             pairs == Labelling(g, withGold)
             fits == (\A p \in Range(pairs) : ConflictPairOk(p)) /\ RecordOk(g, pairs)
  <2>1. /\ accepted # << >> /\ UNCHANGED <<written, accepted>>
        /\ record' = IF fits THEN [passages |-> g.passages, pairs |-> pairs, valid |-> TRUE] ELSE BadRecord
    BY <1>4 DEF ToQueryRecord
  <2>2. g \in Drafts /\ GoldOk(g) BY <2>1 DEF ContractOK
  <2>3. Distinct(g.passages) /\ ProvenanceOk(g) /\ (g.relation # NotGiven => g.type \in {"conditional", "factual"}) => fits
    <3>1. LabelsOk(g) /\ OppositionOk(g) /\ g.passages \in Seq(Range(g.passages))
      BY <2>2, DraftsAssumption DEF GoldOk
    <3> QED BY <3>1, GoldProjects
  <2> HIDE DEF fits
  <2>4. ContractOK' BY <2>1 DEF ContractOK
  <2>5. ~record'.valid => ~fits
    BY <2>1
  <2>6. ProjectsOtherwise' BY <2>1, <2>3, <2>5 DEF ProjectsOtherwise
  <2> QED BY <2>4, <2>6
<1> QED BY <1>1, <1>2, <1>3, <1>4, ContractApart DEF ContractNext

(* A validated gold instance is handed on in the wire format, but for       *)
(* passage ids given twice, a natural instance of one document and a scope  *)
(* relation on a type without one (GoldInstance.to_query_record).           *)
THEOREM Projection == StudySpec => []ProjectsOtherwise
<1>1. StudyInit => ContractOK /\ ProjectsOtherwise
  BY DEF StudyInit, ScoringInit, ContractInit, ContractOK, ProjectsOtherwise, NoRecord
<1>2. (ContractOK /\ ProjectsOtherwise) /\ [StudyNext]_studyVars => (ContractOK /\ ProjectsOtherwise)'
  BY ContractStepOK
<1> QED BY <1>1, <1>2, PTL DEF StudySpec

------------------------------------------------------------------------------
(* The comparison of the detectors. *)

(* A step of the study is one of the tuning or leaves it alone. *)
LEMMA TuningApart ==
  ASSUME [StudyNext]_studyVars
  PROVE  TuneNext \/ UNCHANGED tuneVars
  BY DEF StudyNext, studyVars, ScoringStep, scoreVars

(* What is counted over the test pairs is a number. *)
LEMMA PairsAreCounted ==
  ASSUME NEW S \in SUBSET DOMAIN Test
  PROVE  Cardinality(S) \in Nat /\ Cardinality(S) <= Len(Test)
<1>1. Len(Test) \in Nat /\ DOMAIN Test = 1..Len(Test) BY TestAssumption DEF TestAssumption
<1>2. \A b \in Nat : IsFiniteSet(1..b) /\ Cardinality(1..b) = IF 1 > b THEN 0 ELSE b - 1 + 1
  BY FS_Interval
<1>3. IsFiniteSet(DOMAIN Test) /\ Cardinality(DOMAIN Test) = Len(Test) BY <1>1, <1>2
<1> QED BY <1>3, Fewer

(* So the counts of a detector are numbers. *)
LEMMA CountsAre ==
  ASSUME NEW d
  PROVE  /\ \A told, label : As(d, told, label) \in Nat
         /\ \A told : Gold(told) \in Nat
         /\ Right(d) \in Nat /\ Right(d) <= Len(Test) /\ Leak(d) \in Nat
<1>1. \A told, label : As(d, told, label) \in Nat BY PairsAreCounted DEF As
<1>2. \A told : Gold(told) \in Nat BY PairsAreCounted DEF Gold
<1>3. Right(d) \in Nat /\ Right(d) <= Len(Test) BY PairsAreCounted DEF Right
<1>4. \A a, b, c, e \in Nat : a * b + c * e \in Nat OBVIOUS
<1>5. Leak(d) \in Nat BY <1>1, <1>2, <1>4 DEF Leak
<1> QED BY <1>1, <1>2, <1>3, <1>5

(* The detector that is reported leaks least among those that may be. *)
LEMMA ReportedLeaksLeast ==
  ASSUME DOMAIN predictions \subseteq Nat, NEW d \in Usable, ~Degenerate(d)
  PROVE  Leak(Reported) <= Leak(d)
<1> DEFINE healthy == {e \in Usable : ~Degenerate(e)}
           least == {e \in healthy : \A f \in healthy : Leak(e) <= Leak(f)}
           best == {e \in least : \A f \in least : Right(e) >= Right(f)}
<1>1. d \in healthy /\ healthy \in SUBSET Nat BY DEF Usable
<1>2. Reported = FirstOf(best) BY <1>1 DEF Reported
<1>3. Len(Test) \in Nat BY TestAssumption DEF TestAssumption
<1> HIDE DEF healthy
<1>4. least # {}
  <2> DEFINE L == {Leak(e) : e \in healthy}
  <2>1. L \in SUBSET Nat /\ L # {} BY <1>1, CountsAre
  <2>2. PICK m \in L : \A k \in L : m <= k
    <3> HIDE DEF L
    <3> QED BY <2>1, LeastBelow
  <2> QED BY <2>2
<1>5. least \in SUBSET Nat BY <1>1
<1>6. \A e \in least : e \in healthy /\ \A f \in healthy : Leak(e) <= Leak(f) OBVIOUS
<1> HIDE DEF least
<1>7. best # {}
  <2> DEFINE L == {Len(Test) - Right(e) : e \in least}
  <2>1. L \in SUBSET Nat /\ L # {} BY <1>3, <1>4, CountsAre
  <2>2. PICK m \in L : \A k \in L : m <= k
    <3> HIDE DEF L
    <3> QED BY <2>1, LeastBelow
  <2>3. PICK e \in least : m = Len(Test) - Right(e)
    BY <2>2
  <2>4. ASSUME NEW f \in least PROVE Right(e) >= Right(f)
    <3>1. Len(Test) - Right(e) <= Len(Test) - Right(f) BY <2>2, <2>3
    <3>2. Right(e) \in Nat /\ Right(f) \in Nat BY CountsAre
    <3> QED BY <1>3, <3>1, <3>2
  <2> QED BY <2>3, <2>4
<1>8. best \in SUBSET Nat /\ \A e \in best : e \in least BY <1>5
<1> HIDE DEF best
<1>9. FirstOf(best) \in best
  <2>1. \E m \in best : \A k \in best : m <= k BY <1>7, <1>8, LeastBelow
  <2> QED BY <2>1 DEF FirstOf
<1> QED BY <1>1, <1>2, <1>6, <1>8, <1>9

(* Giving everything one label costs the whole of one of the two rates. *)
LEMMA OneLabelLeaks ==
  ASSUME NEW d, OneLabel(d), Gold("factual") # 0
  PROVE  Leak(d) = Gold("conditional") * Gold("factual")
<1> DEFINE c == Gold("conditional")  f == Gold("factual")
<1>1. c \in Nat /\ f \in Nat BY CountsAre
<1>2. Leak(d) = As(d, "conditional", "factual") * f + As(d, "factual", "conditional") * c
  BY DEF Leak
<1>3. PICK label \in {"conditional", "factual"} :
        \A k \in DOMAIN Test : Test[k] \in {"conditional", "factual"} => predictions[d][k] = label
  BY DEF OneLabel
<1>4. CASE label = "conditional"
  <2>1. {k \in DOMAIN Test : Test[k] = "conditional" /\ predictions[d][k] = "factual"} = {}
    BY <1>3, <1>4
  <2>2. {k \in DOMAIN Test : Test[k] = "factual" /\ predictions[d][k] = "conditional"} = {k \in DOMAIN Test : Test[k] = "factual"}
    BY <1>3, <1>4
  <2>3. As(d, "conditional", "factual") = 0 /\ As(d, "factual", "conditional") = f
    BY <2>1, <2>2, FS_EmptySet DEF As, Gold
  <2> HIDE DEF c, f
  <2> QED BY <1>1, <1>2, <2>3 DEF c, f
<1>5. CASE label = "factual"
  <2>1. {k \in DOMAIN Test : Test[k] = "factual" /\ predictions[d][k] = "conditional"} = {}
    BY <1>3, <1>5
  <2>2. {k \in DOMAIN Test : Test[k] = "conditional" /\ predictions[d][k] = "factual"} = {k \in DOMAIN Test : Test[k] = "conditional"}
    BY <1>3, <1>5
  <2>3. As(d, "factual", "conditional") = 0 /\ As(d, "conditional", "factual") = c
    BY <2>1, <2>2, FS_EmptySet DEF As, Gold
  <2> HIDE DEF c, f
  <2> QED BY <1>1, <1>2, <2>3 DEF c, f
<1> QED BY <1>3, <1>4, <1>5

(* Detectors are run in turn. *)
TuneOK == \E n \in Nat : DOMAIN predictions = 1..n

(* Every evaluation adds one. *)
LEMMA TuneStepOK ==
  ASSUME TuneOK, [StudyNext]_studyVars
  PROVE  TuneOK'
<1>1. ASSUME predictions' = predictions PROVE TuneOK'
  BY <1>1 DEF TuneOK
<1>2. ASSUME NEW labels, predictions' = Append(predictions, labels) PROVE TuneOK'
  <2>1. PICK n \in Nat : DOMAIN predictions = 1..n
    BY DEF TuneOK
  <2>2. Len(predictions) = n BY <2>1
  <2>3. DOMAIN predictions' = 1..(n + 1) BY <1>2, <2>1, <2>2
  <2> QED BY <2>3 DEF TuneOK
<1>3. ASSUME TuneNext PROVE TuneOK'
  BY <1>1, <1>2, <1>3 DEF TuneNext, ReadDev, Sweep, Recommend, WriteBand, Evaluate, Explain, DrawSample, Calibrate
<1>4. UNCHANGED tuneVars => predictions' = predictions
  BY DEF tuneVars
<1> QED BY <1>1, <1>3, <1>4, TuningApart

(* A detector that tells nothing apart is reported only when none that      *)
(* does is better (detection/variants/compare.py).                          *)
THEOREM ComparisonTellsApart == StudySpec => []ChosenTellsApart
<1>1. StudyInit => TuneOK
  BY DEF StudyInit, ScoringInit, TuneInit, TuneOK
<1>2. TuneOK /\ [StudyNext]_studyVars => TuneOK'
  BY TuneStepOK
<1>3. TuneOK => ChosenTellsApart
  <2> SUFFICES ASSUME TuneOK, OneLabel(Reported), NEW d \in Usable, ~Degenerate(d)
               PROVE  As(d, "conditional", "factual") * Gold("factual") + As(d, "factual", "conditional") * Gold("conditional")
                        >= Gold("conditional") * Gold("factual")
    BY DEF ChosenTellsApart
  <2> DEFINE c == Gold("conditional")  f == Gold("factual")
             x == As(d, "conditional", "factual")  y == As(d, "factual", "conditional")
  <2>1. c \in Nat /\ f \in Nat /\ x \in Nat /\ y \in Nat BY CountsAre
  <2>2. CASE f = 0
    <3> HIDE DEF c, f, x, y
    <3>1. x * f + y * c >= c * f BY <2>1, <2>2
    <3> QED BY <3>1 DEF c, f, x, y
  <2>3. CASE f # 0
    <3>1. Leak(Reported) <= Leak(d) BY ReportedLeaksLeast DEF TuneOK
    <3>2. Leak(Reported) = c * f BY <2>3, OneLabelLeaks
    <3>3. Leak(d) = x * f + y * c BY <2>3 DEF Leak
    <3> QED BY <2>1, <3>1, <3>2, <3>3
  <2> QED BY <2>2, <2>3
<1> QED BY <1>1, <1>2, <1>3, PTL DEF StudySpec

------------------------------------------------------------------------------
(* The baselines. *)

(* The branches parsed from a list are those of its claims. *)
LEMMA ParsedAre ==
  ASSUME NEW n \in Nat, NEW list, DOMAIN list = 1..n
  PROVE  /\ Range(ParseBranches(list)) = {Parsed(list, i) : i \in {j \in DOMAIN list : list[j].outcome # ""}}
         /\ ParseBranches(list) \in Seq({Parsed(list, i) : i \in DOMAIN list})
<1> DEFINE A == {Parsed(list, i) : i \in DOMAIN list}
           seqs == [i \in DOMAIN list |-> Claims(list, i)]
<1>1. \A i \in DOMAIN list : Claims(list, i) = IF list[i].outcome = "" THEN << >> ELSE <<Parsed(list, i)>>
  BY DEF Claims
<1>2. \A i \in DOMAIN list : Claims(list, i) \in Seq(A)
  <2>1. \A i \in DOMAIN list : Parsed(list, i) \in A OBVIOUS
  <2> HIDE DEF A
  <2>2. <<>> \in Seq(A) /\ \A x \in A : <<x>> \in Seq(A) OBVIOUS
  <2> QED BY <1>1, <2>1, <2>2
<1>3. seqs \in Seq(Seq(A)) /\ DOMAIN seqs = DOMAIN list BY <1>2
<1>4. ParseBranches(list) = FlattenSeq(seqs) BY DEF ParseBranches
<1>5. Range(FlattenSeq(seqs)) = UNION {Range(seqs[i]) : i \in DOMAIN seqs} /\ FlattenSeq(seqs) \in Seq(A)
  <2> HIDE DEF A, seqs
  <2> QED BY <1>3, FlattenHas, FlattenIs
<1>6. \A i \in DOMAIN list : Range(seqs[i]) = IF list[i].outcome = "" THEN {} ELSE {Parsed(list, i)}
  <2>1. Range(<<>>) = {} /\ \A x : Range(<<x>>) = {x} BY DEF Range
  <2>2. \A i \in DOMAIN list : seqs[i] = Claims(list, i) OBVIOUS
  <2> HIDE DEF seqs
  <2> QED BY <1>1, <2>1, <2>2
<1>7. UNION {Range(seqs[i]) : i \in DOMAIN seqs} = {Parsed(list, i) : i \in {j \in DOMAIN list : list[j].outcome # ""}}
  <2> HIDE DEF seqs
  <2>1. ASSUME NEW x, NEW i \in DOMAIN seqs, x \in Range(seqs[i])
        PROVE  i \in {j \in DOMAIN list : list[j].outcome # ""} /\ x = Parsed(list, i)
    <3>1. i \in DOMAIN list BY <1>3
    <3>2. x \in IF list[i].outcome = "" THEN {} ELSE {Parsed(list, i)}
      BY <1>6, <2>1, <3>1
    <3> QED BY <3>1, <3>2
  <2>2. ASSUME NEW i \in DOMAIN list, list[i].outcome # ""
        PROVE  i \in DOMAIN seqs /\ Parsed(list, i) \in Range(seqs[i])
    <3>1. Range(seqs[i]) = {Parsed(list, i)} BY <1>6, <2>2
    <3> QED BY <1>3, <3>1
  <2> DEFINE told == {j \in DOMAIN list : list[j].outcome # ""}
  <2>3. \A x, i : i \in DOMAIN seqs /\ x \in Range(seqs[i]) => i \in told /\ x = Parsed(list, i)
    BY <2>1
  <2>4. \A i \in told : i \in DOMAIN seqs /\ Parsed(list, i) \in Range(seqs[i]) BY <2>2
  <2> HIDE DEF told
  <2>5. UNION {Range(seqs[i]) : i \in DOMAIN seqs} = {Parsed(list, i) : i \in told}
    BY <2>3, <2>4
  <2> QED BY <2>5 DEF told
<1> QED BY <1>4, <1>5, <1>7

(* Of the verbalised, the first default comes first, and the rest are not   *)
(* defaults.                                                                *)
LEMMA VerbalisedAre ==
  ASSUME NEW A, NEW branches \in Seq(A)
  PROVE  LET spoke == VerbaliseBranches(branches)
             defaults == {k \in DOMAIN branches : branches[k].default}
         IN /\ \A c \in DOMAIN spoke : spoke[c] \in Range(branches)
            /\ \A k \in DOMAIN branches : ~branches[k].default => branches[k] \in Range(spoke)
            /\ defaults # {} => Min(defaults) \in defaults /\ branches[Min(defaults)] \in Range(spoke)
            /\ \A c \in DOMAIN spoke : spoke[c].default => c = 1
<1> DEFINE defaults == {k \in DOMAIN branches : branches[k].default}
           seqs == [k \in DOMAIN branches |-> Conditioned(branches, k)]
           first == IF defaults = {} THEN << >> ELSE <<branches[Min(defaults)]>>
           others == FlattenSeq(seqs)
           spoke == first \o others
<1>1. Len(branches) \in Nat /\ DOMAIN branches = 1..Len(branches) /\ \A k \in DOMAIN branches : branches[k] \in A
  OBVIOUS
<1>2. \A k \in DOMAIN branches : Conditioned(branches, k) = IF branches[k].default THEN << >> ELSE <<branches[k]>>
  BY DEF Conditioned
<1>3. seqs \in Seq(Seq(A)) /\ DOMAIN seqs = DOMAIN branches
  <2>1. \A k \in DOMAIN branches : Conditioned(branches, k) \in Seq(A)
    <3>1. <<>> \in Seq(A) /\ \A x \in A : <<x>> \in Seq(A) OBVIOUS
    <3> QED BY <1>1, <1>2, <3>1
  <2> QED BY <1>1, <2>1
<1>4. defaults # {} => Min(defaults) \in defaults
  <2>1. defaults \in SUBSET Nat BY <1>1
  <2> HIDE DEF defaults
  <2> QED BY <2>1, LeastExists
<1>5. others \in Seq(A) /\ Range(others) = {branches[k] : k \in {j \in DOMAIN branches : ~branches[j].default}}
  <2>1. FlattenSeq(seqs) \in Seq(A) /\ Range(FlattenSeq(seqs)) = UNION {Range(seqs[k]) : k \in DOMAIN seqs}
    <3> HIDE DEF seqs
    <3> QED BY <1>3, FlattenHas, FlattenIs
  <2>2. \A k \in DOMAIN branches : Range(seqs[k]) = IF branches[k].default THEN {} ELSE {branches[k]}
    BY <1>2 DEF Range
  <2>3. UNION {Range(seqs[k]) : k \in DOMAIN seqs} = {branches[k] : k \in {j \in DOMAIN branches : ~branches[j].default}}
    <3> HIDE DEF seqs
    <3>1. ASSUME NEW x, NEW k \in DOMAIN seqs, x \in Range(seqs[k])
          PROVE  k \in {j \in DOMAIN branches : ~branches[j].default} /\ x = branches[k]
      <4>1. k \in DOMAIN branches BY <1>3
      <4>2. x \in IF branches[k].default THEN {} ELSE {branches[k]}
        BY <2>2, <3>1, <4>1
      <4> QED BY <4>1, <4>2
    <3>2. ASSUME NEW k \in DOMAIN branches, ~branches[k].default
          PROVE  k \in DOMAIN seqs /\ branches[k] \in Range(seqs[k])
      <4>1. Range(seqs[k]) = {branches[k]} BY <2>2, <3>2
      <4> QED BY <1>3, <4>1
    <3> QED BY <3>1, <3>2
  <2> QED BY <2>1, <2>3
<1>6. first \in Seq(A) /\ Range(first) = IF defaults = {} THEN {} ELSE {branches[Min(defaults)]}
  <2>1. CASE defaults = {}
    BY <2>1 DEF Range
  <2>2. CASE defaults # {}
    <3>1. first = <<branches[Min(defaults)]>> /\ branches[Min(defaults)] \in A
      BY <1>1, <1>4, <2>2
    <3> HIDE DEF first, defaults
    <3> QED BY <2>2, <3>1 DEF Range
  <2> QED BY <2>1, <2>2
<1>7. VerbaliseBranches(branches) = spoke BY DEF VerbaliseBranches
<1> HIDE DEF seqs, others
<1>8. Range(spoke) = Range(first) \cup Range(others)
  <2> HIDE DEF first
  <2> QED BY <1>5, <1>6, TogetherHave
<1>9. \A c \in DOMAIN spoke : spoke[c] \in Range(branches)
  <2>1. \A c \in DOMAIN spoke : spoke[c] \in Range(spoke) BY DEF Range
  <2>2. \A k \in DOMAIN branches : branches[k] \in Range(branches) BY DEF Range
  <2>3. Range(first) \subseteq Range(branches) BY <1>4, <1>6, <2>2
  <2> HIDE DEF spoke, first, defaults
  <2> QED BY <1>5, <1>8, <2>1, <2>2, <2>3
<1>10. \A k \in DOMAIN branches : ~branches[k].default => branches[k] \in Range(spoke)
  <2> HIDE DEF spoke, first, defaults
  <2> QED BY <1>5, <1>8
<1>11. defaults # {} => Min(defaults) \in defaults /\ branches[Min(defaults)] \in Range(spoke)
  <2> HIDE DEF spoke, first, defaults
  <2> QED BY <1>4, <1>6, <1>8
<1>12. ASSUME NEW c \in DOMAIN spoke, spoke[c].default PROVE c = 1
  <2> DEFINE m == Len(first)
             n == Len(others)
  <2>1. m \in {0, 1} BY DEF first
  <2>2. n \in Nat /\ DOMAIN others = 1..n BY <1>5
  <2>3. DOMAIN spoke = 1..(m + n) /\ \A i \in 1..(m + n) : spoke[i] = IF i <= m THEN first[i] ELSE others[i - m]
    <3> HIDE DEF first
    <3>1. spoke \in Seq(A) /\ Len(spoke) = m + n /\ \A i \in 1..(m + n) : spoke[i] = IF i <= m THEN first[i] ELSE others[i - m]
      BY <1>5, <1>6, ConcatProperties
    <3> HIDE DEF spoke, m, n
    <3> QED BY <3>1
  <2> HIDE DEF spoke, first, m, n
  <2>4. CASE c <= m
    <3>1. c \in 1..(m + n) BY <2>3
    <3> QED BY <2>1, <2>2, <2>4, <3>1
  <2>5. CASE ~(c <= m)
    <3>1. c - m \in 1..n /\ spoke[c] = others[c - m]
      <4>1. c \in 1..(m + n) BY <2>3
      <4>2. c - m \in 1..n BY <2>1, <2>2, <2>5, <4>1
      <4> QED BY <2>3, <2>5, <4>1, <4>2
    <3>2. others[c - m] \in Range(others) BY <2>2, <3>1 DEF Range
    <3>3. ~spoke[c].default BY <1>5, <3>1, <3>2
    <3> QED BY <1>12, <3>3
  <2> QED BY <2>4, <2>5
<1> QED BY <1>7, <1>9, <1>10, <1>11, <1>12

(* Of two places of which neither is before the other, both are the same. *)
LEMMA NeitherBefore ==
  ASSUME NEW n \in Nat, NEW i \in 1..n, NEW j \in 1..n, i \notin 1..(j - 1), j \notin 1..(i - 1)
  PROVE  i = j
  OBVIOUS

(* What was parsed of a list: of its defaults the first is one, and what is *)
(* none has a condition.                                                    *)
ParsedWell(list, i) ==
  /\ Parsed(list, i).outcome = list[i].outcome
  /\ Parsed(list, i).default => list[i].default
  /\ Parsed(list, i).default <=> Parsed(list, i).condition = ""
  /\ \A j \in DOMAIN list : list[j].outcome # "" /\ Parsed(list, i).default /\ Parsed(list, j).default => i = j

(* Every claim of a list is parsed so. *)
LEMMA ParsedIs ==
  ASSUME NEW n \in Nat, NEW list, DOMAIN list = 1..n, NEW i \in 1..n, list[i].outcome # ""
  PROVE  ParsedWell(list, i)
<1>1. \A j \in 1..n : Parsed(list, j).default <=> (list[j].default /\ ~DefaultBefore(list, j))
  BY DEF Parsed
<1>2. Parsed(list, i).outcome = list[i].outcome BY DEF Parsed
<1>3. Parsed(list, i).default <=> Parsed(list, i).condition = ""
  BY DEF Parsed
<1>4. ASSUME NEW j \in 1..n, list[j].outcome # "", Parsed(list, i).default, Parsed(list, j).default PROVE i = j
  <2>1. list[i].default /\ list[j].default /\ ~DefaultBefore(list, i) /\ ~DefaultBefore(list, j)
    BY <1>1, <1>4
  <2>2. i \notin 1..(j - 1) /\ j \notin 1..(i - 1) BY <1>4, <2>1 DEF DefaultBefore
  <2> QED BY <2>2, NeitherBefore
<1> QED BY <1>1, <1>2, <1>3, <1>4 DEF ParsedWell

(* The branches a system works with are those of the items listed last, and *)
(* it says nothing before it has called its model.                          *)
ListedClaims == {j \in DOMAIN listed : listed[j].outcome # ""}
BaseOK ==
  /\ \E n \in Nat : DOMAIN listed = 1..n
  /\ draft \in Seq(Range(draft))
  /\ Range(draft) = {Parsed(listed, i) : i \in ListedClaims}
  /\ calls = 0 => spoken = <<>>
  /\ EveryClaimSpoken

(* A step of the study is one of the baselines or leaves them alone. *)
LEMMA BaseApart ==
  ASSUME [StudyNext]_studyVars
  PROVE  BaseNext \/ UNCHANGED baseVars
  BY DEF StudyNext, studyVars, ScoringStep, scoreVars

(* A list a model returns is one of items. *)
LEMMA ListsAre == \A list \in Lists : \E n \in Nat : DOMAIN list = 1..n
<1>1. DOMAIN << >> = 1..0 /\ \A a : DOMAIN <<a>> = 1..1 OBVIOUS
<1>2. \A a, b : DOMAIN <<a, b>> = 1..2 OBVIOUS
<1> QED BY <1>1, <1>2 DEF Lists

(* What is parsed of a list is drafted as BaseOK says. *)
LEMMA DraftIs ==
  ASSUME NEW list \in Lists, listed' = list, draft' = ParseBranches(list)
  PROVE  /\ \E n \in Nat : DOMAIN listed' = 1..n
         /\ draft' \in Seq(Range(draft'))
         /\ Range(draft') = {Parsed(listed', i) : i \in ListedClaims'}
<1>1. PICK n \in Nat : DOMAIN list = 1..n
  BY ListsAre
<1>2. /\ Range(ParseBranches(list)) = {Parsed(list, i) : i \in {j \in DOMAIN list : list[j].outcome # ""}}
      /\ ParseBranches(list) \in Seq({Parsed(list, i) : i \in DOMAIN list})
  BY <1>1, ParsedAre
<1>3. \A A : \A s \in Seq(A) : s \in Seq(Range(s)) BY DEF Range
<1> QED BY <1>1, <1>2, <1>3 DEF ListedClaims

(* What is verbalised states every claim. *)
LEMMA VerbaliseOK ==
  ASSUME BaseOK, Verbalise
  PROVE  EveryClaimSpoken'
<1> DEFINE spoke == VerbaliseBranches(draft)
           defaults == {k \in DOMAIN draft : draft[k].default}
<1>1. PICK n \in Nat : DOMAIN listed = 1..n
  BY DEF BaseOK
<1>2. spoken' = spoke /\ listed' = listed BY DEF Verbalise
<1>3. /\ \A c \in DOMAIN spoke : spoke[c] \in Range(draft)
      /\ \A k \in DOMAIN draft : ~draft[k].default => draft[k] \in Range(spoke)
      /\ defaults # {} => Min(defaults) \in defaults /\ draft[Min(defaults)] \in Range(spoke)
      /\ \A c \in DOMAIN spoke : spoke[c].default => c = 1
  <2>1. draft \in Seq(Range(draft)) BY DEF BaseOK
  <2> QED BY <2>1, VerbalisedAre
<1> HIDE DEF spoke
<1>4. \A b \in Range(draft) : \E k \in DOMAIN draft : b = draft[k] BY DEF Range
<1>5. \A b \in Range(spoke) : \E c \in DOMAIN spoke : b = spoke[c] BY DEF Range
<1>6. \A b \in Range(draft) : \E i \in 1..n : listed[i].outcome # "" /\ b = Parsed(listed, i)
  BY <1>1 DEF BaseOK, ListedClaims
<1>7. \A i \in 1..n : listed[i].outcome # "" => Parsed(listed, i) \in Range(draft)
  BY <1>1 DEF BaseOK, ListedClaims
<1>11. \A i \in 1..n : listed[i].outcome # "" => ParsedWell(listed, i)
  BY <1>1, ParsedIs
<1>8. ASSUME NEW i \in DOMAIN listed, listed[i].outcome # ""
      PROVE  \E c \in DOMAIN spoke : spoke[c].outcome = listed[i].outcome /\ (spoke[c].default => listed[i].default)
  <2>1. i \in 1..n BY <1>1
  <2>2. PICK k \in DOMAIN draft : draft[k] = Parsed(listed, i)
    BY <1>4, <1>7, <1>8, <2>1
  <2>3. draft[k].outcome = listed[i].outcome /\ (draft[k].default => listed[i].default)
    <3>1. ParsedWell(listed, i) BY <1>8, <1>11, <2>1
    <3> QED BY <2>2, <3>1 DEF ParsedWell
  <2>4. CASE ~draft[k].default
    <3>1. PICK c \in DOMAIN spoke : spoke[c] = draft[k]
      BY <1>3, <1>5, <2>4
    <3> QED BY <2>3, <3>1
  <2>5. CASE draft[k].default
    <3> DEFINE m == Min(defaults)
    <3>1. m \in defaults /\ draft[m] \in Range(spoke) BY <1>3, <2>5
    <3>2. m \in DOMAIN draft /\ draft[m].default BY <3>1
    <3> HIDE DEF m, defaults
    <3>3. draft[m] \in Range(draft) BY <3>2 DEF Range
    <3>4. PICK j \in 1..n : listed[j].outcome # "" /\ draft[m] = Parsed(listed, j)
      BY <1>6, <3>3
    <3>5. i = j
      <4>1. ParsedWell(listed, i) /\ j \in DOMAIN listed BY <1>1, <1>8, <1>11, <2>1
      <4>2. Parsed(listed, i).default /\ Parsed(listed, j).default
        BY <2>2, <2>5, <3>2, <3>4
      <4> QED BY <3>4, <4>1, <4>2 DEF ParsedWell
    <3>6. PICK c \in DOMAIN spoke : spoke[c] = draft[k]
      BY <1>5, <2>2, <3>1, <3>4, <3>5
    <3> QED BY <2>3, <3>6
  <2> QED BY <2>4, <2>5
<1>9. ASSUME NEW c \in DOMAIN spoke PROVE spoke[c].default <=> spoke[c].condition = ""
  <2>1. PICK i \in 1..n : listed[i].outcome # "" /\ spoke[c] = Parsed(listed, i)
    BY <1>3, <1>6, <1>9
  <2> QED BY <1>11, <2>1 DEF ParsedWell
<1>10. \A c, d \in DOMAIN spoke : spoke[c].default /\ spoke[d].default => c = d
  BY <1>3
<1> QED BY <1>2, <1>8, <1>9, <1>10 DEF EveryClaimSpoken

(* What is not written to stays as BaseOK says. *)
LEMMA BaseStays ==
  ASSUME BaseOK, UNCHANGED <<draft, listed, spoken>>, calls' = 0 => spoken' = <<>>
  PROVE  BaseOK'
<1>1. EveryClaimSpoken' BY DEF BaseOK, EveryClaimSpoken
<1>2. ListedClaims' = ListedClaims BY DEF ListedClaims
<1>3. \E n \in Nat : DOMAIN listed' = 1..n BY DEF BaseOK
<1>4. draft' \in Seq(Range(draft')) BY DEF BaseOK
<1>5. Range(draft') = {Parsed(listed', i) : i \in ListedClaims'}
  <2>1. Range(draft) = {Parsed(listed, i) : i \in ListedClaims} BY DEF BaseOK
  <2>2. draft' = draft /\ listed' = listed OBVIOUS
  <2> QED BY <1>2, <2>1, <2>2
<1> HIDE DEF ListedClaims
<1> QED BY <1>1, <1>3, <1>4, <1>5 DEF BaseOK

(* A step keeps what BaseOK says. *)
LEMMA BaseStepOK ==
  ASSUME BaseOK, [StudyNext]_studyVars
  PROVE  BaseOK'
<1>1. ASSUME UNCHANGED <<draft, listed, spoken>>, calls = 0 \/ calls' # 0 PROVE BaseOK'
  <2>1. calls' = 0 => spoken' = <<>>
    BY <1>1 DEF BaseOK
  <2> QED BY <1>1, <2>1, BaseStays
<1>2. ASSUME NEW s \in Systems, Ask(s) PROVE BaseOK'
  <2>1. UNCHANGED <<draft, listed, spoken>> /\ calls' = calls BY <1>2 DEF Ask
  <2>2. calls' = 0 => spoken' = <<>>
    BY <2>1 DEF BaseOK
  <2> QED BY <2>1, <2>2, BaseStays
<1>3. ASSUME NEW type, NEW closeness, Select(type, closeness) PROVE BaseOK'
  BY <1>1, <1>3 DEF Select
<1>4. CASE Generate
  BY <1>1, <1>4 DEF Generate
<1>5. ASSUME NEW list \in Lists, Parse(list) PROVE BaseOK'
  <2>1. listed' = list /\ draft' = ParseBranches(list) /\ spoken' = spoken /\ spoken = <<>>
    BY <1>5 DEF Parse, BaseOK
  <2> QED BY <2>1, DraftIs DEF BaseOK, EveryClaimSpoken
<1>6. CASE FailInstance
  BY <1>1, <1>6 DEF FailInstance
<1>7. ASSUME NEW list \in Lists, Verify(list) PROVE BaseOK'
  <2>1. spoken' = spoken /\ spoken = <<>> /\ calls' = 2 BY <1>7 DEF Verify
  <2>2. UNCHANGED <<draft, listed>> \/ (draft' = ParseBranches(list) /\ listed' = list)
    BY <1>7 DEF Verify
  <2>3. CASE UNCHANGED <<draft, listed>>
    BY <1>1, <2>1, <2>3
  <2>4. CASE draft' = ParseBranches(list) /\ listed' = list
    BY <2>1, <2>4, DraftIs DEF BaseOK, EveryClaimSpoken
  <2> QED BY <2>2, <2>3, <2>4
<1>8. CASE Verbalise
  <2>1. EveryClaimSpoken' BY <1>8, VerbaliseOK
  <2>2. UNCHANGED <<draft, listed, calls>> /\ calls # 0 BY <1>8 DEF Verbalise
  <2> QED BY <2>1, <2>2 DEF BaseOK, ListedClaims
<1>9. CASE UNCHANGED baseVars
  <2>1. UNCHANGED <<draft, listed, spoken>> /\ calls' = calls BY <1>9 DEF baseVars
  <2>2. calls' = 0 => spoken' = <<>>
    BY <2>1 DEF BaseOK
  <2> QED BY <2>1, <2>2, BaseStays
<1> QED BY <1>2, <1>3, <1>4, <1>5, <1>6, <1>7, <1>8, <1>9, BaseApart DEF BaseNext

(* A structured baseline states every outcome its model listed last, as the *)
(* rule only if it was listed as one (baselines/registry.py).               *)
THEOREM SpeakingOut == StudySpec => []EveryClaimSpoken
<1>1. StudyInit => BaseOK
  <2>1. DOMAIN << >> = 1..0 /\ 0 \in Nat /\ << >> \in Seq({}) OBVIOUS
  <2>2. Range(<<>>) = {} BY DEF Range
  <2>3. SUFFICES ASSUME StudyInit PROVE BaseOK OBVIOUS
  <2>4. draft = <<>> /\ listed = <<>> /\ spoken = <<>>
    BY <2>3 DEF StudyInit, ScoringInit, BaseInit
  <2>5. ListedClaims = {} BY <2>4 DEF ListedClaims
  <2> QED BY <2>1, <2>2, <2>4, <2>5 DEF BaseOK, EveryClaimSpoken
<1>2. BaseOK /\ [StudyNext]_studyVars => BaseOK'
  BY BaseStepOK
<1>3. BaseOK => EveryClaimSpoken
  BY DEF BaseOK
<1> QED BY <1>1, <1>2, <1>3, PTL DEF StudySpec

------------------------------------------------------------------------------
(* The reading. *)

(* A step of the study is one of the reading or leaves it alone. *)
LEMMA ReadingApart ==
  ASSUME [StudyNext]_studyVars
  PROVE  ReadNext \/ UNCHANGED readVars
  BY DEF StudyNext, studyVars, ScoringStep, scoreVars

(* As many of the people are taken as there are places. *)
LEMMA FirstPeople ==
  ASSUME NEW n \in Nat, n <= Len(Personas)
  PROVE  Cardinality({Personas[k] : k \in 1..n}) = n
<1> DEFINE S == {Personas[k] : k \in 1..n}
           f == [k \in 1..n |-> Personas[k]]
<1>1. \A k, m \in 1..n : Personas[k] = Personas[m] => k = m
  BY PersonasAssumption DEF PersonasAssumption, IsInjective
<1>2. f \in Bijection(1..n, S)
  <2>1. f \in [1..n -> S] OBVIOUS
  <2>2. \A k, m \in 1..n : f[k] = f[m] => k = m
    BY <1>1
  <2>3. \A x \in S : \E k \in 1..n : f[k] = x OBVIOUS
  <2> HIDE DEF f, S
  <2> QED BY <2>1, <2>2, <2>3 DEF Bijection, Injection, Surjection, IsInjective
<1>3. IsFiniteSet(1..n) /\ Cardinality(1..n) = n
  <2>1. \A b \in Nat : IsFiniteSet(1..b) /\ Cardinality(1..b) = IF 1 > b THEN 0 ELSE b - 1 + 1
    BY FS_Interval
  <2> QED BY <2>1
<1> HIDE DEF f, S
<1>4. Cardinality(S) = Cardinality(1..n) BY <1>2, <1>3, FS_Bijection DEF ExistsBijection
<1> QED BY <1>3, <1>4 DEF S

(* Every word of an answer is one of a sentence, and what comes before it   *)
(* there comes before it in the answer.                                     *)
Stands(text, d, seqs, s, k) ==
  seqs[s][k] = text[d] /\ (k > 1 => d > 1 /\ seqs[s][k - 1] = text[d - 1])

LEMMA WordBefore ==
  ASSUME NEW A, NEW seqs \in Seq(Seq(A)), NEW d \in DOMAIN FlattenSeq(seqs)
  PROVE  \E s \in DOMAIN seqs : \E k \in DOMAIN seqs[s] : Stands(FlattenSeq(seqs), d, seqs, s, k)
<1>1. PICK g : Flattening(g, seqs, A)
  BY FlattenedSoFar
<1> DEFINE n == Len(seqs)
           Found(t, e) == \E s \in DOMAIN seqs : \E k \in DOMAIN seqs[s] : Stands(t, e, seqs, s, k)
           G == {m \in Nat : m <= n => \A e \in DOMAIN g[m] : Found(g[m], e)}
<1>2. n \in Nat /\ DOMAIN seqs = 1..n /\ \A i \in 1..n : seqs[i] \in Seq(A) OBVIOUS
<1>3. /\ g \in [0..n -> Seq(A)] /\ g[0] = <<>> /\ g[n] = FlattenSeq(seqs)
      /\ \A i \in 1..n : g[i] = g[i - 1] \o seqs[i]
  BY <1>1 DEF Flattening
<1> HIDE DEF n
<1>4. 0 \in G
  <2>1. DOMAIN <<>> = {} OBVIOUS
  <2> QED BY <1>3, <2>1
<1>5. ASSUME NEW m \in Nat, m \in G PROVE m + 1 \in G
  <2>1. SUFFICES ASSUME m + 1 <= n PROVE \A e \in DOMAIN g[m + 1] : Found(g[m + 1], e)
    <3>1. m + 1 \in Nat OBVIOUS
    <3> QED BY <3>1
  <2>2. m <= n /\ m \in 0..n /\ m + 1 \in 1..n /\ (m + 1) - 1 = m BY <1>2, <2>1
  <2> DEFINE a == g[m]
             p == seqs[m + 1]
             t == g[m + 1]
  <2>3. t = a \o p /\ a \in Seq(A) /\ p \in Seq(A) BY <1>2, <1>3, <2>2
  <2>4. \A e \in DOMAIN a : Found(a, e) BY <1>5, <2>2
  <2> HIDE DEF a, t, Found
  <2>5. /\ DOMAIN t = 1..(Len(a) + Len(p)) /\ Len(a) \in Nat /\ Len(p) \in Nat /\ DOMAIN p = 1..Len(p) /\ DOMAIN a = 1..Len(a)
        /\ \A e \in 1..Len(a) : t[e] = a[e]
        /\ \A e \in 1..Len(p) : t[Len(a) + e] = p[e]
    <3> HIDE DEF p
    <3> QED BY <2>3
  <2>6. ASSUME NEW e \in DOMAIN t PROVE Found(t, e)
    <3>1. CASE e <= Len(a)
      <4>1. e \in DOMAIN a /\ t[e] = a[e] /\ e \in Int BY <2>5, <3>1
      <4>2. PICK s \in DOMAIN seqs : \E k \in DOMAIN seqs[s] : Stands(a, e, seqs, s, k)
        BY <2>4, <4>1 DEF Found
      <4>3. PICK k \in DOMAIN seqs[s] : Stands(a, e, seqs, s, k)
        BY <4>2
      <4>4. e > 1 => t[e - 1] = a[e - 1]
        BY <2>5, <4>1
      <4>5. Stands(t, e, seqs, s, k) BY <4>1, <4>3, <4>4 DEF Stands
      <4> QED BY <4>5 DEF Found
    <3>2. CASE ~(e <= Len(a))
      <4> DEFINE k == e - Len(a)
      <4>1. k \in 1..Len(p) /\ e = Len(a) + k /\ e \in Int BY <2>5, <3>2
      <4>2. t[e] = p[k] BY <2>5, <4>1
      <4>3. k > 1 => e > 1 /\ k - 1 \in 1..Len(p) /\ e - 1 = Len(a) + (k - 1)
        BY <2>5, <4>1
      <4>4. k > 1 => t[e - 1] = p[k - 1]
        BY <2>5, <4>3
      <4> HIDE DEF k
      <4>5. m + 1 \in DOMAIN seqs /\ k \in DOMAIN seqs[m + 1] /\ Stands(t, e, seqs, m + 1, k)
        BY <1>2, <2>2, <2>5, <4>1, <4>2, <4>3, <4>4 DEF Stands
      <4> QED BY <4>5 DEF Found
    <3> QED BY <3>1, <3>2
  <2> QED BY <2>6 DEF t
<1>6. n \in G
  <2> HIDE DEF G
  <2> QED BY <1>2, <1>4, <1>5, AllNumbers
<1>7. n <= n BY <1>2
<1>8. \A e \in DOMAIN g[n] : Found(g[n], e) BY <1>6, <1>7
<1> QED BY <1>3, <1>8

(* Where a quote is from, its words stand one after the other. *)
LEMMA QuotedWords ==
  ASSUME NEW A, NEW B, NEW quote \in Seq(B), NEW text \in Seq(A), Within(quote, text)
  PROVE  \E s \in 1..Len(text) :
           /\ IsPrefix(quote, SubSeq(text, s, Len(text)))
           /\ \A c \in 1..Len(quote) : s + c - 1 \in 1..Len(text) /\ text[s + c - 1] = quote[c]
<1>1. PICK s \in DOMAIN text : IsPrefix(quote, SubSeq(text, s, Len(text)))
  BY DEF Within
<1> DEFINE rest == SubSeq(text, s, Len(text))
<1>2. /\ s \in 1..Len(text) /\ Len(text) \in Nat /\ rest \in Seq(A) /\ Len(rest) = Len(text) - s + 1
      /\ \A k \in 1..Len(rest) : rest[k] = text[s + k - 1]
  OBVIOUS
<1> HIDE DEF rest
<1>3. ASSUME NEW c \in 1..Len(quote) PROVE s + c - 1 \in 1..Len(text) /\ text[s + c - 1] = quote[c]
  <2>1. Len(quote) \in Nat /\ Len(quote) <= Len(rest) /\ SubSeq(quote, 1, Len(quote)) = SubSeq(rest, 1, Len(quote))
    BY <1>1 DEF IsPrefix, rest
  <2>2. SubSeq(quote, 1, Len(quote))[c] = quote[c] BY <2>1
  <2>3. SubSeq(rest, 1, Len(quote))[c] = rest[c]
    <3>1. rest \in Seq(A) /\ 1 \in 1..Len(rest) + 1 /\ Len(quote) \in 1 - 1..Len(rest) /\ c \in 1..Len(quote) - 1 + 1
      BY <1>2, <2>1
    <3>2. SubSeq(rest, 1, Len(quote))[c] = rest[1 + c - 1] BY <3>1, SubSeqProperties
    <3>3. 1 + c - 1 = c OBVIOUS
    <3> QED BY <3>2, <3>3
  <2>4. c \in 1..Len(rest) /\ s + c - 1 \in 1..Len(text) BY <1>2, <2>1
  <2>5. rest[c] = quote[c] BY <2>1, <2>2, <2>3
  <2> QED BY <1>2, <2>4, <2>5
<1> QED BY <1>1, <1>2, <1>3 DEF rest

(* A word that a quote tells is told where the quote is from, unless the    *)
(* quote begins with it.                                                    *)
LEMMA ToldWhereQuoted ==
  ASSUME NEW A, NEW B, NEW quote \in Seq(B), NEW text \in Seq(A), Within(quote, text), NEW due, Tells(quote, due)
  PROVE  \E d \in DOMAIN text :
           text[d] = due /\ (Denied(text, d) => quote[1] = due /\ IsPrefix(quote, SubSeq(text, d, Len(text))))
<1>1. PICK c \in DOMAIN quote : quote[c] = due /\ ~Denied(quote, c)
  BY DEF Tells
<1>2. PICK s \in 1..Len(text) :
        /\ IsPrefix(quote, SubSeq(text, s, Len(text)))
        /\ \A e \in 1..Len(quote) : s + e - 1 \in 1..Len(text) /\ text[s + e - 1] = quote[e]
  BY QuotedWords
<1>3. c \in 1..Len(quote) /\ Len(quote) \in Nat /\ DOMAIN text = 1..Len(text) /\ Len(text) \in Nat
  OBVIOUS
<1> DEFINE d == s + c - 1
<1>4. d \in DOMAIN text /\ text[d] = due BY <1>1, <1>2, <1>3
<1>5. CASE c = 1
  <2>1. d = s BY <1>2, <1>3, <1>5
  <2> QED BY <1>1, <1>2, <1>4, <1>5, <2>1
<1>6. CASE c # 1
  <2>1. c > 1 /\ c - 1 \in 1..Len(quote) /\ d - 1 = s + (c - 1) - 1 /\ d > 1
    BY <1>2, <1>3, <1>6
  <2>2. text[d - 1] = quote[c - 1] BY <1>2, <2>1
  <2>3. ~Denied(text, d) BY <1>1, <2>1, <2>2 DEF Denied
  <2> QED BY <1>4, <2>3
<1> QED BY <1>5, <1>6

(* The claim of StrictIsEarned for one person and what was said of them. *)
Earned(p, said) ==
  LET quote == said.quote
      due == GoldOutcome[p]
      across == \A s \in DOMAIN reply : ~Within(quote, reply[s])
      BeginsAt(s, k) ==
        IF across THEN quote[1] = due ELSE IsPrefix(quote, SubSeq(reply[s], k, Len(reply[s])))
  IN /\ said.outcome = due /\ quote # << >> /\ ~HedgedIn(quote)
     /\ Tells(quote, due) =>
          \E s \in DOMAIN reply : \E k \in DOMAIN reply[s] :
            /\ reply[s][k] = due
            /\ Denied(reply[s], k) => BeginsAt(s, k)
            /\ across \/ ~HedgedIn(reply[s])

(* The four conditions of the strict reading together earn the credit. *)
LEMMA CreditIsEarned ==
  ASSUME NEW A, reply \in Seq(Seq(A)), NEW p, NEW said, NEW B, said.quote \in Seq(B), NEW entailed,
         Failing(p, said, entailed) = Credited
  PROVE  Earned(p, said)
<1> DEFINE quote == said.quote
           due == GoldOutcome[p]
           holding == {s \in DOMAIN reply : Within(quote, reply[s])}
<1>1. /\ Within(quote, FlattenSeq(reply)) /\ ~HedgedIn(quote) /\ ~HedgedIn(Sentence(quote))
      /\ said.outcome = due /\ quote # << >>
  BY DEF Failing, Verbatim, Hedged, Credited
<1>2. CASE ~Tells(quote, due)
  BY <1>1, <1>2 DEF Earned
<1>3. CASE Tells(quote, due) /\ holding = {}
  <2> DEFINE text == FlattenSeq(reply)
  <2>1. text \in Seq(A) BY FlattenIs
  <2>2. PICK d \in DOMAIN text : text[d] = due /\ (Denied(text, d) => quote[1] = due)
    <3> HIDE DEF text, due, quote
    <3>1. quote \in Seq(B) /\ Within(quote, text) BY <1>1 DEF quote, text
    <3> QED BY <1>3, <2>1, <3>1, ToldWhereQuoted
  <2>3. PICK s \in DOMAIN reply : \E k \in DOMAIN reply[s] : Stands(text, d, reply, s, k)
    BY <2>2, WordBefore
  <2>4. PICK k \in DOMAIN reply[s] : Stands(text, d, reply, s, k)
    BY <2>3
  <2>5. reply[s][k] = due /\ (Denied(reply[s], k) => quote[1] = due)
    BY <2>2, <2>4 DEF Stands, Denied
  <2>6. \A t \in DOMAIN reply : ~Within(quote, reply[t]) BY <1>3
  <2> QED BY <1>1, <2>5, <2>6 DEF Earned
<1>4. CASE Tells(quote, due) /\ holding # {}
  <2> DEFINE s == CHOOSE s \in holding : \A t \in holding : s <= t
  <2>1. holding \in SUBSET Nat OBVIOUS
  <2>2. s \in holding
    <3> HIDE DEF holding
    <3>1. \E m \in holding : \A k \in holding : m <= k BY <1>4, <2>1, LeastBelow
    <3> QED BY <3>1
  <2>3. Sentence(quote) = reply[s] BY <1>4 DEF Sentence
  <2> HIDE DEF s
  <2>4. s \in DOMAIN reply /\ Within(quote, reply[s]) /\ reply[s] \in Seq(A) BY <2>2
  <2>5. PICK d \in DOMAIN reply[s] :
          reply[s][d] = due /\ (Denied(reply[s], d) => IsPrefix(quote, SubSeq(reply[s], d, Len(reply[s]))))
    <3> DEFINE text == reply[s]
    <3>1. quote \in Seq(B) /\ Within(quote, text) /\ text \in Seq(A) BY <2>4
    <3> HIDE DEF text, due, quote
    <3>2. \E d \in DOMAIN text : text[d] = due /\ (Denied(text, d) => IsPrefix(quote, SubSeq(text, d, Len(text))))
      BY <1>4, <3>1, ToldWhereQuoted
    <3> QED BY <3>2 DEF text
  <2>6. ~\A t \in DOMAIN reply : ~Within(quote, reply[t]) BY <2>4
  <2> QED BY <1>1, <2>3, <2>4, <2>5, <2>6 DEF Earned
<1> QED BY <1>2, <1>3, <1>4

(* The people are judged in their order, each once, after the answer is in. *)
ReadOK ==
  /\ reply = << >> \/ reply \in Replies
  /\ ~asked => reply = << >> /\ verdict = << >>
  /\ \E n \in 0..Len(Personas) : DOMAIN verdict = {Personas[k] : k \in 1..n}
  /\ heard.person \in DOMAIN verdict /\ verdict[heard.person].why = Credited => Earned(heard.person, heard.said)

(* The next person was not judged before. *)
LEMMA NextIsNew ==
  ASSUME NEW n \in 0..Len(Personas), DOMAIN verdict = {Personas[k] : k \in 1..n}, Cardinality(Judged) < Len(Personas)
  PROVE  /\ NextPerson \notin Judged /\ n + 1 \in 0..Len(Personas)
         /\ Judged \cup {NextPerson} = {Personas[k] : k \in 1..(n + 1)}
<1>1. Len(Personas) \in Nat /\ DOMAIN Personas = 1..Len(Personas)
  BY PersonasAssumption DEF PersonasAssumption
<1>2. Cardinality(Judged) = n BY <1>1, FirstPeople DEF Judged
<1>3. n + 1 \in DOMAIN Personas /\ NextPerson = Personas[n + 1]
  BY <1>1, <1>2 DEF NextPerson
<1>4. \A k \in 1..n : Personas[k] # Personas[n + 1]
  BY <1>1, <1>3, PersonasAssumption DEF PersonasAssumption, IsInjective
<1> QED BY <1>1, <1>3, <1>4 DEF Judged

(* A person is judged once, and credited only when all four conditions      *)
(* hold.                                                                    *)
LEMMA ReadStepOK ==
  ASSUME ReadOK, [StudyNext]_studyVars
  PROVE  ReadOK'
<1>1. CASE UNCHANGED readVars
  BY <1>1 DEF readVars, ReadOK, Earned, Within
<1>2. ASSUME NEW r \in Replies \cup {<< >>}, Hear(r) PROVE ReadOK'
  BY <1>2 DEF Hear, ReadOK
<1>3. ASSUME RefuseGap \/ Aggregate PROVE ReadOK'
  BY <1>3 DEF RefuseGap, Aggregate, ReadOK, Earned, Within
<1>4. ASSUME NEW said \in Sayings, JudgePerson(said) PROVE ReadOK'
  <2>0. PICK p : p = NextPerson OBVIOUS
  <2>1. PICK entailed \in BOOLEAN : 
          /\ heard' = [person |-> p, said |-> said]
          /\ verdict' = [q \in Judged \cup {p} |->
               IF q = p THEN [why |-> Failing(p, said, entailed), lenient |-> Lenient(p, said),
                              over |-> OverGeneralised(p, said, Failing(p, said, entailed))] ELSE verdict[q]]
    BY <1>4, <2>0 DEF JudgePerson
  <2>2. reply # << >> /\ Cardinality(Judged) < Len(Personas) /\ UNCHANGED <<reply, asked>>
    BY <1>4 DEF JudgePerson
  <2>3. PICK n \in 0..Len(Personas) : DOMAIN verdict = {Personas[k] : k \in 1..n}
    BY DEF ReadOK
  <2>4. /\ n + 1 \in 0..Len(Personas) /\ DOMAIN verdict' = {Personas[k] : k \in 1..(n + 1)}
    BY <2>0, <2>1, <2>2, <2>3, NextIsNew
  <2>5. verdict'[p].why = Failing(p, said, entailed) BY <2>1
  <2>6. ASSUME Failing(p, said, entailed) = Credited PROVE Earned(p, said)
    <3> DEFINE A == UNION {Range(s) : s \in Range(reply)}
    <3>1. reply \in Seq(Seq(A)) BY <2>2, PersonasAssumption DEF ReadOK, PersonasAssumption
    <3>2. said.quote = << >> \/ said.quote \in Quotes BY DEF Sayings
    <3>3. said.quote \in Seq(Range(said.quote))
      <4>1. Range(<< >>) = {} /\ << >> \in Seq({}) BY DEF Range
      <4> QED BY <3>2, <4>1, PersonasAssumption DEF PersonasAssumption
    <3> HIDE DEF A
    <3> QED BY <2>1, <2>6, <3>1, <3>3, CreditIsEarned DEF A
  <2>7. Earned(p, said) => Earned(p, said)'
    BY <2>2 DEF Earned, Within
  <2>8. heard'.person = p /\ heard'.said = said BY <2>1
  <2>9. (heard.person \in DOMAIN verdict /\ verdict[heard.person].why = Credited => Earned(heard.person, heard.said))'
    BY <2>5, <2>6, <2>7, <2>8
  <2> QED BY <2>2, <2>4, <2>9 DEF ReadOK
<1> QED BY <1>1, <1>2, <1>3, <1>4, ReadingApart DEF ReadNext

(* A credited person is told their outcome in the answer, in a sentence     *)
(* without a hedge, whatever the reader and the entailment model say, but   *)
(* for the three ways out that StrictIsEarned names                         *)
(* (metrics/case_accuracy.py).                                              *)
THEOREM StrictCredit == StudySpec => []StrictIsEarned
<1>1. StudyInit => ReadOK
  <2> SUFFICES ASSUME StudyInit PROVE ReadOK OBVIOUS
  <2>1. reply = << >> /\ verdict = << >> BY DEF StudyInit, ScoringInit, ReadInit
  <2>2. DOMAIN verdict = {Personas[k] : k \in 1..0} /\ 0 \in 0..Len(Personas)
    BY <2>1, PersonasAssumption DEF PersonasAssumption
  <2> QED BY <2>1, <2>2 DEF ReadOK
<1>2. ReadOK /\ [StudyNext]_studyVars => ReadOK'
  BY ReadStepOK
<1>3. ReadOK => StrictIsEarned
  BY DEF ReadOK, StrictIsEarned, Earned
<1> QED BY <1>1, <1>2, <1>3, PTL DEF StudySpec

------------------------------------------------------------------------------
(* The confirmatory family. *)

(* Fractions are ordered. *)
Fractions == [num : Nat, den : Nat \ {0}]

(* The exact p-value is a fraction. *)
LEMMA BinomIs == \A won, lost \in Nat : BinomTwoSided(won, lost) \in Fractions
<1> SUFFICES ASSUME NEW won \in Nat, NEW lost \in Nat PROVE BinomTwoSided(won, lost) \in Fractions
  OBVIOUS
<1> DEFINE n == won + lost
           fewer == IF won <= lost THEN won ELSE lost
           S == 0..fewer
           tail == MapThenSumSet(LAMBDA k : choose(n, k), S)
           g == [k \in S |-> choose(n, k)]
<1>1. n \in Nat /\ fewer \in Nat /\ fewer <= n OBVIOUS
<1>2. \A k \in S : g[k] \in Nat
  <2>1. \A a \in Nat, b \in Nat \ {0} : a \div b \in Nat OBVIOUS
  <2>2. \A a, b \in Nat \ {0} : a * b \in Nat \ {0} OBVIOUS
  <2>3. ASSUME NEW k \in S PROVE choose(n, k) \in Nat
    <3>1. k \in Nat /\ n - k \in Nat /\ n \in Nat BY <1>1
    <3>2. factorial[n] \in Nat /\ factorial[k] * factorial[n - k] \in Nat \ {0}
      BY <2>2, <3>1, FactorialIs
    <3> HIDE DEF n
    <3> QED BY <2>1, <3>2 DEF choose
  <2> HIDE DEF S, n
  <2> QED BY <2>3
<1>3. tail \in Nat
  <2>1. IsFiniteSet(S)
    <3>1. \A b \in Nat : IsFiniteSet(0..b) BY FS_Interval
    <3> QED BY <3>1, <1>1
  <2> HIDE DEF S, n, g
  <2>2. \E f : Summed(f, g, S) BY <2>1, SumExists
  <2>3. ASSUME NEW f, NEW s \in SUBSET S
        PROVE  Adds(f, g, s) = IF s = {} THEN 0
                 ELSE LET x == CHOOSE x \in s : TRUE IN choose(n, x) + f[s \ {x}]
    <3>1. CASE s # {}
      <4>1. First(s) \in S BY <3>1 DEF First
      <4>2. g[First(s)] = choose(n, First(s)) BY <4>1 DEF g
      <4> QED BY <3>1, <4>2 DEF Adds, First
    <3>2. CASE s = {}
      BY <3>2 DEF Adds
    <3> QED BY <3>1, <3>2
  <2> DEFINE Rec(f) == [s \in SUBSET S |-> IF s = {} THEN 0
               ELSE LET x == CHOOSE x \in s : TRUE IN choose(n, x) + f[s \ {x}]]
  <2>4. ASSUME NEW f PROVE [s \in SUBSET S |-> Adds(f, g, s)] = Rec(f)
    BY <2>3
  <2>5. \E f : f = Rec(f) /\ tail = f[S]
    <3>1. \E f : f = Rec(f)
      <4> HIDE DEF Rec
      <4> QED BY <2>2, <2>4 DEF Summed
    <3> QED BY <3>1 DEF MapThenSumSet, MapThenFoldSet
  <2>6. PICK f : Summed(f, g, S) /\ tail = f[S]
    <3> HIDE DEF Rec, tail
    <3> QED BY <2>4, <2>5 DEF Summed
  <2> QED BY <1>2, <2>1, <2>6, SumIsNumber
<1>4. 2 ^ n \in Nat \ {0} /\ 2 * tail \in Nat BY <1>1, <1>3, PowerIs
<1>5. BinomTwoSided(won, lost) = One \/ BinomTwoSided(won, lost) = P(2 * tail, 2 ^ n)
  BY DEF BinomTwoSided
<1> HIDE DEF n, tail
<1> QED BY <1>4, <1>5 DEF One, P, Fractions

(* A positive factor cancels. *)
LEMMA Cancels ==
  ASSUME NEW a \in Int, NEW b \in Int, NEW c \in Nat \ {0}, a * c < b * c
  PROVE  a < b
  OBVIOUS

(* Factors keep an order. *)
LEMMA Scales ==
  ASSUME NEW a \in Int, NEW b \in Int, NEW c \in Nat
  PROVE  /\ a <= b => a * c <= b * c
         /\ a < b /\ c # 0 => a * c < b * c
  OBVIOUS

(* Below is transitive, over what is not below. *)
LEMMA BelowChains ==
  ASSUME NEW p \in Fractions, NEW q \in Fractions, NEW r \in Fractions
  PROVE  /\ Below(p, q) /\ ~Below(r, q) => Below(p, r)
         /\ ~Below(q, p) /\ Below(q, r) => Below(p, r)
<1>1. ASSUME NEW a \in Nat, NEW b \in Nat \ {0}, NEW c \in Nat, NEW d \in Nat \ {0}, NEW e \in Nat, NEW f \in Nat \ {0}
      PROVE  /\ a * d < c * b /\ c * f <= e * d => a * f < e * b
             /\ a * d <= c * b /\ c * f < e * d => a * f < e * b
  <2>1. ASSUME a * d < c * b, c * f <= e * d PROVE a * f < e * b
    <3>1. (a * d) * f < (c * b) * f BY <2>1, Scales
    <3>2. (c * f) * b <= (e * d) * b BY <2>1, Scales
    <3>3. (a * f) * d = (a * d) * f /\ (c * b) * f = (c * f) * b /\ (e * d) * b = (e * b) * d
      OBVIOUS
    <3>4. (a * f) * d < (e * b) * d BY <3>1, <3>2, <3>3
    <3> QED BY <3>4, Cancels
  <2>2. ASSUME a * d <= c * b, c * f < e * d PROVE a * f < e * b
    <3>1. (a * d) * f <= (c * b) * f BY <2>2, Scales
    <3>2. (c * f) * b < (e * d) * b BY <2>2, Scales
    <3>3. (a * f) * d = (a * d) * f /\ (c * b) * f = (c * f) * b /\ (e * d) * b = (e * b) * d
      OBVIOUS
    <3>4. (a * f) * d < (e * b) * d BY <3>1, <3>2, <3>3
    <3> QED BY <3>4, Cancels
  <2> QED BY <2>1, <2>2
<1> DEFINE a == p.num  b == p.den  c == q.num  d == q.den  e == r.num  f == r.den
<1>2. a \in Nat /\ b \in Nat \ {0} /\ c \in Nat /\ d \in Nat \ {0} /\ e \in Nat /\ f \in Nat \ {0}
  BY DEF Fractions
<1>3. /\ a * d < c * b /\ c * f <= e * d => a * f < e * b
      /\ a * d <= c * b /\ c * f < e * d => a * f < e * b
  <2> HIDE DEF a, b, c, d, e, f
  <2> QED BY <1>1, <1>2
<1>4. /\ Below(p, q) <=> a * d < c * b
      /\ Below(r, q) <=> e * d < c * f
      /\ Below(q, p) <=> c * b < a * d
      /\ Below(q, r) <=> c * f < e * d
      /\ Below(p, r) <=> a * f < e * b
  BY DEF Below
<1> HIDE DEF a, b, c, d, e, f
<1>5. a * d \in Int /\ c * b \in Int /\ e * d \in Int /\ c * f \in Int BY <1>2
<1> QED BY <1>3, <1>4, <1>5

(* What the tests left behind. *)
Tested == Hypotheses \subseteq {"H1", "H2", "H3"} /\ \A h \in Hypotheses : tested[h].p \in Fractions

(* Before is a strict total order of the hypotheses. *)
LEMMA BeforeOrders ==
  ASSUME Tested, NEW f \in Hypotheses, NEW g \in Hypotheses, NEW h \in Hypotheses
  PROVE  /\ ~Before(f, f)
         /\ Before(f, g) => ~Before(g, f)
         /\ f # g => Before(f, g) \/ Before(g, f)
         /\ Before(f, g) /\ Before(g, h) => Before(f, h)
<1> DEFINE p == tested[f].p  q == tested[g].p  r == tested[h].p
<1>1. \A k \in {"H1", "H2", "H3"} : Rank(k) = IF k = "H1" THEN 1 ELSE IF k = "H3" THEN 2 ELSE 3
  <2>1. <<"H1", "H3", "H2">>[1] = "H1" /\ <<"H1", "H3", "H2">>[2] = "H3" /\ <<"H1", "H3", "H2">>[3] = "H2"
    OBVIOUS
  <2>2. 1..3 = {1, 2, 3} OBVIOUS
  <2> QED BY <2>1, <2>2 DEF Rank
<1>2. p \in Fractions /\ q \in Fractions /\ r \in Fractions BY DEF Tested
<1>3. /\ ~Below(p, p) /\ (Below(p, q) => ~Below(q, p))
      /\ Below(p, q) /\ ~Below(r, q) => Below(p, r)
      /\ ~Below(q, p) /\ Below(q, r) => Below(p, r)
      /\ ~Below(q, p) /\ ~Below(r, q) => ~Below(r, p)
  <2>1. ~Below(p, p) /\ (Below(p, q) => ~Below(q, p))
    BY <1>2 DEF Below, Fractions
  <2> HIDE DEF p, q, r
  <2> QED BY <2>1, <1>2, BelowChains
<1>4. /\ Before(f, f) <=> Below(p, p)
      /\ Before(f, g) <=> Below(p, q) \/ (~Below(q, p) /\ Rank(f) < Rank(g))
      /\ Before(g, f) <=> Below(q, p) \/ (~Below(p, q) /\ Rank(g) < Rank(f))
      /\ Before(g, h) <=> Below(q, r) \/ (~Below(r, q) /\ Rank(g) < Rank(h))
      /\ Before(f, h) <=> Below(p, r) \/ (~Below(r, p) /\ Rank(f) < Rank(h))
  BY <1>1 DEF Before, Tested
<1>5. f \in {"H1", "H2", "H3"} /\ g \in {"H1", "H2", "H3"} /\ h \in {"H1", "H2", "H3"}
  BY DEF Tested
<1> HIDE DEF p, q, r
<1> QED BY <1>1, <1>3, <1>4, <1>5

(* Times k, for what is below. *)
LEMMA TimesBelow ==
  ASSUME NEW p \in Fractions, NEW q \in Fractions, ~Below(q, p), NEW k \in Nat, NEW m \in Nat, k <= m,
         Below(P(m * q.num, q.den), Alpha)
  PROVE  Below(P(k * p.num, p.den), Alpha)
<1> DEFINE pk == P(k * p.num, p.den)
           qm == P(m * q.num, q.den)
<1>1. /\ p.num \in Nat /\ p.den \in Nat \ {0} /\ q.num \in Nat /\ q.den \in Nat \ {0}
      /\ p.num * q.den <= q.num * p.den
  BY DEF Fractions, Below
<1>2. k * p.num \in Nat /\ m * q.num \in Nat BY <1>1
<1>3. pk \in Fractions /\ qm \in Fractions /\ Alpha \in Fractions
  BY <1>1, <1>2 DEF Fractions, P, Alpha
<1>4. (k * p.num) * q.den <= (m * q.num) * p.den
  <2>1. (p.num * q.den) * k <= (q.num * p.den) * k BY <1>1, Scales
  <2>2. k * (q.num * p.den) <= m * (q.num * p.den) BY <1>1, Scales
  <2>3. (k * p.num) * q.den = (p.num * q.den) * k /\ (q.num * p.den) * k = k * (q.num * p.den)
        /\ (m * q.num) * p.den = m * (q.num * p.den)
    BY <1>1
  <2> QED BY <1>1, <2>1, <2>2, <2>3
<1>5. ~Below(qm, pk)
  <2>1. Below(qm, pk) <=> (m * q.num) * p.den < (k * p.num) * q.den
    BY DEF Below, P
  <2> QED BY <1>1, <1>2, <1>4, <2>1
<1> HIDE DEF pk, qm
<1>6. Below(pk, Alpha) BY <1>3, <1>5, BelowChains DEF qm
<1> QED BY <1>6 DEF pk

(* The closed test. *)
Closed(h) ==
  \A S \in {T \in SUBSET Hypotheses : h \in T} :
    \E g \in S : Below(P(Cardinality(S) * tested[g].p.num, tested[g].p.den), Alpha)

(* Rejected step by step is rejected in every family it belongs to, and     *)
(* back: the family of what does not come before it, and the first of a     *)
(* family, tell.                                                            *)
LEMMA HolmClosed ==
  ASSUME Tested, NEW h \in Hypotheses
  PROVE  Rejected(h) <=> Closed(h)
<1> DEFINE Left(g) == {k \in Hypotheses : ~Before(k, g)}
<1>1. IsFiniteSet(Hypotheses)
  <2>1. IsFiniteSet({"H1", "H2", "H3"})
    <3>1. \A x : IsFiniteSet({x}) BY FS_Singleton
    <3>2. IsFiniteSet({"H1"} \cup {"H2"}) BY <3>1, FS_Union
    <3>3. IsFiniteSet(({"H1"} \cup {"H2"}) \cup {"H3"}) BY <3>1, <3>2, FS_Union
    <3>4. ({"H1"} \cup {"H2"}) \cup {"H3"} = {"H1", "H2", "H3"} OBVIOUS
    <3> QED BY <3>3, <3>4
  <2> QED BY <2>1, Fewer DEF Tested
<1>2. ASSUME Closed(h), NEW g \in Hypotheses, g = h \/ Before(g, h) PROVE Below(Stepped(g), Alpha)
  <2>1. Left(g) \in SUBSET Hypotheses /\ h \in Left(g) BY <1>2, BeforeOrders
  <2>2. PICK k \in Left(g) : Below(P(Cardinality(Left(g)) * tested[k].p.num, tested[k].p.den), Alpha)
    BY <1>2, <2>1 DEF Closed
  <2>3. ~Below(tested[k].p, tested[g].p) /\ tested[k].p \in Fractions /\ tested[g].p \in Fractions
    BY <2>2 DEF Before, Tested
  <2>4. Cardinality(Left(g)) \in Nat BY <1>1, <2>1, Fewer
  <2>5. Stepped(g) = P(Cardinality(Left(g)) * tested[g].p.num, tested[g].p.den)
    BY DEF Stepped
  <2> HIDE DEF Left
  <2> QED BY <2>2, <2>3, <2>4, <2>5, TimesBelow
<1>3. ASSUME Rejected(h), NEW S \in SUBSET Hypotheses, h \in S
      PROVE  \E g \in S : Below(P(Cardinality(S) * tested[g].p.num, tested[g].p.den), Alpha)
  <2>1. PICK g \in S : \A k \in S : ~Before(k, g)
    <3> DEFINE B == {e \in Hypotheses \X Hypotheses : Before(e[1], e[2])}
    <3>1. ASSUME NEW f \in Hypotheses, NEW g \in Hypotheses
          PROVE  <<f, g>> \in B <=> Before(f, g)
      OBVIOUS
    <3>2. \A f \in Hypotheses : <<f, f>> \notin B BY <3>1, BeforeOrders
    <3>3. \A f, g \in Hypotheses : <<f, g>> \in B => <<g, f>> \notin B
      BY <3>1, BeforeOrders
    <3>4. \A f, g, k \in Hypotheses : <<f, g>> \in B /\ <<g, k>> \in B => <<f, k>> \in B
      BY <3>1, BeforeOrders
    <3>5. S \subseteq {"H1", "H2", "H3"} BY DEF Tested
    <3> HIDE DEF B
    <3>6. \E g \in S : \A k \in S : <<k, g>> \notin B
      <4>1. SUFFICES ASSUME \A g \in S : \E k \in S : <<k, g>> \in B PROVE FALSE OBVIOUS
      <4>2. PICK k \in S : <<k, h>> \in B
        BY <4>1, <1>3
      <4>3. PICK m \in S : <<m, k>> \in B
        BY <4>1
      <4>4. PICK n \in S : <<n, m>> \in B
        BY <4>1
      <4>5. <<m, h>> \in B /\ <<n, k>> \in B /\ <<n, h>> \in B BY <3>4, <4>2, <4>3, <4>4
      <4>6. k # h /\ m # k /\ m # h /\ n # m /\ n # k /\ n # h
        BY <3>2, <4>2, <4>3, <4>4, <4>5
      <4> QED BY <1>3, <3>5, <4>6
    <3> QED BY <3>1, <3>6
  <2>2. g = h \/ Before(g, h) BY <1>3, <2>1, BeforeOrders
  <2>3. Below(Stepped(g), Alpha) BY <1>3, <2>2 DEF Rejected
  <2>4. /\ Cardinality(S) \in Nat /\ Cardinality(Left(g)) \in Nat
        /\ Cardinality(S) <= Cardinality(Left(g))
    <3>1. S \in SUBSET Left(g) /\ Left(g) \in SUBSET Hypotheses BY <2>1
    <3> HIDE DEF Left
    <3>2. IsFiniteSet(Left(g)) BY <1>1, <3>1, Fewer
    <3> QED BY <3>1, <3>2, Fewer
  <2>5. tested[g].p \in Fractions /\ ~Below(tested[g].p, tested[g].p)
    <3>1. tested[g].p \in Fractions BY DEF Tested
    <3> QED BY <3>1 DEF Below, Fractions
  <2>6. Stepped(g) = P(Cardinality(Left(g)) * tested[g].p.num, tested[g].p.den)
    BY DEF Stepped
  <2> HIDE DEF Left
  <2>7. Below(P(Cardinality(S) * tested[g].p.num, tested[g].p.den), Alpha)
    BY <2>3, <2>4, <2>5, <2>6, TimesBelow
  <2> QED BY <2>7
<1>4. Rejected(h) => Closed(h)
  BY <1>3 DEF Closed
<1>5. Closed(h) => Rejected(h)
  BY <1>2 DEF Rejected
<1> QED BY <1>4, <1>5

(* A step of the study is one of the endpoints or leaves them alone. *)
LEMMA EndpointsApart ==
  ASSUME [StudyNext]_studyVars
  PROVE  EndNext \/ UNCHANGED endVars
  BY DEF StudyNext, studyVars, ScoringStep, scoreVars

(* What was concluded was concluded from all that was tested. *)
EndOK == Tested /\ \A h \in DOMAIN concluded : h \in Hypotheses /\ (concluded[h].rejected <=> Closed(h))

(* A hypothesis that is tested keeps the others. *)
LEMMA TestedGrows ==
  ASSUME Tested, NEW h \in {"H1", "H2", "H3"}, NEW r, r.p \in Fractions,
         tested' = [g \in Hypotheses \cup {h} |-> IF g = h THEN r ELSE tested[g]]
  PROVE  Tested'
<1>1. Hypotheses' = Hypotheses \cup {h} /\ \A g \in Hypotheses' : tested'[g] = IF g = h THEN r ELSE tested[g]
  BY DEF Hypotheses
<1> QED BY <1>1 DEF Tested, Fractions

(* Concluding looks at all that was tested; nothing is tested after. *)
LEMMA EndStepOK ==
  ASSUME EndOK, [StudyNext]_studyVars
  PROVE  EndOK'
<1>1. ASSUME UNCHANGED <<tested, concluded>> PROVE EndOK'
  BY <1>1 DEF EndOK, Tested, Closed, Hypotheses, Fractions
<1>2. ASSUME NEW h \in {"H1", "H3"}, NEW d \in Discordant, TestPaired(h, d[1], d[2]) PROVE EndOK'
  <2>1. BinomTwoSided(d[1], d[2]) \in Fractions
    BY BinomIs, EndpointsAssumption DEF EndpointsAssumption, Fractions
  <2>2. PICK r : r.p = BinomTwoSided(d[1], d[2]) /\ tested' = [g \in Hypotheses \cup {h} |-> IF g = h THEN r ELSE tested[g]]
    <3> DEFINE r == [won |-> d[1], lost |-> d[2], p |-> BinomTwoSided(d[1], d[2])]
    <3>1. r.p = BinomTwoSided(d[1], d[2]) /\ tested' = [g \in Hypotheses \cup {h} |-> IF g = h THEN r ELSE tested[g]]
      BY <1>2 DEF TestPaired
    <3> HIDE DEF r
    <3> QED BY <3>1
  <2>3. Tested' BY <2>1, <2>2, TestedGrows DEF EndOK
  <2>4. DOMAIN concluded' = {} BY <1>2 DEF TestPaired
  <2> QED BY <2>3, <2>4 DEF EndOK
<1>3. ASSUME NEW p \in SecondP, TestSecond(p) PROVE EndOK'
  <2>1. p \in Fractions BY EndpointsAssumption DEF EndpointsAssumption, Fractions
  <2>2. PICK r : r.p = p /\ tested' = [g \in Hypotheses \cup {"H2"} |-> IF g = "H2" THEN r ELSE tested[g]]
    <3> DEFINE r == [won |-> 0, lost |-> 0, p |-> p]
    <3>1. r.p = p /\ tested' = [g \in Hypotheses \cup {"H2"} |-> IF g = "H2" THEN r ELSE tested[g]]
      BY <1>3 DEF TestSecond
    <3> HIDE DEF r
    <3> QED BY <3>1
  <2>3. Tested' BY <2>1, <2>2, TestedGrows DEF EndOK
  <2>4. DOMAIN concluded' = {} BY <1>3 DEF TestSecond
  <2> QED BY <2>3, <2>4 DEF EndOK
<1>4. ASSUME NEW s1 \in Sizes, Conclude(s1) PROVE EndOK'
  <2>1. tested' = tested /\ Tested' /\ Hypotheses' = Hypotheses
    BY <1>4 DEF Conclude, EndOK, Tested, Hypotheses, Fractions
  <2>2. \A h : Closed(h)' <=> Closed(h)
    BY <2>1 DEF Closed
  <2>3. DOMAIN concluded' = Hypotheses /\ \A h \in Hypotheses : concluded'[h].rejected = Rejected(h)
    BY <1>4 DEF Conclude
  <2>4. \A h \in Hypotheses : Rejected(h) <=> Closed(h)
    BY HolmClosed DEF EndOK
  <2> QED BY <2>1, <2>2, <2>3, <2>4 DEF EndOK
<1>5. ASSUME EndNext PROVE EndOK'
  <2>1. ASSUME UNCHANGED <<tested, concluded>> PROVE EndOK'
    BY <2>1, <1>1
  <2> QED BY <1>5, <1>2, <1>3, <1>4, <2>1 DEF EndNext, Measure, Cut, UpdateGate
<1> QED BY <1>1, <1>5, EndpointsApart DEF endVars

(* Holm's step-down rejects what the closed test of Bonferroni rejects      *)
(* (metrics/stats.py holm_adjust).                                      *)
THEOREM HolmControls == StudySpec => []HolmIsClosed
<1>1. StudyInit => EndOK
  BY DEF StudyInit, ScoringInit, EndInit, EndOK, Tested, Hypotheses
<1>2. EndOK /\ [StudyNext]_studyVars => EndOK'
  BY EndStepOK
<1>3. EndOK => HolmIsClosed
  BY DEF EndOK, HolmIsClosed, Closed
<1> QED BY <1>1, <1>2, <1>3, PTL DEF StudySpec

------------------------------------------------------------------------------
(* Sums of counts. *)

(* Nothing is none. *)
LEMMA NoneIsNothing == \A s, k : k \in Nat /\ Cardinality(s) = k + 1 => s # {}
<1>1. Cardinality({}) = 0 BY FS_EmptySet
<1> QED BY <1>1

(* Two parts of a finite set that have nothing in common. *)
TwoOf(M, A, B) == IsFiniteSet(M) /\ A \subseteq M /\ B \subseteq M /\ A \cap B = {}
TwoAddUp(A, B) ==
  /\ IsFiniteSet(A \cup B) /\ Cardinality(A) \in Nat /\ Cardinality(B) \in Nat
  /\ Cardinality(A \cup B) = Cardinality(A) + Cardinality(B)

LEMMA TwoParts == ASSUME NEW M, NEW A, NEW B, TwoOf(M, A, B) PROVE TwoAddUp(A, B)
<1>1. IsFiniteSet(M) /\ A \in SUBSET M /\ B \in SUBSET M /\ A \cap B = {} BY DEF TwoOf
<1>2. IsFiniteSet(A) /\ IsFiniteSet(B) /\ Cardinality(A) \in Nat /\ Cardinality(B) \in Nat
  BY <1>1, Fewer
<1>3. IsFiniteSet(A \cup B) /\ Cardinality(A \cup B) = Cardinality(A) + Cardinality(B) - Cardinality(A \cap B)
  BY <1>2, FS_Union
<1>4. Cardinality(A \cap B) = 0 BY <1>1, FS_EmptySet
<1> QED BY <1>2, <1>3, <1>4 DEF TwoAddUp

(* SumOver() adds up. *)
LEMMA SumIs ==
  ASSUME NEW S, IsFiniteSet(S), NEW g
  PROVE  \E it : Summed(it, g, S) /\ SumOver(g, S) = it[S]
<1> DEFINE Rec(f) == [s \in SUBSET S |-> IF s = {} THEN 0 ELSE LET x == CHOOSE x \in s : TRUE IN g[x] + f[s \ {x}]]
<1>1. \E f : Summed(f, g, S) BY SumExists
<1>2. ASSUME NEW f PROVE [s \in SUBSET S |-> Adds(f, g, s)] = Rec(f)
  BY DEF Adds, First
<1>3. \E f : f = Rec(f)
  <2> HIDE DEF Rec
  <2> QED BY <1>1, <1>2 DEF Summed
<1>4. \E f : f = Rec(f) /\ SumOver(g, S) = f[S]
  BY <1>3 DEF SumOver, MapThenSumSet, MapThenFoldSet
<1> HIDE DEF Rec
<1> QED BY <1>2, <1>4 DEF Summed

(* Where every summand counts a part, the sum counts them all. *)
CountsParts(g, S, M, part) ==
  IsFiniteSet(M) /\ IsFiniteSet(S) /\ \A x \in S : g[x] = Cardinality({m \in M : part[m] = x})
AddsUp(g, S, M, part) == SumOver(g, S) = Cardinality({m \in M : part[m] \in S})

LEMMA SumOfParts ==
  ASSUME NEW M, NEW S, NEW part, NEW g, CountsParts(g, S, M, part)
  PROVE  AddsUp(g, S, M, part)
<1>0. IsFiniteSet(M) /\ IsFiniteSet(S) /\ \A x \in S : g[x] = Cardinality({m \in M : part[m] = x})
  BY DEF CountsParts
<1> DEFINE Of(s) == {m \in M : part[m] \in s}
           G(it) == {k \in Nat : \A s \in SUBSET S : Cardinality(s) = k => it[s] = Cardinality(Of(s))}
<1>1. PICK it : Summed(it, g, S) /\ SumOver(g, S) = it[S]
  BY <1>0, SumIs
<1>2. \A s \in SUBSET S : it[s] = Adds(it, g, s) BY <1>1 DEF Summed
<1>3. 0 \in G(it)
  <2>1. ASSUME NEW s \in SUBSET S, Cardinality(s) = 0 PROVE it[s] = Cardinality(Of(s))
    <3>1. s = {} BY <1>0, <2>1, OneIsTaken
    <3>2. Of(s) = {} BY <3>1
    <3>3. Cardinality(Of(s)) = 0 BY <3>2, FS_EmptySet
    <3> QED BY <1>2, <3>1, <3>3 DEF Adds
  <2> QED BY <2>1
<1>4. ASSUME NEW k \in Nat, k \in G(it) PROVE k + 1 \in G(it)
  <2>1. ASSUME NEW s \in SUBSET S, Cardinality(s) = k + 1 PROVE it[s] = Cardinality(Of(s))
    <3>1. s # {} BY <2>1, NoneIsNothing
    <3> DEFINE x == First(s)  t == s \ {x}  one == {m \in M : part[m] = x}
    <3>2. x \in s /\ t \in SUBSET S /\ Cardinality(t) = k BY <1>0, <2>1, <3>1, OneIsTaken
    <3>3. it[t] = Cardinality(Of(t)) /\ g[x] = Cardinality(one) BY <1>0, <1>4, <3>2
    <3>4. it[s] = g[x] + it[t] BY <1>2, <3>1 DEF Adds
    <3>5. Of(s) = one \cup Of(t) BY <3>2
    <3>6. one \cap Of(t) = {} OBVIOUS
    <3>7. one \in SUBSET M /\ Of(t) \in SUBSET M OBVIOUS
    <3> HIDE DEF one, Of, x, t, G
    <3>9. IsFiniteSet(M) BY <1>0
    <3>8. /\ IsFiniteSet(one \cup Of(t)) /\ Cardinality(one) \in Nat /\ Cardinality(Of(t)) \in Nat
          /\ Cardinality(one \cup Of(t)) = Cardinality(one) + Cardinality(Of(t))
      <4>8. TwoOf(M, one, Of(t)) BY <3>6, <3>7, <3>9 DEF TwoOf
      <4> QED BY <4>8, TwoParts DEF TwoAddUp
    <3> QED BY <3>3, <3>4, <3>5, <3>8
  <2> QED BY <2>1
<1>5. Cardinality(S) \in Nat BY <1>0, FS_CardinalityType
<1>6. Cardinality(S) \in G(it)
  <2> HIDE DEF G
  <2> QED BY <1>3, <1>4, <1>5, AllNumbers
<1> QED BY <1>1, <1>6 DEF AddsUp

(* Sums of numbers without one of them, of the same numbers, and term by    *)
(* term.                                                                    *)
LEMMA SumWithout ==
  ASSUME NEW S, IsFiniteSet(S), NEW g, \A x \in S : g[x] \in Nat, NEW y \in S
  PROVE  SumOver(g, S) \in Nat /\ SumOver(g, S \ {y}) \in Nat /\ SumOver(g, S) = g[y] + SumOver(g, S \ {y})
<1> DEFINE piece == [x \in S |-> {x} \X (1..g[x])]
           M == UNION Range(piece)
           part == [m \in M |-> m[1]]
<1>1. \A x \in S : IsFiniteSet(piece[x]) /\ Cardinality(piece[x]) = g[x]
  <2>1. ASSUME NEW x \in S PROVE IsFiniteSet({x} \X (1..g[x])) /\ Cardinality({x} \X (1..g[x])) = g[x]
    <3>1. g[x] \in Nat OBVIOUS
    <3>2. \A b \in Nat : IsFiniteSet(1..b) /\ Cardinality(1..b) = IF 1 > b THEN 0 ELSE b - 1 + 1
      BY FS_Interval
    <3>3. IsFiniteSet(1..g[x]) /\ Cardinality(1..g[x]) = g[x] BY <3>1, <3>2
    <3>4. IsFiniteSet({x}) /\ Cardinality({x}) = 1 BY FS_Singleton
    <3>5. IsFiniteSet({x} \X (1..g[x])) /\ Cardinality({x} \X (1..g[x])) = Cardinality({x}) * Cardinality(1..g[x])
      BY <3>3, <3>4, FS_Product
    <3> QED BY <3>1, <3>3, <3>4, <3>5
  <2> QED BY <2>1
<1>2. IsFiniteSet(M)
  <2>1. piece \in Surjection(S, Range(piece)) BY DEF Surjection, Range
  <2>2. IsFiniteSet(Range(piece))
    <3> HIDE DEF piece
    <3> QED BY <2>1, FS_Surjection
  <2>3. \A T \in Range(piece) : IsFiniteSet(T) BY <1>1 DEF Range
  <2> HIDE DEF piece
  <2> QED BY <2>2, <2>3, FS_UNION
<1>3. \A x \in S : piece[x] = {m \in M : part[m] = x} BY DEF Range
<1>4. ASSUME NEW T \in SUBSET S PROVE SumOver(g, T) = Cardinality({m \in M : part[m] \in T})
  <2>1. IsFiniteSet(T) BY Fewer
  <2>2. \A x \in T : g[x] = Cardinality({m \in M : part[m] = x}) BY <1>1, <1>3
  <2> HIDE DEF M, part, piece
  <2>3. CountsParts(g, T, M, part) BY <1>2, <2>1, <2>2 DEF CountsParts
  <2>4. AddsUp(g, T, M, part) BY <2>3, SumOfParts
  <2> QED BY <2>4 DEF AddsUp
<1> DEFINE A == {m \in M : part[m] = y}
           B == {m \in M : part[m] \in S \ {y}}
<1>5. Cardinality(A) = g[y] /\ SumOver(g, S) = Cardinality({m \in M : part[m] \in S}) /\ SumOver(g, S \ {y}) = Cardinality(B)
  BY <1>1, <1>3, <1>4
<1>6. {m \in M : part[m] \in S} = A \cup B OBVIOUS
<1>7. A \cap B = {} OBVIOUS
<1>8. A \in SUBSET M /\ B \in SUBSET M OBVIOUS
<1>9. SumOver(g, S) = Cardinality(A \cup B) BY <1>5, <1>6
<1> HIDE DEF A, B, M, part, piece
<1>10. /\ IsFiniteSet(A \cup B) /\ Cardinality(A) \in Nat /\ Cardinality(B) \in Nat
       /\ Cardinality(A \cup B) = Cardinality(A) + Cardinality(B)
  <2>8. TwoOf(M, A, B) BY <1>2, <1>7, <1>8 DEF TwoOf
  <2> QED BY <2>8, TwoParts DEF TwoAddUp
<1> QED BY <1>5, <1>9, <1>10

LEMMA SumsAlike ==
  ASSUME NEW S, IsFiniteSet(S), NEW f, NEW g, \A x \in S : f[x] = g[x]
  PROVE  SumOver(f, S) = SumOver(g, S)
<1> DEFINE G(it, to) == {k \in Nat : \A s \in SUBSET S : Cardinality(s) = k => it[s] = to[s]}
<1>1. PICK it : Summed(it, f, S) /\ SumOver(f, S) = it[S]
  BY SumIs
<1>2. PICK to : Summed(to, g, S) /\ SumOver(g, S) = to[S]
  BY SumIs
<1>3. \A s \in SUBSET S : it[s] = Adds(it, f, s) /\ to[s] = Adds(to, g, s)
  BY <1>1, <1>2 DEF Summed
<1>4. 0 \in G(it, to)
  <2>1. ASSUME NEW s \in SUBSET S, Cardinality(s) = 0 PROVE it[s] = to[s]
    <3>1. s = {} BY <2>1, OneIsTaken
    <3> QED BY <1>3, <3>1 DEF Adds
  <2> QED BY <2>1
<1>5. ASSUME NEW k \in Nat, k \in G(it, to) PROVE k + 1 \in G(it, to)
  <2>1. ASSUME NEW s \in SUBSET S, Cardinality(s) = k + 1 PROVE it[s] = to[s]
    <3>1. s # {} BY <2>1, NoneIsNothing
    <3>2. First(s) \in S /\ s \ {First(s)} \in SUBSET S /\ Cardinality(s \ {First(s)}) = k
      BY <2>1, <3>1, OneIsTaken
    <3>3. it[s \ {First(s)}] = to[s \ {First(s)}] /\ f[First(s)] = g[First(s)]
      BY <1>5, <3>2
    <3> QED BY <1>3, <3>1, <3>3 DEF Adds
  <2> QED BY <2>1
<1>6. Cardinality(S) \in Nat BY FS_CardinalityType
<1>7. Cardinality(S) \in G(it, to)
  <2> HIDE DEF G
  <2> QED BY <1>4, <1>5, <1>6, AllNumbers
<1> QED BY <1>1, <1>2, <1>7

LEMMA SumOfDifferences ==
  ASSUME NEW S, IsFiniteSet(S), NEW f, NEW g, NEW h, \A x \in S : g[x] \in Nat /\ h[x] \in Nat /\ f[x] = g[x] - h[x]
  PROVE  SumOver(f, S) = SumOver(g, S) - SumOver(h, S)
<1> DEFINE G(it, a, b) == {k \in Nat : \A s \in SUBSET S : Cardinality(s) = k => a[s] \in Nat /\ b[s] \in Nat /\ it[s] = a[s] - b[s]}
<1>1. PICK it : Summed(it, f, S) /\ SumOver(f, S) = it[S]
  BY SumIs
<1>2. PICK a : Summed(a, g, S) /\ SumOver(g, S) = a[S]
  BY SumIs
<1>3. PICK b : Summed(b, h, S) /\ SumOver(h, S) = b[S]
  BY SumIs
<1>4. \A s \in SUBSET S : it[s] = Adds(it, f, s) /\ a[s] = Adds(a, g, s) /\ b[s] = Adds(b, h, s)
  BY <1>1, <1>2, <1>3 DEF Summed
<1>5. 0 \in G(it, a, b)
  <2>1. ASSUME NEW s \in SUBSET S, Cardinality(s) = 0 PROVE it[s] = 0 /\ a[s] = 0 /\ b[s] = 0
    <3>1. s = {} BY <2>1, OneIsTaken
    <3> QED BY <1>4, <3>1 DEF Adds
  <2> QED BY <2>1
<1>6. ASSUME NEW k \in Nat, k \in G(it, a, b) PROVE k + 1 \in G(it, a, b)
  <2>1. ASSUME NEW s \in SUBSET S, Cardinality(s) = k + 1 PROVE a[s] \in Nat /\ b[s] \in Nat /\ it[s] = a[s] - b[s]
    <3>1. s # {} BY <2>1, NoneIsNothing
    <3> DEFINE x == First(s)  t == s \ {x}
    <3>2. x \in S /\ t \in SUBSET S /\ Cardinality(t) = k BY <2>1, <3>1, OneIsTaken
    <3>3. a[t] \in Nat /\ b[t] \in Nat /\ it[t] = a[t] - b[t] BY <1>6, <3>2
    <3>4. g[x] \in Nat /\ h[x] \in Nat /\ f[x] = g[x] - h[x] BY <3>2
    <3>5. it[s] = f[x] + it[t] /\ a[s] = g[x] + a[t] /\ b[s] = h[x] + b[t]
      BY <1>4, <3>1 DEF Adds
    <3> HIDE DEF x, t
    <3> QED BY <3>3, <3>4, <3>5
  <2> QED BY <2>1
<1>7. Cardinality(S) \in Nat BY FS_CardinalityType
<1>8. Cardinality(S) \in G(it, a, b)
  <2> HIDE DEF G
  <2> QED BY <1>5, <1>6, <1>7, AllNumbers
<1> QED BY <1>1, <1>2, <1>3, <1>8

------------------------------------------------------------------------------
(* The scores of the detection. *)

(* A confusion counts, for every cell, the pairs that fall in it. *)
Tallied(counts, M, key) ==
  /\ IsFiniteSet(M) /\ \A m \in M : key[m] = <<key[m][1], key[m][2]>>
  /\ DOMAIN counts = {key[m] : m \in M}
  /\ \A c \in DOMAIN counts : counts[c] = Cardinality({m \in M : key[m] = c})

LEMMA CellIs ==
  ASSUME NEW counts, NEW M, NEW key, Tallied(counts, M, key), NEW g, NEW f
  PROVE  CellOf(counts, g, f) = Cardinality({m \in M : key[m] = <<g, f>>})
<1>1. CASE <<g, f>> \in DOMAIN counts
  BY <1>1 DEF Tallied, CellOf
<1>2. CASE <<g, f>> \notin DOMAIN counts
  <2>1. {m \in M : key[m] = <<g, f>>} = {} BY <1>2 DEF Tallied
  <2>2. Cardinality({}) = 0 BY FS_EmptySet
  <2> QED BY <1>2, <2>1, <2>2 DEF CellOf
<1> QED BY <1>1, <1>2

(* One more pair, one more in its cell. *)
LEMMA HitCounts ==
  ASSUME NEW counts, NEW M, NEW key, Tallied(counts, M, key), NEW x, x \notin M, NEW g, NEW f, key[x] = <<g, f>>
  PROVE  Tallied(Hit(counts, g, f), M \cup {x}, key)
<1> DEFINE now == Hit(counts, g, f)  N == M \cup {x}  In(S, c) == {m \in S : key[m] = c}
<1>1. IsFiniteSet(M) /\ IsFiniteSet(N) BY FS_AddElement DEF Tallied
<1>2. \A m \in N : key[m] = <<key[m][1], key[m][2]>> BY DEF Tallied
<1>3. DOMAIN now = {key[m] : m \in N} BY DEF Tallied, Hit
<1>4. ASSUME NEW c \in DOMAIN now PROVE now[c] = Cardinality(In(N, c))
  <2>1. c = <<c[1], c[2]>> BY <1>2, <1>3
  <2>2. CellOf(counts, c[1], c[2]) = Cardinality(In(M, c)) BY <2>1, CellIs
  <2>3. now[c] = CellOf(counts, c[1], c[2]) + (IF c = <<g, f>> THEN 1 ELSE 0)
    BY <1>4 DEF Hit
  <2>4. IsFiniteSet(In(M, c)) /\ Cardinality(In(M, c)) \in Nat BY <1>1, Fewer
  <2>5. CASE c = <<g, f>>
    <3>1. In(N, c) = In(M, c) \cup {x} /\ x \notin In(M, c) BY <2>5
    <3> HIDE DEF In
    <3>2. Cardinality(In(M, c) \cup {x}) = Cardinality(In(M, c)) + 1
      BY <2>4, <3>1, FS_AddElement
    <3> QED BY <2>2, <2>3, <2>5, <3>1, <3>2
  <2>6. CASE c # <<g, f>>
    <3>1. In(N, c) = In(M, c) BY <2>6
    <3> HIDE DEF In
    <3> QED BY <2>2, <2>3, <2>4, <2>6, <3>1
  <2> QED BY <2>5, <2>6
<1> HIDE DEF now, N
<1>5. Tallied(now, N, key) BY <1>1, <1>2, <1>3, <1>4 DEF Tallied
<1> QED BY <1>5 DEF now, N

(* What is summed over cells, over a row, over all of them. *)
LEMMA CellsAddUp ==
  ASSUME NEW counts, NEW M, NEW key, Tallied(counts, M, key)
  PROVE  /\ IsFiniteSet(DOMAIN counts)
         /\ \A C \in SUBSET DOMAIN counts : SumOver(counts, C) = Cardinality({m \in M : key[m] \in C})
         /\ \A g : Support(counts, g) = Cardinality({m \in M : key[m][1] = g})
         /\ TotalOf(counts) = Cardinality(M)
<1> DEFINE to == [m \in M |-> key[m]]
<1>0. IsFiniteSet(M) /\ DOMAIN counts = {key[m] : m \in M} BY DEF Tallied
<1>1. IsFiniteSet(DOMAIN counts)
  <2>1. to \in Surjection(M, DOMAIN counts) BY <1>0 DEF Surjection
  <2> HIDE DEF to
  <2> QED BY <1>0, <2>1, FS_Surjection
<1>2. ASSUME NEW C \in SUBSET DOMAIN counts PROVE SumOver(counts, C) = Cardinality({m \in M : key[m] \in C})
  <2>1. IsFiniteSet(C) BY <1>1, Fewer
  <2>2. \A c \in C : counts[c] = Cardinality({m \in M : key[m] = c}) BY DEF Tallied
  <2>3. CountsParts(counts, C, M, key) BY <1>0, <2>1, <2>2 DEF CountsParts
  <2>4. AddsUp(counts, C, M, key) BY <2>3, SumOfParts
  <2> QED BY <2>4 DEF AddsUp
<1>3. ASSUME NEW g PROVE Support(counts, g) = Cardinality({m \in M : key[m][1] = g})
  <2> DEFINE C == {c \in DOMAIN counts : c[1] = g}
  <2>1. SumOver(counts, C) = Cardinality({m \in M : key[m] \in C}) BY <1>2
  <2>2. {m \in M : key[m] \in C} = {m \in M : key[m][1] = g} BY <1>0
  <2> QED BY <2>1, <2>2 DEF Support
<1>4. TotalOf(counts) = Cardinality(M)
  <2> DEFINE golds == {c[1] : c \in DOMAIN counts}
             first == [m \in M |-> key[m][1]]
  <2>1. first \in Surjection(M, golds) BY <1>0 DEF Surjection
  <2>2. IsFiniteSet(golds)
    <3> HIDE DEF first, golds
    <3> QED BY <1>0, <2>1, FS_Surjection
  <2>3. ASSUME NEW g \in golds PROVE Supports(counts)[g] = Cardinality({m \in M : first[m] = g})
    <3>1. {m \in M : first[m] = g} = {m \in M : key[m][1] = g} OBVIOUS
    <3>2. Supports(counts)[g] = Support(counts, g) BY DEF Supports
    <3> QED BY <1>3, <3>1, <3>2
  <2>4. {m \in M : first[m] \in golds} = M BY <1>0
  <2>5. DOMAIN Supports(counts) = golds BY DEF Supports
  <2> HIDE DEF golds, first
  <2>6. CountsParts(Supports(counts), golds, M, first) BY <1>0, <2>2, <2>3 DEF CountsParts
  <2>7. AddsUp(Supports(counts), golds, M, first) BY <2>6, SumOfParts
  <2>8. SumOver(Supports(counts), golds) = Cardinality({m \in M : first[m] \in golds})
    BY <2>7 DEF AddsUp
  <2> QED BY <2>4, <2>5, <2>8 DEF TotalOf
<1> QED BY <1>1, <1>2, <1>3, <1>4

(* The diagonal. *)
LEMMA CorrectIs ==
  ASSUME NEW counts, NEW M, NEW key, Tallied(counts, M, key), NEW labels, IsFiniteSet(labels)
  PROVE  CorrectOf(counts, labels) = Cardinality({m \in M : key[m][1] = key[m][2] /\ key[m][1] \in labels})
<1> DEFINE D == {m \in M : key[m][1] = key[m][2]}
           part == [m \in D |-> key[m][1]]
           g == [l \in labels |-> CellOf(counts, l, l)]
<1>1. IsFiniteSet(D) BY Fewer DEF Tallied
<1>2. ASSUME NEW l \in labels PROVE g[l] = Cardinality({m \in D : part[m] = l})
  <2>1. {m \in D : part[m] = l} = {m \in M : key[m] = <<l, l>>} BY DEF Tallied
  <2>2. g[l] = CellOf(counts, l, l) OBVIOUS
  <2>3. CellOf(counts, l, l) = Cardinality({m \in M : key[m] = <<l, l>>}) BY CellIs
  <2> HIDE DEF D, part, g
  <2> QED BY <2>1, <2>2, <2>3
<1>3. {m \in D : part[m] \in labels} = {m \in M : key[m][1] = key[m][2] /\ key[m][1] \in labels}
  OBVIOUS
<1>4. CorrectOf(counts, labels) = SumOver(g, labels) BY DEF CorrectOf
<1> HIDE DEF D, part, g
<1>5. CountsParts(g, labels, D, part) BY <1>1, <1>2 DEF CountsParts
<1>6. AddsUp(g, labels, D, part) BY <1>5, SumOfParts
<1> QED BY <1>3, <1>4, <1>6 DEF AddsUp

(* A row or a column of cells. *)
LEMMA RowIs ==
  ASSUME NEW counts, NEW M, NEW key, Tallied(counts, M, key), NEW S, IsFiniteSet(S)
  PROVE  /\ \A g : SumOver([c \in S |-> CellOf(counts, g, c)], S) = Cardinality({m \in M : key[m][1] = g /\ key[m][2] \in S})
         /\ \A c : SumOver([g \in S |-> CellOf(counts, g, c)], S) = Cardinality({m \in M : key[m][2] = c /\ key[m][1] \in S})
<1>1. ASSUME NEW g PROVE SumOver([c \in S |-> CellOf(counts, g, c)], S) = Cardinality({m \in M : key[m][1] = g /\ key[m][2] \in S})
  <2> DEFINE D == {m \in M : key[m][1] = g}
             part == [m \in D |-> key[m][2]]
             f == [c \in S |-> CellOf(counts, g, c)]
  <2>1. IsFiniteSet(D) BY Fewer DEF Tallied
  <2>2. ASSUME NEW c \in S PROVE f[c] = Cardinality({m \in D : part[m] = c})
    <3>1. {m \in D : part[m] = c} = {m \in M : key[m] = <<g, c>>} BY DEF Tallied
    <3>2. f[c] = CellOf(counts, g, c) OBVIOUS
    <3>3. CellOf(counts, g, c) = Cardinality({m \in M : key[m] = <<g, c>>})
      BY CellIs, SMTT(30)
    <3> HIDE DEF D, part, f
    <3> QED BY <3>1, <3>2, <3>3
  <2>3. {m \in D : part[m] \in S} = {m \in M : key[m][1] = g /\ key[m][2] \in S} OBVIOUS
  <2> HIDE DEF D, part, f
  <2>4. CountsParts(f, S, D, part) BY <2>1, <2>2 DEF CountsParts
  <2>5. AddsUp(f, S, D, part) BY <2>4, SumOfParts
  <2>6. SumOver(f, S) = Cardinality({m \in M : key[m][1] = g /\ key[m][2] \in S})
    BY <2>3, <2>5 DEF AddsUp
  <2> QED BY <2>6 DEF f
<1>2. ASSUME NEW c PROVE SumOver([g \in S |-> CellOf(counts, g, c)], S) = Cardinality({m \in M : key[m][2] = c /\ key[m][1] \in S})
  <2> DEFINE D == {m \in M : key[m][2] = c}
             part == [m \in D |-> key[m][1]]
             f == [g \in S |-> CellOf(counts, g, c)]
  <2>1. IsFiniteSet(D) BY Fewer DEF Tallied
  <2>2. ASSUME NEW g \in S PROVE f[g] = Cardinality({m \in D : part[m] = g})
    <3>1. {m \in D : part[m] = g} = {m \in M : key[m] = <<g, c>>} BY DEF Tallied
    <3>2. f[g] = CellOf(counts, g, c) OBVIOUS
    <3>3. CellOf(counts, g, c) = Cardinality({m \in M : key[m] = <<g, c>>}) BY CellIs
    <3> HIDE DEF D, part, f
    <3> QED BY <3>1, <3>2, <3>3
  <2>3. {m \in D : part[m] \in S} = {m \in M : key[m][2] = c /\ key[m][1] \in S} OBVIOUS
  <2> HIDE DEF D, part, f
  <2>4. CountsParts(f, S, D, part) BY <2>1, <2>2 DEF CountsParts
  <2>5. AddsUp(f, S, D, part) BY <2>4, SumOfParts
  <2>6. SumOver(f, S) = Cardinality({m \in M : key[m][2] = c /\ key[m][1] \in S})
    BY <2>3, <2>5 DEF AddsUp
  <2> QED BY <2>6 DEF f
<1> QED BY <1>1, <1>2

(* Whatever was predicted has a column, and there are finitely many. *)
LEMMA ColumnsAre ==
  ASSUME NEW counts, NEW M, NEW key, Tallied(counts, M, key), NEW labels, IsFiniteSet(labels)
  PROVE  IsFiniteSet(Columns(counts, labels)) /\ labels \subseteq Columns(counts, labels) /\ \A m \in M : key[m][2] \in Columns(counts, labels)
<1> DEFINE second == {c[2] : c \in DOMAIN counts}
           to == [m \in M |-> key[m][2]]
<1>1. IsFiniteSet(M) /\ DOMAIN counts = {key[m] : m \in M} BY DEF Tallied
<1>2. to \in Surjection(M, second) BY <1>1 DEF Surjection
<1>3. IsFiniteSet(second)
  <2> HIDE DEF to, second
  <2> QED BY <1>1, <1>2, FS_Surjection
<1>4. Columns(counts, labels) = labels \cup second BY DEF Columns
<1>5. IsFiniteSet(labels \cup second)
  <2> HIDE DEF to, second
  <2> QED BY <1>3, FS_Union
<1> QED BY <1>1, <1>4, <1>5

(* The rows sum to the whole, and misses and excesses balance. *)
LEMMA Balanced ==
  ASSUME NEW counts, NEW M, NEW key, Tallied(counts, M, key), NEW labels, IsFiniteSet(labels), \A m \in M : key[m][1] \in labels
  PROVE  RowsSum(counts, labels) /\ MissesBalance(counts, labels)
<1> DEFINE cols == Columns(counts, labels)
           row == [l \in labels |-> PerLabel(counts, l)]
           Gold1(l) == {m \in M : key[m][1] = l}
           Found(l) == {m \in M : key[m][2] = l}
           within == {m \in M : key[m][2] \in labels}
           without == {m \in M : key[m][2] \notin labels}
           support == [l \in labels |-> Cardinality(Gold1(l))]
           predicted == [l \in labels |-> Cardinality(Found(l))]
           first == [m \in M |-> key[m][1]]
           second == [m \in M |-> key[m][2]]
<1>1. IsFiniteSet(M) /\ \A m \in M : key[m] = <<key[m][1], key[m][2]>> BY DEF Tallied
<1>2. IsFiniteSet(cols) /\ labels \subseteq cols /\ \A m \in M : key[m][2] \in cols
  BY ColumnsAre
<1>3. RowsSum(counts, labels)
  <2>1. SUFFICES ASSUME NEW g \in labels PROVE Support(counts, g) = SumOver([c \in cols |-> CellOf(counts, g, c)], cols)
    BY DEF RowsSum
  <2>2. {m \in M : key[m][1] = g /\ key[m][2] \in cols} = Gold1(g) BY <1>2
  <2>3. Support(counts, g) = Cardinality(Gold1(g)) BY CellsAddUp
  <2> HIDE DEF cols, Gold1
  <2>4. SumOver([c \in cols |-> CellOf(counts, g, c)], cols) = Cardinality({m \in M : key[m][1] = g /\ key[m][2] \in cols})
    BY <1>2, RowIs
  <2> QED BY <2>2, <2>3, <2>4
<1>4. ASSUME NEW l \in labels
      PROVE  /\ row[l].tp \in Nat /\ row[l].fn \in Int /\ row[l].fp \in Nat
             /\ row[l].tp = CellOf(counts, l, l) /\ row[l].tp + row[l].fn = support[l] /\ row[l].fn - row[l].fp = support[l] - predicted[l]
             /\ support[l] \in Nat /\ predicted[l] \in Nat
  <2> DEFINE both == {m \in M : key[m] = <<l, l>>}
             wrongly == {m \in M : key[m][1] # l /\ key[m][2] = l}
             C == {c \in DOMAIN counts : c[1] # l /\ c[2] = l}
  <2>1. row[l].tp = CellOf(counts, l, l) /\ row[l].fn = Support(counts, l) - CellOf(counts, l, l) /\ row[l].fp = SumOver(counts, C)
    BY DEF PerLabel
  <2>2. CellOf(counts, l, l) = Cardinality(both) BY CellIs
  <2>3. Support(counts, l) = Cardinality(Gold1(l)) BY CellsAddUp
  <2>4. SumOver(counts, C) = Cardinality(wrongly)
    <3>1. SumOver(counts, C) = Cardinality({m \in M : key[m] \in C}) BY CellsAddUp
    <3>2. {m \in M : key[m] \in C} = wrongly BY DEF Tallied
    <3> QED BY <3>1, <3>2
  <2>5. Found(l) = both \cup wrongly BY <1>1
  <2>6. both \cap wrongly = {} BY <1>1
  <2>7. both \in SUBSET M /\ wrongly \in SUBSET M /\ Gold1(l) \in SUBSET M OBVIOUS
  <2>8. support[l] = Cardinality(Gold1(l)) /\ predicted[l] = Cardinality(Found(l)) OBVIOUS
  <2> HIDE DEF both, wrongly, C, Gold1, Found, support, predicted, row
  <2>9. Cardinality(both) \in Nat /\ Cardinality(wrongly) \in Nat /\ Cardinality(Gold1(l)) \in Nat
    BY <1>1, <2>7, Fewer
  <2>10. /\ IsFiniteSet(both \cup wrongly) /\ Cardinality(both) \in Nat /\ Cardinality(wrongly) \in Nat
         /\ Cardinality(both \cup wrongly) = Cardinality(both) + Cardinality(wrongly)
    <3>1. IsFiniteSet(M) BY <1>1
    <3>8. TwoOf(M, both, wrongly) BY <3>1, <2>6, <2>7 DEF TwoOf
    <3> QED BY <3>8, TwoParts DEF TwoAddUp
  <2> QED BY <2>1, <2>2, <2>3, <2>4, <2>5, <2>8, <2>9, <2>10
<1>5. SumOver([l \in labels |-> row[l].tp], labels) = CorrectOf(counts, labels)
  <2>1. [l \in labels |-> row[l].tp] = [l \in labels |-> CellOf(counts, l, l)]
    <3> HIDE DEF row
    <3> QED BY <1>4
  <2> HIDE DEF row
  <2> QED BY <2>1 DEF CorrectOf
<1>6. SumOver(support, labels) = Cardinality(M)
  <2>1. \A l \in labels : support[l] = Cardinality({m \in M : first[m] = l})
    <3>1. \A l \in labels : {m \in M : first[m] = l} = Gold1(l) /\ support[l] = Cardinality(Gold1(l))
      OBVIOUS
    <3> HIDE DEF first, support, Gold1
    <3> QED BY <3>1
  <2>2. {m \in M : first[m] \in labels} = M OBVIOUS
  <2> HIDE DEF first, support
  <2>3. CountsParts(support, labels, M, first) BY <1>1, <2>1 DEF CountsParts
  <2>4. AddsUp(support, labels, M, first) BY <2>3, SumOfParts
  <2> QED BY <2>2, <2>4 DEF AddsUp
<1>7. SumOver(predicted, labels) = Cardinality(within)
  <2>1. \A l \in labels : predicted[l] = Cardinality({m \in M : second[m] = l})
    <3>1. \A l \in labels : {m \in M : second[m] = l} = Found(l) /\ predicted[l] = Cardinality(Found(l))
      OBVIOUS
    <3> HIDE DEF second, predicted, Found
    <3> QED BY <3>1
  <2>2. {m \in M : second[m] \in labels} = within OBVIOUS
  <2> HIDE DEF second, predicted, within
  <2>3. CountsParts(predicted, labels, M, second) BY <1>1, <2>1 DEF CountsParts
  <2>4. AddsUp(predicted, labels, M, second) BY <2>3, SumOfParts
  <2> QED BY <2>2, <2>4 DEF AddsUp
<1>8. SumOver([l \in labels |-> row[l].tp + row[l].fn], labels) = TotalOf(counts)
  <2>1. [l \in labels |-> row[l].tp + row[l].fn] = support
    <3>1. support = [l \in labels |-> support[l]] OBVIOUS
    <3> HIDE DEF row, support
    <3> QED BY <1>4, <3>1
  <2>2. TotalOf(counts) = Cardinality(M) BY CellsAddUp
  <2> QED BY <1>6, <2>1, <2>2
<1>9. SumOver([l \in labels |-> row[l].fn - row[l].fp], labels) = Cardinality(without)
  <2> DEFINE f == [l \in labels |-> row[l].fn - row[l].fp]
  <2>1. \A l \in labels : support[l] \in Nat /\ predicted[l] \in Nat /\ f[l] = support[l] - predicted[l]
    <3>1. \A l \in labels : f[l] = row[l].fn - row[l].fp OBVIOUS
    <3> HIDE DEF f, support, predicted, row
    <3> QED BY <1>4, <3>1
  <2>2. M = within \cup without OBVIOUS
  <2>3. within \cap without = {} OBVIOUS
  <2>4. within \in SUBSET M /\ without \in SUBSET M OBVIOUS
  <2> HIDE DEF f, support, predicted, row, within, without
  <2>5. SumOver(f, labels) = SumOver(support, labels) - SumOver(predicted, labels)
    BY <2>1, SumOfDifferences
  <2>6. /\ IsFiniteSet(within \cup without) /\ Cardinality(within) \in Nat /\ Cardinality(without) \in Nat
        /\ Cardinality(within \cup without) = Cardinality(within) + Cardinality(without)
    <3>1. IsFiniteSet(M) BY <1>1
    <3>8. TwoOf(M, within, without) BY <3>1, <2>3, <2>4 DEF TwoOf
    <3> QED BY <3>8, TwoParts DEF TwoAddUp
  <2>8. SumOver(support, labels) = Cardinality(within \cup without) BY <1>6, <2>2
  <2>7. SumOver(f, labels) = Cardinality(without) BY <1>7, <2>5, <2>6, <2>8
  <2> QED BY <2>7 DEF f
<1>10. Outside(counts, labels) = Cardinality(without)
  <2> DEFINE S == cols \ labels
             f == [c \in S |-> SumOver([g \in labels |-> CellOf(counts, g, c)], labels)]
  <2>1. \A c \in S : f[c] = Cardinality({m \in M : second[m] = c})
    <3>1. ASSUME NEW c \in S PROVE f[c] = Cardinality({m \in M : second[m] = c})
      <4>1. SumOver([g \in labels |-> CellOf(counts, g, c)], labels) = Cardinality({m \in M : key[m][2] = c /\ key[m][1] \in labels})
        BY RowIs
      <4>2. {m \in M : key[m][2] = c /\ key[m][1] \in labels} = {m \in M : second[m] = c} OBVIOUS
      <4>3. f[c] = SumOver([g \in labels |-> CellOf(counts, g, c)], labels) OBVIOUS
      <4> HIDE DEF f, second
      <4> QED BY <4>1, <4>2, <4>3
    <3> QED BY <3>1
  <2>2. {m \in M : second[m] \in S} = without BY <1>2
  <2>3. IsFiniteSet(S) BY <1>2, FS_Difference
  <2>4. Outside(counts, labels) = SumOver(f, S) BY DEF Outside
  <2> HIDE DEF f, S, second, without
  <2>5. CountsParts(f, S, M, second) BY <1>1, <2>1, <2>3 DEF CountsParts
  <2>6. AddsUp(f, S, M, second) BY <2>5, SumOfParts
  <2> QED BY <2>2, <2>4, <2>6 DEF AddsUp
<1>11. MissesBalance(counts, labels) BY <1>5, <1>8, <1>9, <1>10 DEF MissesBalance
<1> QED BY <1>3, <1>11

(* The labels are finitely many. *)
LEMMA LabelsFinite == IsFiniteSet(TypeLabels) /\ IsFiniteSet(RelationLabels)
<1>1. \A x : IsFiniteSet({x}) BY FS_Singleton
<1>2. \A S, T : IsFiniteSet(S) /\ IsFiniteSet(T) => IsFiniteSet(S \cup T)
  BY FS_Union
<1>3. /\ TypeLabels = {"no_conflict"} \cup ({"factual"} \cup ({"temporal"} \cup ({"opinion"} \cup {"conditional"})))
      /\ RelationLabels = {"refinement"} \cup ({"disjoint"} \cup ({"redundant"} \cup {"opposed"}))
  BY DEF TypeLabels, RelationLabels
<1>4. IsFiniteSet({"no_conflict"} \cup ({"factual"} \cup ({"temporal"} \cup ({"opinion"} \cup {"conditional"}))))
  BY <1>1, <1>2
<1>5. IsFiniteSet({"refinement"} \cup ({"disjoint"} \cup ({"redundant"} \cup {"opposed"})))
  BY <1>1, <1>2
<1> QED BY <1>3, <1>4, <1>5

(* A pair that was scored, with what was found of it, and where it counts. *)
Pairings == (DOMAIN GoldPairs) \X Findings
TypeCell == [m \in Pairings |-> <<GoldPairs[m[1]].type, m[2].type>>]
RelationCell == [m \in Pairings |-> <<GoldPairs[m[1]].relation, m[2].relation>>]
RowCell == [m \in Pairings |-> RowOf(GoldPairs[m[1]])]
TierCell == [m \in Pairings |-> GoldPairs[m[1]].tier]
Related == {m \in matched : GoldPairs[m[1]].relation # NoRelation}
InTier(t) == {m \in matched : TierCell[m] = t}
PutDown(v) == {m \in matched : Verdict(GoldPairs[m[1]], m[2]) = v}

ClassOK ==
  /\ passed \in Nat /\ IsFiniteSet(matched) /\ matched \subseteq Pairings
  /\ \A m \in matched : m[1] <= passed /\ GoldPairs[m[1]].type # Silent
  /\ \A m, e \in matched : m[1] = e[1] => m = e
  /\ Tallied(types, matched, TypeCell) /\ Tallied(relations, Related, RelationCell)
  /\ DOMAIN byTier = {TierCell[m] : m \in matched}
  /\ \A t \in DOMAIN byTier : Tallied(byTier[t], InTier(t), TypeCell)
  /\ DOMAIN binary = {"tp", "fp", "fn", "tn"} /\ \A v \in DOMAIN binary : binary[v] = Cardinality(PutDown(v))

(* Pairs are numbered. *)
LEMMA PairsAre == Len(GoldPairs) \in Nat /\ DOMAIN GoldPairs = 1..Len(GoldPairs) /\ \A m \in Pairings : m[1] \in DOMAIN GoldPairs /\ m[1] \in Nat
<1>1. Len(GoldPairs) \in Nat /\ DOMAIN GoldPairs = 1..Len(GoldPairs)
  BY GoldPairsAssumption DEF GoldPairsAssumption
<1>2. \A m \in Pairings : m[1] \in DOMAIN GoldPairs BY DEF Pairings
<1> QED BY <1>1, <1>2

(* Before anything is scored. *)
LEMMA NothingTallied == \A key : Tallied(NoCells, {}, key)
  BY FS_EmptySet DEF Tallied, NoCells

LEMMA ClassInitOK == ASSUME ClassInit PROVE ClassOK
<1>0. \A key : Tallied(NoCells, {}, key) BY NothingTallied
<1>1. matched = {} /\ passed = 0 /\ binary = NoScores /\ types = NoCells /\ relations = NoCells /\ byTier = << >>
  BY DEF ClassInit
<1>2. Cardinality({}) = 0 /\ IsFiniteSet({}) BY FS_EmptySet
<1>3. Related = {} /\ \A v : PutDown(v) = {} BY <1>1 DEF Related, PutDown
<1>4. DOMAIN byTier = {} /\ {TierCell[m] : m \in matched} = {} BY <1>1
<1>5. Tallied(types, matched, TypeCell) /\ Tallied(relations, Related, RelationCell)
  BY <1>0, <1>1, <1>3
<1>6. DOMAIN binary = {"tp", "fp", "fn", "tn"} /\ \A v \in DOMAIN binary : binary[v] = Cardinality(PutDown(v))
  <2>1. \A v : Cardinality(PutDown(v)) = 0 BY <1>2, <1>3
  <2>2. DOMAIN binary = {"tp", "fp", "fn", "tn"} /\ \A v \in DOMAIN binary : binary[v] = 0
    BY <1>1 DEF NoScores
  <2> QED BY <2>1, <2>2
<1>7. passed \in Nat /\ IsFiniteSet(matched) /\ matched \subseteq Pairings BY <1>1, <1>2
<1> QED BY <1>1, <1>4, <1>5, <1>6, <1>7 DEF ClassOK

(* A pair that is scored is counted once in each of the tables. *)
LEMMA ScorePairOK ==
  ASSUME ClassOK, NEW found \in Findings, ScorePair(found)
  PROVE  ClassOK'
<1>0. PICK n : n = passed + 1 OBVIOUS
<1> DEFINE x == <<n, found>>  truth == GoldPairs[n]
<1>1. /\ passed \in Nat /\ n \in DOMAIN GoldPairs /\ truth.type # Silent /\ x \in Pairings
      /\ passed' = n /\ matched' = matched \cup {x} /\ x \notin matched
  <2>1. DOMAIN GoldPairs = 1..Len(GoldPairs) /\ Len(GoldPairs) \in Nat BY PairsAre
  <2>2. passed \in Nat /\ passed < Len(GoldPairs) BY DEF ClassOK, ScorePair
  <2>3. n \in DOMAIN GoldPairs BY <1>0, <2>1, <2>2
  <2>4. x \notin matched BY <1>0, <2>2 DEF ClassOK
  <2>5. passed' = n /\ matched' = matched \cup {x} /\ truth.type # Silent
    BY <1>0 DEF ScorePair
  <2>6. x \in Pairings BY <2>3 DEF Pairings
  <2> QED BY <2>2, <2>3, <2>4, <2>5, <2>6
<1>2. /\ TypeCell[x] = <<truth.type, found.type>> /\ RelationCell[x] = <<truth.relation, found.relation>>
      /\ TierCell[x] = truth.tier
  BY <1>1 DEF TypeCell, RelationCell, TierCell
<1> HIDE DEF x, truth
<1>3. x[1] = n /\ x[2] = found /\ GoldPairs[x[1]] = truth BY DEF x, truth
<1>4. /\ binary' = [binary EXCEPT ![Verdict(truth, found)] = @ + 1] /\ types' = Hit(types, truth.type, found.type)
      /\ ScoreRelation(truth, found) /\ ScoreInTier(truth.tier, truth, found)
  BY <1>0 DEF ScorePair, ScoreDetection, ScoreType, truth
<1>5. passed' \in Nat /\ IsFiniteSet(matched') /\ matched' \subseteq Pairings
  <2>1. IsFiniteSet(matched \cup {x}) BY FS_AddElement DEF ClassOK
  <2> QED BY <1>0, <1>1, <2>1 DEF ClassOK
<1>6. \A m \in matched' : m[1] <= passed' /\ GoldPairs[m[1]].type # Silent
  <2>1. \A m \in matched : m[1] \in Nat BY PairsAre DEF ClassOK
  <2>2. n = passed + 1 BY <1>0
  <2> QED BY <1>1, <1>3, <2>1, <2>2 DEF ClassOK
<1>7. \A m, e \in matched' : m[1] = e[1] => m = e
  <2>1. \A m \in matched : m[1] # n
    <3>1. \A m \in matched : m[1] <= passed BY DEF ClassOK
    <3> QED BY <1>0, <1>1, <3>1
  <2> QED BY <1>1, <1>3, <2>1 DEF ClassOK
<1>8. Tallied(types', matched', TypeCell)
  <2>1. Tallied(types, matched, TypeCell) BY DEF ClassOK
  <2>2. Tallied(Hit(types, truth.type, found.type), matched \cup {x}, TypeCell)
    BY <1>1, <1>2, <2>1, HitCounts
  <2> QED BY <1>1, <1>4, <2>2
<1>9. Tallied(relations', Related', RelationCell)
  <2>1. Tallied(relations, Related, RelationCell) BY DEF ClassOK
  <2>2. CASE truth.relation = NoRelation
    <3>1. relations' = relations BY <1>4, <2>2 DEF ScoreRelation
    <3>2. Related' = Related BY <1>1, <1>3, <2>2 DEF Related
    <3> QED BY <2>1, <3>1, <3>2
  <2>3. CASE truth.relation # NoRelation
    <3>1. relations' = Hit(relations, truth.relation, found.relation)
      BY <1>4, <2>3 DEF ScoreRelation
    <3>2. Related' = Related \cup {x} /\ x \notin Related BY <1>1, <1>3, <2>3 DEF Related
    <3>3. Tallied(Hit(relations, truth.relation, found.relation), Related \cup {x}, RelationCell)
      BY <1>2, <2>1, <3>2, HitCounts
    <3> QED BY <3>1, <3>2, <3>3
  <2> QED BY <2>2, <2>3
<1> DEFINE tier == truth.tier
           cells == IF tier \in DOMAIN byTier THEN byTier[tier] ELSE NoCells
<1>10. byTier' = [t \in DOMAIN byTier \cup {tier} |-> IF t = tier THEN Hit(cells, truth.type, found.type) ELSE byTier[t]]
  BY <1>4 DEF ScoreInTier
<1>11. DOMAIN byTier' = {TierCell[m] : m \in matched'}
  <2>1. DOMAIN byTier = {TierCell[m] : m \in matched} BY DEF ClassOK
  <2> HIDE DEF cells
  <2> QED BY <1>1, <1>2, <1>10, <2>1
<1>12. ASSUME NEW t \in DOMAIN byTier' PROVE Tallied(byTier'[t], InTier(t)', TypeCell)
  <2>1. CASE t = tier
    <3>1. Tallied(cells, InTier(tier), TypeCell)
      <4>1. CASE tier \in DOMAIN byTier
        BY <4>1 DEF ClassOK
      <4>2. CASE tier \notin DOMAIN byTier
        <5>1. InTier(tier) = {} BY <4>2 DEF ClassOK, InTier
        <5> QED BY <4>2, <5>1, NothingTallied
      <4> QED BY <4>1, <4>2
    <3>6. InTier(tier)' = {m \in matched' : TierCell[m] = tier} /\ InTier(t)' = {m \in matched' : TierCell[m] = t}
      BY DEF InTier, TierCell, Pairings
    <3>2. InTier(tier)' = InTier(tier) \cup {x} /\ x \notin InTier(tier)
      BY <1>1, <1>2, <3>6 DEF InTier
    <3>3. byTier'[t] = Hit(cells, truth.type, found.type) BY <1>10, <2>1
    <3> HIDE DEF cells, tier
    <3>4. Tallied(Hit(cells, truth.type, found.type), InTier(tier) \cup {x}, TypeCell)
      BY <1>2, <3>1, <3>2, HitCounts
    <3>5. InTier(t)' = InTier(tier)' BY <2>1, <3>6 DEF tier
    <3> QED BY <3>2, <3>3, <3>4, <3>5
  <2>2. CASE t # tier
    <3>1. t \in DOMAIN byTier /\ byTier'[t] = byTier[t] BY <1>10, <2>2
    <3>2. InTier(t)' = InTier(t) BY <1>1, <1>2, <2>2 DEF InTier
    <3> QED BY <3>1, <3>2 DEF ClassOK
  <2> QED BY <2>1, <2>2
<1>13. DOMAIN binary' = {"tp", "fp", "fn", "tn"} /\ \A v \in DOMAIN binary' : binary'[v] = Cardinality(PutDown(v)')
  <2> DEFINE w == Verdict(truth, found)
  <2>1. DOMAIN binary = {"tp", "fp", "fn", "tn"} /\ \A v \in DOMAIN binary : binary[v] = Cardinality(PutDown(v))
    BY DEF ClassOK
  <2>2. DOMAIN binary' = DOMAIN binary BY <1>4
  <2>3. w \in DOMAIN binary BY <2>1 DEF Verdict
  <2>4. ASSUME NEW v \in DOMAIN binary PROVE binary'[v] = Cardinality(PutDown(v)')
    <3>1. IsFiniteSet(PutDown(v)) BY Fewer DEF PutDown, ClassOK
    <3>2. CASE v = w
      <4>1. PutDown(v)' = PutDown(v) \cup {x} /\ x \notin PutDown(v)
        BY <1>1, <1>3, <3>2 DEF PutDown
      <4>2. Cardinality(PutDown(v) \cup {x}) = Cardinality(PutDown(v)) + 1
        BY <3>1, <4>1, FS_AddElement
      <4>3. binary'[v] = binary[v] + 1 BY <1>4, <2>3, <3>2
      <4> QED BY <2>1, <4>1, <4>2, <4>3
    <3>3. CASE v # w
      <4>1. PutDown(v)' = PutDown(v) BY <1>1, <1>3, <3>3 DEF PutDown
      <4>2. binary'[v] = binary[v] BY <1>4, <3>3
      <4> QED BY <2>1, <4>1, <4>2
    <3> QED BY <3>2, <3>3
  <2> QED BY <2>1, <2>2, <2>4
<1> QED BY <1>5, <1>6, <1>7, <1>8, <1>9, <1>11, <1>12, <1>13 DEF ClassOK

(* A step of the study is one of the scoring or leaves it alone. *)
LEMMA ClassApart ==
  ASSUME [StudyNext]_studyVars
  PROVE  ClassNext \/ UNCHANGED classVars
  BY DEF StudyNext, studyVars, ScoringStep, scoreVars

LEMMA ClassStepOK == ASSUME ClassOK, [StudyNext]_studyVars PROVE ClassOK'
<1>1. ASSUME UNCHANGED <<matched, binary, types, relations, byTier>>, passed' \in {passed, passed + 1} PROVE ClassOK'
  <2>1. Related' = Related /\ (\A t : InTier(t)' = InTier(t)) /\ \A v : PutDown(v)' = PutDown(v)
    BY <1>1 DEF Related, InTier, PutDown
  <2>2. passed' \in Nat /\ \A m \in matched : m[1] <= passed'
    <3>1. passed \in Nat /\ \A m \in matched : m[1] \in Nat /\ m[1] <= passed
      BY PairsAre DEF ClassOK
    <3> QED BY <1>1, <3>1
  <2> QED BY <1>1, <2>1, <2>2 DEF ClassOK
<1>2. CASE UNCHANGED classVars
  BY <1>1, <1>2 DEF classVars
<1>3. CASE PassPair
  BY <1>1, <1>3 DEF PassPair
<1>4. CASE \E found \in Findings : ScorePair(found)
  BY <1>4, ScorePairOK
<1> QED BY <1>2, <1>3, <1>4, ClassApart DEF ClassNext

(* The least of a finite set of numbers twice over. *)
LEMMA FirstTwo ==
  ASSUME NEW B, IsFiniteSet(B), B # {}, \A m \in B : m[1] \in Nat, \A m, e \in B : m[1] = e[1] => m = e
  PROVE  Cardinality({m \in B : Cardinality({e \in B : e[1] < m[1]}) < 2}) = IF Cardinality(B) > 1 THEN 2 ELSE 1
<1> DEFINE Before1(m) == {e \in B : e[1] < m[1]}
           Few == {m \in B : Cardinality(Before1(m)) < 2}
<1> SUFFICES Cardinality(Few) = IF Cardinality(B) > 1 THEN 2 ELSE 1 OBVIOUS
<1>1. \A C \in SUBSET B : C # {} => \E m \in C : \A e \in C : m[1] <= e[1]
  <2> SUFFICES ASSUME NEW C \in SUBSET B, C # {} PROVE \E m \in C : \A e \in C : m[1] <= e[1]
    OBVIOUS
  <2> DEFINE N == {m[1] : m \in C}
  <2>1. N \in SUBSET Nat /\ N # {} OBVIOUS
  <2>2. PICK k \in N : \A j \in N : k <= j
    <3> HIDE DEF N
    <3> QED BY <2>1, LeastBelow
  <2> QED BY <2>2
<1>2. PICK a \in B : \A e \in B : a[1] <= e[1]
  BY <1>1
<1>3. Before1(a) = {} /\ Cardinality(Before1(a)) = 0
  <2>1. \A e \in B : ~(e[1] < a[1]) BY <1>2
  <2>2. Before1(a) = {} BY <2>1
  <2>3. Cardinality({}) = 0 BY FS_EmptySet
  <2> QED BY <2>2, <2>3
<1>4. a \in Few BY <1>3
<1>5. CASE B = {a}
  <2>1. Few = {a} BY <1>4, <1>5
  <2>2. Cardinality({a}) = 1 BY FS_Singleton
  <2> HIDE DEF Few
  <2>3. Cardinality(Few) = 1 /\ Cardinality(B) = 1 BY <1>5, <2>1, <2>2
  <2> QED BY <2>3
<1>6. CASE B # {a}
  <2>1. PICK b \in B \ {a} : \A e \in B \ {a} : b[1] <= e[1]
    <3>1. B \ {a} # {} /\ B \ {a} \in SUBSET B BY <1>6
    <3> QED BY <1>1, <3>1
  <2>2. a[1] < b[1] BY <1>2, <2>1
  <2>3. Before1(b) = {a}
    <3>1. \A e \in B \ {a} : ~(e[1] < b[1]) BY <2>1
    <3> QED BY <2>2, <3>1
  <2>4. Cardinality({a}) = 1 /\ IsFiniteSet({a, b}) /\ Cardinality({a, b}) = 2
    BY <2>1, FS_Singleton, TwoAre
  <2>5. b \in Few
    <3>1. Cardinality(Before1(b)) = 1
      <4> HIDE DEF Before1
      <4> QED BY <2>3, <2>4
    <3> HIDE DEF Before1
    <3> QED BY <2>1, <3>1
  <2>6. ASSUME NEW c \in Few, c # a, c # b PROVE FALSE
    <3>1. c \in B /\ b[1] <= c[1] /\ b[1] # c[1] BY <2>1, <2>6
    <3>2. b[1] < c[1] /\ a[1] < c[1] BY <2>1, <2>2, <3>1
    <3>3. {a, b} \subseteq Before1(c) BY <2>1, <3>2
    <3>4. IsFiniteSet(Before1(c)) BY Fewer
    <3>5. Cardinality(Before1(c)) < 2 BY <2>6
    <3> HIDE DEF Before1, Few
    <3>6. Cardinality(Before1(c)) \in Nat /\ Cardinality({a, b}) <= Cardinality(Before1(c))
      BY <3>3, <3>4, Fewer
    <3> QED BY <2>4, <3>5, <3>6
  <2>7. Few = {a, b} BY <1>4, <2>5, <2>6
  <2>8. Cardinality(B) > 1
    <3>1. {a, b} \in SUBSET B BY <2>1
    <3> QED BY <2>4, <3>1, Fewer
  <2> QED BY <2>4, <2>7, <2>8
<1> QED BY <1>5, <1>6

(* What the cells of a scored pair say. *)
LEMMA CellsSay ==
  ASSUME ClassOK
  PROVE  /\ \A m \in matched : /\ TypeCell[m] = <<GoldPairs[m[1]].type, m[2].type>> /\ RelationCell[m] = <<GoldPairs[m[1]].relation, m[2].relation>>
                               /\ RowCell[m] = RowOf(GoldPairs[m[1]]) /\ TierCell[m] = GoldPairs[m[1]].tier /\ m[1] \in DOMAIN GoldPairs
                               /\ TypeCell[m][1] \in TypeLabels
         /\ Related \subseteq matched /\ IsFiniteSet(Related) /\ \A m \in Related : RelationCell[m][1] \in RelationLabels
<1>1. \A m \in matched : m \in Pairings /\ m[1] \in DOMAIN GoldPairs /\ GoldPairs[m[1]].type # Silent
  BY PairsAre DEF ClassOK
<1>2. \A m \in matched : /\ TypeCell[m] = <<GoldPairs[m[1]].type, m[2].type>> /\ RelationCell[m] = <<GoldPairs[m[1]].relation, m[2].relation>>
                         /\ RowCell[m] = RowOf(GoldPairs[m[1]]) /\ TierCell[m] = GoldPairs[m[1]].tier
  BY <1>1 DEF TypeCell, RelationCell, RowCell, TierCell
<1>3. \A n \in DOMAIN GoldPairs : GoldPairs[n].type \in TypeLabels \cup {Silent} /\ GoldPairs[n].relation \in RelationLabels \cup {NoRelation}
  <2>1. \A n \in DOMAIN GoldPairs : GoldPairs[n] \in Range(GoldPairs) BY DEF Range
  <2> QED BY <2>1, GoldPairsAssumption DEF GoldPairsAssumption
<1>4. Related \subseteq matched /\ \A m \in Related : GoldPairs[m[1]].relation # NoRelation
  BY DEF Related
<1>5. IsFiniteSet(Related) BY <1>4, Fewer DEF ClassOK
<1>6. \A m \in matched : TypeCell[m][1] = GoldPairs[m[1]].type /\ RelationCell[m][1] = GoldPairs[m[1]].relation
  BY <1>2
<1> QED BY <1>1, <1>2, <1>3, <1>4, <1>5, <1>6

(* The two by two table. *)
LEMMA BinaryAddsUp ==
  ASSUME ClassOK
  PROVE  /\ binary.fp + binary.tn = Support(types, "no_conflict")
         /\ binary.tp + binary.fn = TotalOf(types) - Support(types, "no_conflict")
         /\ binary.tp >= CorrectOf(types, TypeLabels \ {"no_conflict"}) + LeakedBothWays(types).conditional + LeakedBothWays(types).factual
<1> DEFINE none == {m \in matched : TypeCell[m][1] = "no_conflict"}
           some == {m \in matched : TypeCell[m][1] # "no_conflict"}
           labels == TypeLabels \ {"no_conflict"}
           correct == {m \in matched : TypeCell[m][1] = TypeCell[m][2] /\ TypeCell[m][1] \in labels}
           leaked == {m \in matched : TypeCell[m] = <<"conditional", "factual">>}
           taken == {m \in matched : TypeCell[m] = <<"factual", "conditional">>}
           tp == PutDown("tp")  fp == PutDown("fp")  fn == PutDown("fn")  tn == PutDown("tn")
<1>1. IsFiniteSet(matched) /\ Tallied(types, matched, TypeCell) BY DEF ClassOK
<1>2. binary.tp = Cardinality(tp) /\ binary.fp = Cardinality(fp) /\ binary.fn = Cardinality(fn) /\ binary.tn = Cardinality(tn)
  BY DEF ClassOK
<1>3. Support(types, "no_conflict") = Cardinality(none) /\ TotalOf(types) = Cardinality(matched)
  BY <1>1, CellsAddUp
<1>4. \A m \in matched : TypeCell[m] = <<GoldPairs[m[1]].type, m[2].type>> /\ TypeCell[m][1] \in TypeLabels
  BY CellsSay
<1>5. none = fp \cup tn BY <1>4 DEF PutDown, Verdict
<1>6. fp \cap tn = {} BY DEF PutDown
<1>7. some = tp \cup fn BY <1>4 DEF PutDown, Verdict
<1>8. tp \cap fn = {} BY DEF PutDown
<1>9. tp \in SUBSET matched /\ fp \in SUBSET matched /\ fn \in SUBSET matched /\ tn \in SUBSET matched
  BY DEF PutDown
<1>10. matched = none \cup some OBVIOUS
<1>11. none \cap some = {} OBVIOUS
<1>12. none \in SUBSET matched /\ some \in SUBSET matched /\ correct \in SUBSET matched /\ leaked \in SUBSET matched /\ taken \in SUBSET matched
  OBVIOUS
<1>13. IsFiniteSet(labels) BY LabelsFinite, FS_Difference
<1>14. CorrectOf(types, labels) = Cardinality(correct)
  <2> HIDE DEF labels
  <2> QED BY <1>1, <1>13, CorrectIs
<1>15. LeakedBothWays(types).conditional = Cardinality(leaked) /\ LeakedBothWays(types).factual = Cardinality(taken)
  <2>1. LeakedBothWays(types).conditional = CellOf(types, "conditional", "factual") /\ LeakedBothWays(types).factual = CellOf(types, "factual", "conditional")
    BY DEF LeakedBothWays
  <2> QED BY <1>1, <2>1, CellIs
<1>16. leaked \cap taken = {} BY <1>4
<1>17. correct \cap (leaked \cup taken) = {} BY <1>4
<1>18. correct \cup (leaked \cup taken) \subseteq tp
  <2>1. \A m \in correct \cup (leaked \cup taken) : m \in matched /\ GoldPairs[m[1]].type # "no_conflict" /\ m[2].type # "no_conflict"
    BY <1>4
  <2> QED BY <2>1 DEF PutDown, Verdict
<1> HIDE DEF none, some, labels, correct, leaked, taken, tp, fp, fn, tn
<1>19. Cardinality(fp \cup tn) = Cardinality(fp) + Cardinality(tn)
  <2>8. TwoOf(matched, fp, tn) BY <1>1, <1>6, <1>9 DEF TwoOf
  <2>9. TwoAddUp(fp, tn) BY <2>8, TwoParts
  <2> QED BY <2>9 DEF TwoAddUp
<1>20. /\ IsFiniteSet(tp \cup fn) /\ Cardinality(tp) \in Nat /\ Cardinality(fn) \in Nat
       /\ Cardinality(tp \cup fn) = Cardinality(tp) + Cardinality(fn)
  <2>8. TwoOf(matched, tp, fn) BY <1>1, <1>8, <1>9 DEF TwoOf
  <2> QED BY <2>8, TwoParts DEF TwoAddUp
<1>21. /\ IsFiniteSet(none \cup some) /\ Cardinality(none) \in Nat /\ Cardinality(some) \in Nat
       /\ Cardinality(none \cup some) = Cardinality(none) + Cardinality(some)
  <2>8. TwoOf(matched, none, some) BY <1>1, <1>11, <1>12 DEF TwoOf
  <2> QED BY <2>8, TwoParts DEF TwoAddUp
<1>22. /\ IsFiniteSet(leaked \cup taken) /\ Cardinality(leaked) \in Nat /\ Cardinality(taken) \in Nat
       /\ Cardinality(leaked \cup taken) = Cardinality(leaked) + Cardinality(taken)
  <2>8. TwoOf(matched, leaked, taken) BY <1>1, <1>12, <1>16 DEF TwoOf
  <2> QED BY <2>8, TwoParts DEF TwoAddUp
<1>23. leaked \cup taken \in SUBSET matched BY <1>12
<1>29. correct \in SUBSET matched BY <1>12
<1>24. /\ IsFiniteSet(correct \cup (leaked \cup taken)) /\ Cardinality(correct) \in Nat
       /\ Cardinality(correct \cup (leaked \cup taken)) = Cardinality(correct) + Cardinality(leaked \cup taken)
  <2> DEFINE astray == leaked \cup taken
  <2>1. correct \cap astray = {} /\ astray \in SUBSET matched BY <1>17, <1>23
  <2> HIDE DEF astray
  <2>2. IsFiniteSet(matched) BY <1>1
  <2>3. /\ IsFiniteSet(correct \cup astray) /\ Cardinality(correct) \in Nat /\ Cardinality(astray) \in Nat
        /\ Cardinality(correct \cup astray) = Cardinality(correct) + Cardinality(astray)
    <3>8. TwoOf(matched, correct, astray) BY <1>29, <2>1, <2>2 DEF TwoOf
    <3> QED BY <3>8, TwoParts DEF TwoAddUp
  <2> QED BY <2>3 DEF astray
<1>25. IsFiniteSet(tp) /\ Cardinality(correct \cup (leaked \cup taken)) <= Cardinality(tp)
  <2>1. IsFiniteSet(tp) BY <1>1, <1>9, Fewer
  <2> QED BY <1>18, <2>1, Fewer
<1>26. binary.fp + binary.tn = Support(types, "no_conflict") BY <1>2, <1>3, <1>5, <1>19
<1>27. binary.tp + binary.fn = TotalOf(types) - Support(types, "no_conflict")
  <2>1. Cardinality(matched) = Cardinality(none \cup some) /\ Cardinality(some) = Cardinality(tp \cup fn)
    BY <1>7, <1>10
  <2> QED BY <1>2, <1>3, <1>20, <1>21, <2>1
<1>28. binary.tp >= CorrectOf(types, labels) + LeakedBothWays(types).conditional + LeakedBothWays(types).factual
  BY <1>2, <1>14, <1>15, <1>20, <1>22, <1>24, <1>25
<1> QED BY <1>26, <1>27, <1>28 DEF labels

(* The tiers part the whole. *)
LEMMA TiersAddUp ==
  ASSUME ClassOK
  PROVE  \A c \in DOMAIN types : types[c] = SumOver([t \in DOMAIN byTier |-> CellOf(byTier[t], c[1], c[2])], DOMAIN byTier)
<1> SUFFICES ASSUME NEW c \in DOMAIN types
             PROVE  types[c] = SumOver([t \in DOMAIN byTier |-> CellOf(byTier[t], c[1], c[2])], DOMAIN byTier)
  OBVIOUS
<1> DEFINE S == DOMAIN byTier
           M == {m \in matched : TypeCell[m] = c}
           f == [t \in S |-> CellOf(byTier[t], c[1], c[2])]
           tiered == [m \in matched |-> TierCell[m]]
<1>1. IsFiniteSet(matched) /\ S = {TierCell[m] : m \in matched} /\ Tallied(types, matched, TypeCell)
  BY DEF ClassOK
<1>2. c = <<c[1], c[2]>> /\ types[c] = Cardinality(M) BY <1>1 DEF Tallied
<1>3. IsFiniteSet(S) /\ IsFiniteSet(M)
  <2>1. tiered \in Surjection(matched, S) BY <1>1 DEF Surjection
  <2>2. IsFiniteSet(S)
    <3> HIDE DEF tiered, S
    <3> QED BY <1>1, <2>1, FS_Surjection
  <2> QED BY <1>1, <2>2, Fewer
<1>4. ASSUME NEW t \in S PROVE f[t] = Cardinality({m \in M : TierCell[m] = t})
  <2>1. Tallied(byTier[t], InTier(t), TypeCell) BY DEF ClassOK
  <2>2. CellOf(byTier[t], c[1], c[2]) = Cardinality({m \in InTier(t) : TypeCell[m] = <<c[1], c[2]>>})
    BY <2>1, CellIs
  <2>3. {m \in InTier(t) : TypeCell[m] = <<c[1], c[2]>>} = {m \in M : TierCell[m] = t}
    BY <1>2 DEF InTier
  <2>4. f[t] = CellOf(byTier[t], c[1], c[2]) OBVIOUS
  <2> HIDE DEF f, M, S
  <2> QED BY <2>2, <2>3, <2>4
<1>5. {m \in M : TierCell[m] \in S} = M BY <1>1
<1> HIDE DEF f, M, S
<1>6. CountsParts(f, S, M, TierCell) BY <1>3, <1>4 DEF CountsParts
<1>7. AddsUp(f, S, M, TierCell) BY <1>6, SumOfParts
<1>8. types[c] = SumOver(f, S) BY <1>2, <1>5, <1>7 DEF AddsUp
<1> QED BY <1>8 DEF f, S

(* The error analysis counts what the tables hold. *)
LEMMA ErrorsHold == ASSUME ClassOK PROVE ErrorsAddUp
<1> DEFINE misnamed == {m \in ErrorCases : RelationWrong(m)}
           offDiagonal == {c \in DOMAIN types : c[1] # c[2]}
           rows == {RowOf(g) : g \in Range(GoldPairs)}
           mistyped == {m \in matched : TypeCell[m] \in offDiagonal}
           only == {m \in misnamed : ~TypeWrong(m)}
           right == {m \in Related : RelationCell[m][1] = RelationCell[m][2] /\ RelationCell[m][1] \in RelationLabels}
<1>1. /\ IsFiniteSet(matched) /\ Tallied(types, matched, TypeCell) /\ Tallied(relations, Related, RelationCell)
      /\ DOMAIN types = {TypeCell[m] : m \in matched}
  BY DEF ClassOK, Tallied
<1>2. \A m \in matched : TypeCell[m] = <<GoldPairs[m[1]].type, m[2].type>> /\ RelationCell[m] = <<GoldPairs[m[1]].relation, m[2].relation>>
  BY CellsSay
<1>3. Cardinality(matched) = TotalOf(types) /\ TotalOf(relations) = Cardinality(Related)
  BY <1>1, CellsAddUp
<1>4. ErrorCases \subseteq matched /\ \A m \in matched : (TypeWrong(m) <=> TypeCell[m][1] # TypeCell[m][2])
  BY <1>2 DEF ErrorCases, TypeWrong
<1>5. ASSUME NEW c \in offDiagonal PROVE Cardinality(ByKind(<<"type", c[1], c[2]>>)) = types[c]
  <2>1. types[c] = Cardinality({m \in matched : TypeCell[m] = c}) /\ c = <<c[1], c[2]>>
    BY <1>1 DEF Tallied
  <2>2. ByKind(<<"type", c[1], c[2]>>) = {m \in matched : TypeCell[m] = c}
    <3>1. ASSUME NEW m \in matched, TypeCell[m] = c PROVE m \in ByKind(<<"type", c[1], c[2]>>)
      <4>1. TypeWrong(m) /\ c[1] = GoldPairs[m[1]].type /\ c[2] = m[2].type
        BY <1>2, <1>4, <3>1
      <4> QED BY <4>1 DEF ByKind, ErrorCases, KindOfError
    <3>2. ASSUME NEW m \in ByKind(<<"type", c[1], c[2]>>) PROVE m \in matched /\ TypeCell[m] = c
      <4>1. m \in matched /\ KindOfError(m) = <<"type", c[1], c[2]>> BY <1>4 DEF ByKind
      <4>2. TypeWrong(m) BY <4>1 DEF KindOfError
      <4>3. GoldPairs[m[1]].type = c[1] /\ m[2].type = c[2] BY <4>1, <4>2 DEF KindOfError
      <4> QED BY <1>2, <2>1, <4>1, <4>3
    <3> QED BY <3>1, <3>2
  <2> QED BY <2>1, <2>2
<1>6. Cardinality(ErrorCases) = SumOver(types, offDiagonal) + Cardinality(only)
  <2>1. SumOver(types, offDiagonal) = Cardinality(mistyped) BY <1>1, CellsAddUp
  <2>2. ErrorCases = mistyped \cup only BY <1>1, <1>4 DEF ErrorCases
  <2>3. mistyped \cap only = {} BY <1>4
  <2>4. mistyped \in SUBSET matched /\ only \in SUBSET matched BY <1>4
  <2> HIDE DEF mistyped, only
  <2>5. Cardinality(mistyped \cup only) = Cardinality(mistyped) + Cardinality(only)
    <3>8. TwoOf(matched, mistyped, only) BY <1>1, <2>3, <2>4 DEF TwoOf
    <3>9. TwoAddUp(mistyped, only) BY <3>8, TwoParts
    <3> QED BY <3>9 DEF TwoAddUp
  <2> QED BY <2>1, <2>2, <2>5
<1>7. Cardinality(misnamed) = TotalOf(relations) - CorrectOf(relations, RelationLabels)
  <2>1. CorrectOf(relations, RelationLabels) = Cardinality(right)
    BY <1>1, LabelsFinite, CorrectIs
  <2>2. \A m \in Related : m \in matched /\ RelationCell[m][1] \in RelationLabels
    BY CellsSay
  <2>3. \A m \in matched : (m \in misnamed <=> m \in Related /\ RelationCell[m][1] # RelationCell[m][2])
    BY <1>2 DEF ErrorCases, RelationWrong, Related
  <2>4. Related = misnamed \cup right BY <1>4, <2>2, <2>3
  <2>5. misnamed \cap right = {} BY <1>4, <2>3
  <2>6. IsFiniteSet(Related) BY CellsSay
  <2>7. misnamed \in SUBSET Related /\ right \in SUBSET Related BY <2>4
  <2> HIDE DEF misnamed, right
  <2>8. /\ IsFiniteSet(misnamed \cup right) /\ Cardinality(misnamed) \in Nat /\ Cardinality(right) \in Nat
        /\ Cardinality(misnamed \cup right) = Cardinality(misnamed) + Cardinality(right)
    <3>8. TwoOf(Related, misnamed, right) BY <2>5, <2>6, <2>7 DEF TwoOf
    <3> QED BY <3>8, TwoParts DEF TwoAddUp
  <2>9. Cardinality(Related) = Cardinality(misnamed \cup right) BY <2>4
  <2> QED BY <1>3, <2>1, <2>8, <2>9
<1>8. ASSUME NEW c \in NamedCells PROVE Cardinality(ByKind(<<"relation", c[1], c[2]>>)) <= CellOf(relations, c[1], c[2])
  <2> DEFINE cell == {m \in Related : RelationCell[m] = <<c[1], c[2]>>}
  <2>1. CellOf(relations, c[1], c[2]) = Cardinality(cell)
    <3>1. Tallied(relations, Related, RelationCell) BY <1>1
    <3>2. \A g, f : CellOf(relations, g, f) = Cardinality({m \in Related : RelationCell[m] = <<g, f>>})
      BY <3>1, CellIs
    <3> QED BY <3>2
  <2>2. ByKind(<<"relation", c[1], c[2]>>) \in SUBSET cell
    <3>1. ASSUME NEW m \in ByKind(<<"relation", c[1], c[2]>>) PROVE m \in cell
      <4>1. m \in matched /\ (TypeWrong(m) \/ RelationWrong(m)) /\ KindOfError(m) = <<"relation", c[1], c[2]>>
        BY DEF ByKind, ErrorCases
      <4>2. ~TypeWrong(m) BY <4>1 DEF KindOfError
      <4>3. GoldPairs[m[1]].relation = c[1] /\ m[2].relation = c[2] /\ GoldPairs[m[1]].relation # NoRelation
        BY <4>1, <4>2 DEF KindOfError, RelationWrong
      <4> QED BY <1>2, <4>1, <4>3 DEF Related
    <3> QED BY <3>1
  <2>3. IsFiniteSet(cell) BY CellsSay, Fewer
  <2> HIDE DEF cell
  <2> QED BY <2>1, <2>2, <2>3, Fewer
<1>9. ASSUME NEW m \in ErrorCases
      PROVE  Cardinality(Shown(2) \cap ByKind(KindOfError(m))) = (IF Cardinality(ByKind(KindOfError(m))) > 1 THEN 2 ELSE 1)
  <2> DEFINE B == ByKind(KindOfError(m))
  <2>1. B \subseteq ErrorCases /\ B \subseteq matched /\ m \in B /\ \A e \in B : KindOfError(e) = KindOfError(m)
    BY <1>4 DEF ByKind
  <2>2. IsFiniteSet(B) BY <1>1, <2>1, Fewer
  <2>3. (\A e \in B : e[1] \in Nat) /\ \A e, d \in B : e[1] = d[1] => e = d
    BY <2>1, PairsAre DEF ClassOK
  <2>4. Shown(2) \cap B = {e \in B : Cardinality({d \in B : d[1] < e[1]}) < 2}
    <3>1. \A e \in B : {d \in ByKind(KindOfError(e)) : d[1] < e[1]} = {d \in B : d[1] < e[1]}
      BY <2>1
    <3>2. \A e \in B : e \in Shown(2) <=> Cardinality({d \in ByKind(KindOfError(e)) : d[1] < e[1]}) < 2
      BY <2>1 DEF Shown
    <3> HIDE DEF B
    <3> QED BY <3>1, <3>2
  <2>5. B # {} BY <2>1
  <2> HIDE DEF B
  <2>6. Cardinality({e \in B : Cardinality({d \in B : d[1] < e[1]}) < 2}) = IF Cardinality(B) > 1 THEN 2 ELSE 1
    BY <2>2, <2>3, <2>5, FirstTwo
  <2>7. Cardinality(Shown(2) \cap B) = (IF Cardinality(B) > 1 THEN 2 ELSE 1)
    BY <2>4, <2>6
  <2> QED BY <2>7 DEF B
<1>10. SumOver([row \in rows |-> Cardinality({m \in matched : RowOf(GoldPairs[m[1]]) = row})], rows) = TotalOf(types)
  <2> DEFINE f == [row \in rows |-> Cardinality({m \in matched : RowOf(GoldPairs[m[1]]) = row})]
             rowed == [g \in Range(GoldPairs) |-> RowOf(g)]
  <2>1. IsFiniteSet(rows)
    <3>1. IsFiniteSet(Range(GoldPairs))
      BY GoldPairsAssumption, RangeIsFinite DEF GoldPairsAssumption
    <3>2. rowed \in Surjection(Range(GoldPairs), rows) BY DEF Surjection
    <3> HIDE DEF rowed, rows
    <3> QED BY <3>1, <3>2, FS_Surjection
  <2>2. ASSUME NEW row \in rows PROVE f[row] = Cardinality({m \in matched : RowCell[m] = row})
    <3>1. {m \in matched : RowOf(GoldPairs[m[1]]) = row} = {m \in matched : RowCell[m] = row}
      BY CellsSay
    <3>2. f[row] = Cardinality({m \in matched : RowOf(GoldPairs[m[1]]) = row}) OBVIOUS
    <3> HIDE DEF f
    <3> QED BY <3>1, <3>2
  <2>3. {m \in matched : RowCell[m] \in rows} = matched BY CellsSay DEF Range
  <2> HIDE DEF f, rows
  <2>4. CountsParts(f, rows, matched, RowCell) BY <1>1, <2>1, <2>2 DEF CountsParts
  <2>5. AddsUp(f, rows, matched, RowCell) BY <2>4, SumOfParts
  <2>6. SumOver(f, rows) = TotalOf(types) BY <1>3, <2>3, <2>5 DEF AddsUp
  <2> QED BY <2>6 DEF f
<1> HIDE DEF misnamed, offDiagonal, rows, only
<1>11. /\ Cardinality(matched) = TotalOf(types)
       /\ \A c \in offDiagonal : Cardinality(ByKind(<<"type", c[1], c[2]>>)) = types[c]
       /\ Cardinality(ErrorCases) = SumOver(types, offDiagonal) + Cardinality(only)
       /\ Cardinality(misnamed) = TotalOf(relations) - CorrectOf(relations, RelationLabels)
       /\ \A c \in NamedCells : Cardinality(ByKind(<<"relation", c[1], c[2]>>)) <= CellOf(relations, c[1], c[2])
       /\ \A m \in ErrorCases : Cardinality(Shown(2) \cap ByKind(KindOfError(m))) = (IF Cardinality(ByKind(KindOfError(m))) > 1 THEN 2 ELSE 1)
       /\ SumOver([row \in rows |-> Cardinality({m \in matched : RowOf(GoldPairs[m[1]]) = row})], rows) = TotalOf(types)
  BY <1>3, <1>5, <1>6, <1>7, <1>8, <1>9, <1>10
<1> QED BY <1>11 DEF ErrorsAddUp, misnamed, offDiagonal, rows, only

LEMMA DetectionHolds == ASSUME ClassOK PROVE DetectionAddsUp
<1>1. Tallied(types, matched, TypeCell) /\ Tallied(relations, Related, RelationCell)
  BY DEF ClassOK
<1>2. (\A m \in matched : TypeCell[m][1] \in TypeLabels) /\ \A m \in Related : RelationCell[m][1] \in RelationLabels
  BY CellsSay
<1>3. RowsSum(types, TypeLabels) /\ MissesBalance(types, TypeLabels)
  BY <1>1, <1>2, LabelsFinite, Balanced
<1>4. RowsSum(relations, RelationLabels) /\ MissesBalance(relations, RelationLabels)
  BY <1>1, <1>2, LabelsFinite, Balanced
<1>5. TotalOf(relations) = Cardinality({m \in matched : GoldPairs[m[1]].relation # NoRelation})
  BY <1>1, CellsAddUp DEF Related
<1> QED BY <1>3, <1>4, <1>5, BinaryAddsUp, TiersAddUp, ErrorsHold DEF DetectionAddsUp

------------------------------------------------------------------------------
(* The judging of branches. *)

ComparedArms == {"pipeline", "baseline"}
Probing == {"probe", "direct"}
Walkers == {"pipeline", "baseline", "probe", "direct"}

LEMMA WalkersAre == Range(Arms) = ComparedArms /\ Range(Methods) = Probing /\ Range(Arms \o Methods) = Walkers
<1>1. Range(Arms) = ComparedArms /\ Range(Methods) = Probing
  BY DEF Arms, Methods, ComparedArms, Probing, Range
<1>2. Arms \in Seq(Walkers) /\ Methods \in Seq(Walkers) BY DEF Arms, Methods, Walkers
<1>3. Range(Arms \o Methods) = Range(Arms) \cup Range(Methods) BY <1>2, TogetherHave
<1> QED BY <1>1, <1>3 DEF ComparedArms, Probing, Walkers

(* Gold has finitely many branches. *)
LEMMA CasesAre ==
  /\ Len(GoldCases) \in Nat /\ DOMAIN GoldCases = 1..Len(GoldCases)
  /\ \A n \in DOMAIN GoldCases :
       /\ Len(GoldCases[n].branches) \in Nat /\ DOMAIN GoldCases[n].branches = 1..Len(GoldCases[n].branches)
       /\ IsFiniteSet(DOMAIN GoldCases[n].branches) /\ Cardinality(DOMAIN GoldCases[n].branches) = Len(GoldCases[n].branches)
       /\ \A b \in DOMAIN GoldCases[n].branches : GoldCases[n].branches[b] \in BranchKinds
<1>1. Len(GoldCases) \in Nat /\ DOMAIN GoldCases = 1..Len(GoldCases)
  BY GoldCasesAssumption DEF GoldCasesAssumption
<1>2. ASSUME NEW n \in DOMAIN GoldCases
      PROVE  /\ Len(GoldCases[n].branches) \in Nat /\ DOMAIN GoldCases[n].branches = 1..Len(GoldCases[n].branches)
             /\ IsFiniteSet(DOMAIN GoldCases[n].branches) /\ Cardinality(DOMAIN GoldCases[n].branches) = Len(GoldCases[n].branches)
             /\ \A b \in DOMAIN GoldCases[n].branches : GoldCases[n].branches[b] \in BranchKinds
  <2>1. GoldCases[n] \in Range(GoldCases) BY DEF Range
  <2>2. GoldCases[n].branches \in Seq(BranchKinds)
    BY <2>1, GoldCasesAssumption DEF GoldCasesAssumption
  <2>3. \A k \in Nat : IsFiniteSet(1..k) /\ Cardinality(1..k) = k
    <3>1. \A k \in Nat : IsFiniteSet(1..k) /\ Cardinality(1..k) = IF 1 > k THEN 0 ELSE k - 1 + 1
      BY FS_Interval
    <3> QED BY <3>1
  <2>4. \A s \in Seq(BranchKinds) : Len(s) \in Nat /\ DOMAIN s = 1..Len(s) /\ \A b \in DOMAIN s : s[b] \in BranchKinds
    OBVIOUS
  <2> QED BY <2>2, <2>3, <2>4
<1> QED BY <1>1, <1>2

(* The pairs with a first part are as many as the second parts. *)
PairsWith(n, B) == {<<n, b>> : b \in B}

LEMMA PairsAreMany ==
  ASSUME NEW n, NEW B, IsFiniteSet(B)
  PROVE  IsFiniteSet(PairsWith(n, B)) /\ Cardinality(PairsWith(n, B)) = Cardinality(B)
<1>1. IsFiniteSet({n}) /\ Cardinality({n}) = 1 BY FS_Singleton
<1>2. IsFiniteSet({n} \X B) /\ Cardinality({n} \X B) = Cardinality({n}) * Cardinality(B)
  BY <1>1, FS_Product
<1>3. {n} \X B = PairsWith(n, B) BY DEF PairsWith
<1>4. Cardinality(B) \in Nat BY FS_CardinalityType
<1>5. Cardinality({n} \X B) = Cardinality(B) BY <1>1, <1>2, <1>4
<1> QED BY <1>2, <1>3, <1>5

LEMMA BranchesFinite == IsFiniteSet(AllBranches)
<1> DEFINE of == [n \in DOMAIN GoldCases |-> BranchesOf(n)]
<1>1. IsFiniteSet(DOMAIN GoldCases)
  <2>1. \A k \in Nat : IsFiniteSet(1..k) BY FS_Interval
  <2> QED BY <2>1, CasesAre
<1>2. ASSUME NEW n \in DOMAIN GoldCases PROVE IsFiniteSet(BranchesOf(n))
  <2>1. BranchesOf(n) = PairsWith(n, DOMAIN GoldCases[n].branches)
    BY DEF BranchesOf, PairsWith
  <2> QED BY <2>1, CasesAre, PairsAreMany
<1>3. of \in Surjection(DOMAIN GoldCases, Range(of)) BY DEF Surjection, Range
<1>4. \A S \in Range(of) : IsFiniteSet(S) BY <1>2 DEF Range
<1>5. UNION Range(of) = AllBranches BY DEF Range, AllBranches
<1> HIDE DEF of
<1>6. IsFiniteSet(Range(of)) BY <1>1, <1>3, FS_Surjection
<1>7. IsFiniteSet(UNION Range(of)) BY <1>4, <1>6, FS_UNION
<1> QED BY <1>5, <1>7

(* What has been walked through, and one instance more of it. *)
WalkedTo(i, kinds) == {k \in AllBranches : k[1] <= i /\ GoldCases[k[1]].branches[k[2]] \in kinds}
Having(n, kinds) == {b \in DOMAIN GoldCases[n].branches : GoldCases[n].branches[b] \in kinds}

LEMMA BranchIs == \A k \in AllBranches : k[1] \in DOMAIN GoldCases /\ k[1] \in Nat /\ k[1] <= Len(GoldCases) /\ k[2] \in DOMAIN GoldCases[k[1]].branches /\ k = <<k[1], k[2]>>
<1>1. ASSUME NEW k \in AllBranches
      PROVE  k[1] \in DOMAIN GoldCases /\ k[2] \in DOMAIN GoldCases[k[1]].branches /\ k = <<k[1], k[2]>>
  BY DEF AllBranches, BranchesOf
<1>2. \A n \in DOMAIN GoldCases : n \in Nat /\ n <= Len(GoldCases) BY CasesAre
<1> QED BY <1>1, <1>2

LEMMA WalkedMore ==
  ASSUME NEW i \in Nat, NEW n \in DOMAIN GoldCases, n = i + 1, NEW kinds
  PROVE  /\ Cardinality(WalkedTo(i, kinds)) \in Nat /\ Cardinality(Having(n, kinds)) \in Nat
         /\ Cardinality(WalkedTo(n, kinds)) = Cardinality(WalkedTo(i, kinds)) + Cardinality(Having(n, kinds))
<1> DEFINE more == PairsWith(n, Having(n, kinds))
           walked == WalkedTo(i, kinds)
<1>1. IsFiniteSet(AllBranches) BY BranchesFinite
<1>2. IsFiniteSet(Having(n, kinds)) BY CasesAre, Fewer DEF Having
<1>3. Cardinality(more) = Cardinality(Having(n, kinds)) BY <1>2, PairsAreMany
<1>4. walked \in SUBSET AllBranches BY DEF WalkedTo
<1>5. more \in SUBSET AllBranches BY DEF PairsWith, Having, AllBranches, BranchesOf
<1>6. walked \cap more = {} BY DEF PairsWith, WalkedTo
<1>7. WalkedTo(n, kinds) = walked \cup more
  <2>1. ASSUME NEW k \in WalkedTo(n, kinds) PROVE k \in walked \cup more
    <3>1. /\ k \in AllBranches /\ k[1] <= n /\ GoldCases[k[1]].branches[k[2]] \in kinds
          /\ k[1] \in Nat /\ k[2] \in DOMAIN GoldCases[k[1]].branches /\ k = <<k[1], k[2]>>
      BY BranchIs DEF WalkedTo
    <3>2. CASE k[1] = n
      BY <3>1, <3>2 DEF PairsWith, Having
    <3>3. CASE k[1] # n
      <4>1. k[1] <= i BY <3>1, <3>3
      <4> QED BY <3>1, <4>1 DEF WalkedTo
    <3> QED BY <3>2, <3>3
  <2>2. ASSUME NEW k \in more PROVE k \in WalkedTo(n, kinds)
    <3>1. k \in AllBranches BY <1>5
    <3>2. n <= n OBVIOUS
    <3> QED BY <3>1, <3>2 DEF PairsWith, WalkedTo, Having
  <2>3. ASSUME NEW k \in walked PROVE k \in WalkedTo(n, kinds)
    <3>1. k \in AllBranches /\ k[1] \in Nat /\ k[1] <= i /\ GoldCases[k[1]].branches[k[2]] \in kinds
      BY BranchIs DEF WalkedTo
    <3>2. k[1] <= n BY <3>1
    <3> QED BY <3>1, <3>2 DEF WalkedTo
  <2> QED BY <2>1, <2>2, <2>3
<1> HIDE DEF walked, more
<1>8. /\ IsFiniteSet(walked \cup more) /\ Cardinality(walked) \in Nat /\ Cardinality(more) \in Nat
      /\ Cardinality(walked \cup more) = Cardinality(walked) + Cardinality(more)
  <2>8. TwoOf(AllBranches, walked, more) BY <1>1, <1>4, <1>5, <1>6 DEF TwoOf
  <2> QED BY <2>8, TwoParts DEF TwoAddUp
<1> QED BY <1>3, <1>7, <1>8 DEF walked

(* Every branch is judged one way. *)
LEMMA TimesAddUp ==
  ASSUME NEW n \in DOMAIN GoldCases, NEW js \in [DOMAIN GoldCases[n].branches -> Judgements]
  PROVE  /\ Times(js, "preserved") \in Nat /\ Times(js, "suppressed") \in Nat /\ Times(js, "distorted") \in Nat
         /\ Times(js, "preserved") + Times(js, "suppressed") + Times(js, "distorted") = Len(js)
         /\ Len(js) \in Nat /\ Len(js) = Cardinality(DOMAIN GoldCases[n].branches)
<1> DEFINE D == DOMAIN js
           S(j) == {b \in D : js[b] = j}
           p == S("preserved")  s == S("suppressed")  d == S("distorted")
<1>1. IsFiniteSet(D) /\ Cardinality(D) = Len(js) /\ Len(js) \in Nat /\ D = DOMAIN GoldCases[n].branches
  <2>1. D = DOMAIN GoldCases[n].branches OBVIOUS
  <2>2. D = 1..Len(GoldCases[n].branches) /\ Len(GoldCases[n].branches) \in Nat /\ IsFiniteSet(D) /\ Cardinality(D) = Len(GoldCases[n].branches)
    BY <2>1, CasesAre
  <2>3. Len(js) = Len(GoldCases[n].branches) BY <2>2
  <2> QED BY <2>1, <2>2, <2>3
<1>2. p \in SUBSET D /\ s \in SUBSET D /\ d \in SUBSET D OBVIOUS
<1>3. p \cap s = {} OBVIOUS
<1>4. (p \cup s) \cap d = {} OBVIOUS
<1>5. D = (p \cup s) \cup d BY DEF Judgements
<1>6. Times(js, "preserved") = Cardinality(p) /\ Times(js, "suppressed") = Cardinality(s) /\ Times(js, "distorted") = Cardinality(d)
  BY DEF Times
<1> HIDE DEF p, s, d, D
<1>7. /\ IsFiniteSet(p \cup s) /\ Cardinality(p) \in Nat /\ Cardinality(s) \in Nat
      /\ Cardinality(p \cup s) = Cardinality(p) + Cardinality(s)
  <2>1. IsFiniteSet(D) BY <1>1
  <2>8. TwoOf(D, p, s) BY <1>2, <1>3, <2>1 DEF TwoOf
  <2> QED BY <2>8, TwoParts DEF TwoAddUp
<1>8. Cardinality(d) \in Nat /\ Cardinality((p \cup s) \cup d) = Cardinality(p \cup s) + Cardinality(d)
  <2> DEFINE both == p \cup s
  <2>1. IsFiniteSet(D) /\ both \in SUBSET D /\ both \cap d = {} BY <1>1, <1>2, <1>4
  <2> HIDE DEF both
  <2>2. IsFiniteSet(D) BY <2>1
  <2>3. /\ IsFiniteSet(both \cup d) /\ Cardinality(both) \in Nat /\ Cardinality(d) \in Nat
        /\ Cardinality(both \cup d) = Cardinality(both) + Cardinality(d)
    <3>8. TwoOf(D, both, d) BY <1>2, <2>1, <2>2 DEF TwoOf
    <3> QED BY <3>8, TwoParts DEF TwoAddUp
  <2> QED BY <2>3 DEF both
<1>9. Cardinality(D) = Cardinality((p \cup s) \cup d) BY <1>5
<1> QED BY <1>1, <1>6, <1>7, <1>8, <1>9 DEF D

(* What was counted of each arm and each method is what it walked through. *)
Counts == [instances : Nat, branches : Nat, preserved : Nat, suppressed : Nat, distorted : Nat,
           hallucinated : Nat, unconditional : Nat, spurious : Nat]
Recoveries ==
  [instances : Nat, recovered : Nat, missed : Nat, distorted : Nat, explicit_recovered : Nat, explicit_total : Nat,
   implicit_recovered : Nat, implicit_total : Nat, hallucinating : Nat, ungrounded : Nat]

KeptTo(a) == scored[a] <= Len(GoldCases) /\ \A k \in survived[a] : k[1] <= scored[a]
Whole(a) == tally[a].preserved + tally[a].suppressed + tally[a].distorted = tally[a].branches
TierTotal(field) == SumOver([t \in DOMAIN tiers |-> tiers[t][field]], DOMAIN tiers)

MethodOK(m) ==
  LET r == recovery[m]
      walked(kinds) == Cardinality(WalkedTo(scored[m], kinds))
  IN /\ r.recovered = Cardinality(survived[m])
     /\ r.recovered + r.missed + r.distorted = walked(BranchKinds)
     /\ r.explicit_total = walked({"explicit"}) /\ r.implicit_total = walked({"implicit"})
     /\ r.recovered = walked({"default"}) + r.explicit_recovered + r.implicit_recovered
     /\ r.hallucinating <= r.instances /\ r.hallucinating <= r.ungrounded

ComparedOK ==
  apart # Uncompared =>
    /\ ~Walks("pipeline") /\ ~Walks("baseline")
    /\ apart.pipeline = Only("pipeline", "baseline") /\ apart.baseline = Only("baseline", "pipeline")

RuledOK ==
  /\ ruling # Unruled => ~Walks("probe") /\ ~Walks("direct")
  /\ ruling = "go" => recovery["probe"].implicit_recovered > recovery["direct"].implicit_recovered

TiersOK ==
  /\ IsFiniteSet(DOMAIN tiers) /\ \A t \in DOMAIN tiers : tiers[t] \in Counts
  /\ \A field \in DOMAIN Zero : tally["metrics"][field] = TierTotal(field)

JudgeTypes ==
  /\ tally \in [ComparedArms \cup {"metrics"} -> Counts] /\ survived \in [Walkers -> SUBSET AllBranches]
  /\ scored \in [Walkers \cup {"metrics"} -> Nat] /\ recovery \in [Probing -> Recoveries]

JudgeOK ==
  /\ JudgeTypes /\ TiersOK /\ ComparedOK /\ RuledOK
  /\ \A a \in Walkers : KeptTo(a)
  /\ \A a \in ComparedArms \cup {"metrics"} : Whole(a)
  /\ \A a \in ComparedArms : tally[a].preserved = Cardinality(survived[a])
  /\ \A m \in Probing : MethodOK(m)

LEMMA JudgeInitOK == ASSUME JudgeInit PROVE JudgeOK
<1>1. /\ tally = [a \in {"pipeline", "baseline", "metrics"} |-> Zero] /\ survived = [a \in Walkers |-> {}] /\ tiers = << >>
      /\ scored = [a \in {"metrics"} \cup Walkers |-> 0] /\ apart = Uncompared /\ recovery = [m \in Probing |-> NothingRecovered]
      /\ ruling = Unruled
  BY WalkersAre DEF JudgeInit
<1>2. Zero \in Counts /\ NothingRecovered \in Recoveries
  BY DEF Zero, Counts, NothingRecovered, Recoveries
<1>3. JudgeTypes BY <1>1, <1>2 DEF JudgeTypes, ComparedArms
<1>4. Cardinality({}) = 0 /\ IsFiniteSet({}) BY FS_EmptySet
<1>5. TiersOK
  <2>1. DOMAIN tiers = {} BY <1>1
  <2>2. \A g : SumOver(g, {}) = 0
    <3>1. ASSUME NEW g PROVE SumOver(g, {}) = 0
      <4>1. PICK it : Summed(it, g, {}) /\ SumOver(g, {}) = it[{}]
        BY <1>4, SumIs
      <4> QED BY <4>1 DEF Summed, Adds
    <3> QED BY <3>1
  <2>3. \A field \in DOMAIN Zero : tally["metrics"][field] = 0 BY <1>1 DEF Zero
  <2> QED BY <1>4, <2>1, <2>2, <2>3 DEF TiersOK, TierTotal
<1>6. ComparedOK /\ RuledOK BY <1>1 DEF ComparedOK, RuledOK, Unruled
<1>7. \A a \in Walkers : KeptTo(a) BY <1>1, CasesAre DEF KeptTo
<1>8. \A a \in ComparedArms \cup {"metrics"} : Whole(a)
  BY <1>1 DEF Whole, Zero, ComparedArms
<1>9. \A a \in ComparedArms : tally[a].preserved = Cardinality(survived[a])
  BY <1>1, <1>4 DEF Zero, ComparedArms, Walkers
<1>10. ASSUME NEW m \in Probing PROVE MethodOK(m)
  <2>1. scored[m] = 0 /\ survived[m] = {} /\ recovery[m] = NothingRecovered
    BY <1>1 DEF Probing, Walkers
  <2>2. \A kinds : WalkedTo(0, kinds) = {} BY BranchIs, CasesAre DEF WalkedTo
  <2>3. \A kinds : Cardinality(WalkedTo(scored[m], kinds)) = 0 BY <1>4, <2>1, <2>2
  <2> QED BY <1>4, <2>1, <2>3 DEF MethodOK, NothingRecovered
<1> QED BY <1>3, <1>5, <1>6, <1>7, <1>8, <1>9, <1>10 DEF JudgeOK

(* The branches that survive of one instance more. *)
SurvivorsOf(S, n, js) == S \cup {<<n, b>> : b \in {c \in DOMAIN js : js[c] = "preserved"}}
Outlive(T, S, n, js) ==
  /\ T \in SUBSET AllBranches /\ \A k \in T : k[1] <= n
  /\ Cardinality(S) \in Nat /\ Cardinality(T) = Cardinality(S) + Times(js, "preserved")

LEMMA SurvivorsGrow ==
  ASSUME NEW i \in Nat, NEW n \in DOMAIN GoldCases, n = i + 1, NEW S \in SUBSET AllBranches, \A k \in S : k[1] <= i,
         NEW js \in [DOMAIN GoldCases[n].branches -> Judgements]
  PROVE  Outlive(SurvivorsOf(S, n, js), S, n, js)
<1> DEFINE B == {c \in DOMAIN js : js[c] = "preserved"}
           more == PairsWith(n, B)
           T == SurvivorsOf(S, n, js)
<1>1. IsFiniteSet(AllBranches) BY BranchesFinite
<1>2. IsFiniteSet(B) /\ Cardinality(B) = Times(js, "preserved")
  <2>1. IsFiniteSet(DOMAIN js) BY CasesAre
  <2>2. IsFiniteSet(B) BY <2>1, Fewer
  <2> QED BY <2>2 DEF Times
<1>3. Cardinality(more) = Cardinality(B)
  <2> HIDE DEF B
  <2> QED BY <1>2, PairsAreMany
<1>4. more \in SUBSET AllBranches BY DEF AllBranches, BranchesOf, PairsWith
<1>5. S \cap more = {} BY DEF PairsWith
<1>6. \A k \in S : k[1] <= n BY BranchIs
<1>7. \A k \in more : k[1] <= n BY CasesAre DEF PairsWith
<1>8. T = S \cup more BY DEF PairsWith, SurvivorsOf
<1> HIDE DEF B, more, T
<1>9. /\ IsFiniteSet(S \cup more) /\ Cardinality(S) \in Nat /\ Cardinality(more) \in Nat
      /\ Cardinality(S \cup more) = Cardinality(S) + Cardinality(more)
  <2>1. S \in SUBSET AllBranches OBVIOUS
  <2>8. TwoOf(AllBranches, S, more) BY <1>1, <1>4, <1>5, <2>1 DEF TwoOf
  <2> QED BY <2>8, TwoParts DEF TwoAddUp
<1>10. Outlive(T, S, n, js) BY <1>2, <1>3, <1>4, <1>6, <1>7, <1>8, <1>9 DEF Outlive
<1> QED BY <1>10 DEF T

(* What an instance adds, field by field. *)
Added(js, plain, madeUp, imposed) == Counted(Zero, js, plain, madeUp, imposed)

Grown(u, t, js, more) ==
  /\ u \in Counts /\ u.preserved = t.preserved + Times(js, "preserved")
  /\ t.preserved + t.suppressed + t.distorted = t.branches => u.preserved + u.suppressed + u.distorted = u.branches
  /\ \A field \in DOMAIN Zero : u[field] = t[field] + more[field] /\ more[field] \in Nat

LEMMA CountedIs ==
  ASSUME NEW n \in DOMAIN GoldCases, NEW js \in [DOMAIN GoldCases[n].branches -> Judgements], NEW t \in Counts,
         NEW plain \in BOOLEAN, NEW madeUp \in BOOLEAN, NEW imposed \in BOOLEAN,
         NEW u, u = Counted(t, js, plain, madeUp, imposed)
  PROVE  Grown(u, t, js, Added(js, plain, madeUp, imposed))
<1>1. PICK p, s, d, l \in Nat : /\ p = Times(js, "preserved") /\ s = Times(js, "suppressed") /\ d = Times(js, "distorted") /\ l = Len(js)
                               /\ p + s + d = l
  BY TimesAddUp
<1>2. PICK a, b, c \in {0, 1} : a = Bit(madeUp) /\ b = Bit(plain) /\ c = Bit(imposed /\ plain)
  BY DEF Bit
<1>3. /\ t.preserved \in Nat /\ t.suppressed \in Nat /\ t.distorted \in Nat /\ t.branches \in Nat
      /\ t.instances \in Nat /\ t.hallucinated \in Nat /\ t.unconditional \in Nat /\ t.spurious \in Nat
  BY DEF Counts
<1>4. u = [instances |-> t.instances + 1, branches |-> t.branches + l, preserved |-> t.preserved + p,
           suppressed |-> t.suppressed + s, distorted |-> t.distorted + d, hallucinated |-> t.hallucinated + a,
           unconditional |-> t.unconditional + b, spurious |-> t.spurious + c]
  BY <1>1, <1>2 DEF Counted
<1>5. Added(js, plain, madeUp, imposed) =
        [instances |-> 0 + 1, branches |-> 0 + l, preserved |-> 0 + p, suppressed |-> 0 + s, distorted |-> 0 + d,
         hallucinated |-> 0 + a, unconditional |-> 0 + b, spurious |-> 0 + c]
  BY <1>1, <1>2 DEF Added, Counted, Zero
<1>6. u \in Counts BY <1>3, <1>4 DEF Counts
<1>7. u.preserved = t.preserved + p BY <1>4
<1>8. ASSUME t.preserved + t.suppressed + t.distorted = t.branches PROVE u.preserved + u.suppressed + u.distorted = u.branches
  <2>1. u.preserved = t.preserved + p /\ u.suppressed = t.suppressed + s /\ u.distorted = t.distorted + d /\ u.branches = t.branches + l
    BY <1>4
  <2>0. p + s + d = l /\ p \in Nat /\ s \in Nat /\ d \in Nat /\ l \in Nat BY <1>1
  <2>2. \A v, w, x, y \in Nat : v + w + x = y => (v + p) + (w + s) + (x + d) = y + l
    BY <2>0
  <2> QED BY <1>3, <1>8, <2>1, <2>2
<1>9. ASSUME NEW field \in DOMAIN Zero
      PROVE  u[field] = t[field] + Added(js, plain, madeUp, imposed)[field] /\ Added(js, plain, madeUp, imposed)[field] \in Nat
  <2>1. field \in {"instances", "branches", "preserved", "suppressed", "distorted", "hallucinated", "unconditional", "spurious"}
    BY DEF Zero
  <2>2. CASE field = "instances"
    BY <1>3, <1>4, <1>5, <2>2
  <2>3. CASE field = "branches"
    BY <1>3, <1>4, <1>5, <2>3
  <2>4. CASE field = "preserved"
    BY <1>3, <1>4, <1>5, <2>4
  <2>5. CASE field = "suppressed"
    BY <1>3, <1>4, <1>5, <2>5
  <2>6. CASE field = "distorted"
    BY <1>3, <1>4, <1>5, <2>6
  <2>7. CASE field = "hallucinated"
    BY <1>3, <1>4, <1>5, <2>7
  <2>8. CASE field = "unconditional"
    BY <1>3, <1>4, <1>5, <2>8
  <2>9. CASE field = "spurious"
    BY <1>3, <1>4, <1>5, <2>9
  <2> QED BY <2>1, <2>2, <2>3, <2>4, <2>5, <2>6, <2>7, <2>8, <2>9
<1> QED BY <1>1, <1>6, <1>7, <1>8, <1>9 DEF Grown

(* An arm scores one instance more. *)
LEMMA ScoreOK ==
  ASSUME JudgeOK, NEW arm \in ComparedArms, Walks(arm), NEW madeUp \in BOOLEAN, NEW imposed \in BOOLEAN,
         NEW js \in [DOMAIN GoldCases[Here(arm)].branches -> Judgements],
         Score(arm, js, madeUp, imposed), UNCHANGED <<tiers, apart, probeVars>>
  PROVE  JudgeOK'
<1>0. PICK i : i = scored[arm] OBVIOUS
<1>1. PICK n : n = Here(arm) OBVIOUS
<1>2. PICK plain : plain = NoConflict(n) OBVIOUS
<1>3. arm \in Walkers /\ arm \notin Probing /\ arm # "metrics"
  BY DEF ComparedArms, Walkers, Probing
<1>4. i \in Nat /\ n = i + 1 /\ n \in DOMAIN GoldCases
  BY <1>0, <1>1, <1>3, CasesAre DEF JudgeOK, JudgeTypes, Walks, Here
<1>5. js \in [DOMAIN GoldCases[n].branches -> Judgements] BY <1>1
<1>6. PICK S : S = survived[arm] OBVIOUS
<1>7. PICK t : t = tally[arm] OBVIOUS
<1>8. PICK T : T = SurvivorsOf(S, n, js) OBVIOUS
<1>9. PICK u : u = Counted(t, js, plain, madeUp, imposed) OBVIOUS
<1>10. /\ tally' = [tally EXCEPT ![arm] = u] /\ survived' = [survived EXCEPT ![arm] = T] /\ scored' = [scored EXCEPT ![arm] = n]
  BY <1>1, <1>2, <1>6, <1>7, <1>8, <1>9 DEF Score, SurvivorsOf
<1>11. S \in SUBSET AllBranches /\ t \in Counts /\ (\A k \in S : k[1] <= i) /\ t.preserved = Cardinality(S)
       /\ t.preserved + t.suppressed + t.distorted = t.branches
  BY <1>0, <1>3, <1>6, <1>7 DEF JudgeOK, JudgeTypes, KeptTo, Whole
<1>12. /\ T \in SUBSET AllBranches /\ \A k \in T : k[1] <= n
       /\ Cardinality(S) \in Nat /\ Cardinality(T) = Cardinality(S) + Times(js, "preserved")
  <2>1. \A k \in S : k[1] <= i BY <1>11
  <2>2. S \in SUBSET AllBranches BY <1>11
  <2>3. Outlive(SurvivorsOf(S, n, js), S, n, js) BY <1>4, <1>5, <2>1, <2>2, SurvivorsGrow
  <2> QED BY <1>8, <2>3 DEF Outlive
<1>13. u \in Counts /\ u.preserved = Cardinality(T) /\ u.preserved + u.suppressed + u.distorted = u.branches
  <2>1. plain \in BOOLEAN /\ t \in Counts BY <1>2, <1>11 DEF NoConflict
  <2>2. n \in DOMAIN GoldCases BY <1>4
  <2>3. Grown(u, t, js, Added(js, plain, madeUp, imposed))
    BY <1>5, <1>9, <2>1, <2>2, CountedIs
  <2> QED BY <1>11, <1>12, <2>3 DEF Grown
<1>14. UNCHANGED <<tiers, apart, recovery, ruling>> BY DEF probeVars
<1>15. JudgeTypes' BY <1>3, <1>4, <1>10, <1>12, <1>13, <1>14 DEF JudgeOK, JudgeTypes
<1>16. TiersOK'
  <2>1. tally'["metrics"] = tally["metrics"] BY <1>3, <1>10 DEF JudgeOK, JudgeTypes
  <2>2. \A field : TierTotal(field)' = TierTotal(field) BY <1>14 DEF TierTotal
  <2> QED BY <1>14, <2>1, <2>2 DEF JudgeOK, TiersOK
<1>17. ComparedOK' /\ RuledOK'
  <2>1. apart = Uncompared BY DEF JudgeOK, ComparedOK, ComparedArms
  <2>2. \A m \in Probing : scored'[m] = scored[m]
    BY <1>3, <1>10 DEF JudgeOK, JudgeTypes, Probing, Walkers
  <2>3. RuledOK' BY <1>14, <2>2 DEF JudgeOK, RuledOK, Walks, Probing
  <2> QED BY <1>14, <2>1, <2>3 DEF ComparedOK
<1>18. ASSUME NEW a \in Walkers PROVE KeptTo(a)'
  <2>1. n <= Len(GoldCases) BY <1>4, CasesAre
  <2>2. CASE a = arm
    <3>1. scored'[a] = n /\ survived'[a] = T BY <1>3, <1>10, <2>2 DEF JudgeOK, JudgeTypes
    <3> QED BY <1>12, <2>1, <3>1 DEF KeptTo
  <2>3. CASE a # arm
    <3>1. scored'[a] = scored[a] /\ survived'[a] = survived[a]
      BY <1>3, <1>10, <2>3 DEF JudgeOK, JudgeTypes
    <3> QED BY <3>1 DEF JudgeOK, KeptTo
  <2> QED BY <2>2, <2>3
<1>19. ASSUME NEW a \in ComparedArms \cup {"metrics"} PROVE Whole(a)'
  <2>1. CASE a = arm
    <3>1. tally'[a] = u BY <1>10, <2>1 DEF JudgeOK, JudgeTypes
    <3> QED BY <1>13, <3>1 DEF Whole
  <2>2. CASE a # arm
    <3>1. tally'[a] = tally[a] BY <1>10, <2>2 DEF JudgeOK, JudgeTypes
    <3> QED BY <3>1 DEF JudgeOK, Whole
  <2> QED BY <2>1, <2>2
<1>20. ASSUME NEW a \in ComparedArms PROVE tally'[a].preserved = Cardinality(survived'[a])
  <2>1. a \in Walkers BY DEF ComparedArms, Walkers
  <2>2. CASE a = arm
    <3>1. tally'[a] = u /\ survived'[a] = T BY <1>10, <2>1, <2>2 DEF JudgeOK, JudgeTypes
    <3> QED BY <1>13, <3>1
  <2>3. CASE a # arm
    <3>1. tally'[a] = tally[a] /\ survived'[a] = survived[a]
      BY <1>10, <2>1, <2>3 DEF JudgeOK, JudgeTypes
    <3> QED BY <3>1 DEF JudgeOK
  <2> QED BY <2>2, <2>3
<1>21. ASSUME NEW m \in Probing PROVE MethodOK(m)'
  <2>1. scored'[m] = scored[m] /\ survived'[m] = survived[m] /\ recovery' = recovery
    BY <1>3, <1>10, <1>14 DEF JudgeOK, JudgeTypes, Probing, Walkers
  <2>2. \A kinds : WalkedTo(scored[m], kinds)' = WalkedTo(scored[m], kinds) BY <2>1
  <2>3. MethodOK(m) BY DEF JudgeOK
  <2> QED BY <2>1, <2>2, <2>3 DEF MethodOK
<1> QED BY <1>15, <1>16, <1>17, <1>18, <1>19, <1>20, <1>21 DEF JudgeOK

(* One bucket grows, or is made. *)
LEMMA BucketGrows ==
  ASSUME NEW S, IsFiniteSet(S), NEW x, NEW f, NEW g, NEW k \in Nat, \A y \in S : f[y] \in Nat,
         \A y \in S \ {x} : g[y] = f[y], g[x] = (IF x \in S THEN f[x] ELSE 0) + k
  PROVE  SumOver(g, S \cup {x}) = SumOver(f, S) + k
<1> DEFINE R == S \ {x}  N == S \cup {x}
<1>1. IsFiniteSet(R) /\ IsFiniteSet(N) BY FS_AddElement, FS_RemoveElement
<1>2. N \ {x} = R /\ x \in N OBVIOUS
<1>3. \A y \in N : g[y] \in Nat OBVIOUS
<1>4. SumOver(g, R) = SumOver(f, R)
  <2>1. \A y \in R : g[y] = f[y] OBVIOUS
  <2> HIDE DEF R
  <2> QED BY <1>1, <2>1, SumsAlike
<1> HIDE DEF N
<1>5. SumOver(g, N) = g[x] + SumOver(g, R) /\ SumOver(g, R) \in Nat
  <2>1. SumOver(g, N) \in Nat /\ SumOver(g, N \ {x}) \in Nat /\ SumOver(g, N) = g[x] + SumOver(g, N \ {x})
    BY <1>1, <1>2, <1>3, SumWithout
  <2> QED BY <1>2, <2>1
<1>6. CASE x \in S
  <2>1. SumOver(f, S) = f[x] + SumOver(f, R) BY <1>6, SumWithout
  <2>2. f[x] \in Nat /\ g[x] = f[x] + k BY <1>6
  <2> QED BY <1>4, <1>5, <2>1, <2>2 DEF N
<1>7. CASE x \notin S
  <2>1. R = S /\ g[x] = k BY <1>7
  <2> HIDE DEF R
  <2>2. SumOver(g, N) = k + SumOver(f, S) /\ SumOver(f, S) \in Nat BY <1>4, <1>5, <2>1
  <2>3. SumOver(g, N) = SumOver(f, S) + k BY <2>2
  <2> QED BY <2>3 DEF N
<1> QED BY <1>6, <1>7

(* The metrics pass an output over, or count it, and in its tier too. *)
PreservationStep(n, js, madeUp, imposed) ==
  LET tier == GoldCases[n].tier IN
  /\ tally' = [tally EXCEPT !["metrics"] = Counted(@, js, NoConditionalStructure(n), madeUp, imposed)]
  /\ tiers' = [u \in DOMAIN tiers \cup {tier} |->
                 IF u = tier THEN Counted(TierOf(u), js, NoConditionalStructure(n), madeUp, imposed) ELSE tiers[u]]

LEMMA PreservationOK ==
  ASSUME JudgeOK, ScorePreservation
  PROVE  JudgeOK'
<1>1. /\ scored' = [scored EXCEPT !["metrics"] = @ + 1] /\ scored["metrics"] \in Nat /\ "metrics" \notin Walkers
      /\ survived' = survived /\ apart' = apart /\ recovery' = recovery /\ ruling' = ruling
  BY DEF ScorePreservation, probeVars, JudgeOK, JudgeTypes, Walkers
<1>2. \A a \in Walkers : scored'[a] = scored[a] BY <1>1 DEF JudgeOK, JudgeTypes
<1>3. \A a \in Walkers : KeptTo(a)' BY <1>1, <1>2 DEF JudgeOK, KeptTo
<1>4. RuledOK' BY <1>1, <1>2 DEF JudgeOK, RuledOK, Walks, Walkers
<1>5. ComparedOK'
  <2>1. Only("pipeline", "baseline")' = Only("pipeline", "baseline") /\ Only("baseline", "pipeline")' = Only("baseline", "pipeline")
    BY <1>1, <1>2 DEF Only, Twice, Walkers
  <2> QED BY <1>1, <1>2, <2>1 DEF JudgeOK, ComparedOK, Walks, Walkers
<1>6. ASSUME NEW m \in Probing PROVE MethodOK(m)'
  <2>1. scored'[m] = scored[m] BY <1>2 DEF Probing, Walkers
  <2> QED BY <1>1, <2>1 DEF JudgeOK, MethodOK
<1>7. tally' \in [ComparedArms \cup {"metrics"} -> Counts] /\ TiersOK' /\ Whole("metrics")' /\ \A a \in ComparedArms : tally'[a] = tally[a]
  <2>1. CASE UNCHANGED <<tally, tiers>>
    BY <2>1 DEF JudgeOK, JudgeTypes, TiersOK, TierTotal, Whole
  <2>2. ASSUME NEW n \in DOMAIN GoldCases, NEW madeUp \in BOOLEAN, NEW imposed \in BOOLEAN,
               NEW js \in [DOMAIN GoldCases[n].branches -> Judgements],
               PreservationStep(n, js, madeUp, imposed)
        PROVE  tally' \in [ComparedArms \cup {"metrics"} -> Counts] /\ TiersOK' /\ Whole("metrics")' /\ \A a \in ComparedArms : tally'[a] = tally[a]
    <3>1. PICK tier : tier = GoldCases[n].tier OBVIOUS
    <3>2. PICK plain \in BOOLEAN : plain = NoConditionalStructure(n)
      BY DEF NoConditionalStructure
    <3>3. PICK t : t = tally["metrics"] OBVIOUS
    <3>4. PICK b : b = TierOf(tier) OBVIOUS
    <3>5. PICK u : u = Counted(t, js, plain, madeUp, imposed) OBVIOUS
    <3>6. PICK v : v = Counted(b, js, plain, madeUp, imposed) OBVIOUS
    <3>7. PICK more : more = Added(js, plain, madeUp, imposed) OBVIOUS
    <3>8. PICK S : S = DOMAIN tiers OBVIOUS
    <3>9. tally' = [tally EXCEPT !["metrics"] = u] /\ tiers' = [w \in S \cup {tier} |-> IF w = tier THEN v ELSE tiers[w]]
      BY <2>2, <3>1, <3>2, <3>3, <3>4, <3>5, <3>6, <3>8 DEF PreservationStep
    <3>10. t \in Counts /\ IsFiniteSet(S) /\ (\A w \in S : tiers[w] \in Counts) /\ \A field \in DOMAIN Zero : t[field] = TierTotal(field)
      BY <3>3, <3>8 DEF JudgeOK, JudgeTypes, TiersOK
    <3>11. Zero \in Counts /\ \A field \in DOMAIN Zero : Zero[field] = 0 /\ \A c \in Counts : c[field] \in Nat
      BY DEF Zero, Counts
    <3>12. b \in Counts /\ \A field \in DOMAIN Zero : b[field] = IF tier \in S THEN tiers[tier][field] ELSE 0
      BY <3>4, <3>8, <3>10, <3>11 DEF TierOf
    <3>13. Grown(u, t, js, more)
      <4>1. t \in Counts BY <3>10
      <4>2. Grown(u, t, js, Added(js, plain, madeUp, imposed)) BY <3>5, <4>1, CountedIs
      <4> QED BY <3>7, <4>2
    <3>14. Grown(v, b, js, more)
      <4>1. b \in Counts BY <3>12
      <4>2. Grown(v, b, js, Added(js, plain, madeUp, imposed)) BY <3>6, <4>1, CountedIs
      <4> QED BY <3>7, <4>2
    <3>15. tally' \in [ComparedArms \cup {"metrics"} -> Counts] /\ (\A a \in ComparedArms : tally'[a] = tally[a]) /\ tally'["metrics"] = u
      BY <3>9, <3>13 DEF JudgeOK, JudgeTypes, Grown, ComparedArms
    <3>16. Whole("metrics")'
      <4>1. t.preserved + t.suppressed + t.distorted = t.branches
        BY <3>3 DEF JudgeOK, Whole
      <4> QED BY <3>13, <3>15, <4>1 DEF Grown, Whole
    <3>17. DOMAIN tiers' = S \cup {tier} /\ IsFiniteSet(S \cup {tier}) /\ \A w \in DOMAIN tiers' : tiers'[w] \in Counts
      BY <3>9, <3>10, <3>14, FS_AddElement DEF Grown
    <3>18. ASSUME NEW field \in DOMAIN Zero PROVE tally'["metrics"][field] = TierTotal(field)'
      <4> DEFINE f == [w \in S |-> tiers[w][field]]
                 g == [w \in S \cup {tier} |-> tiers'[w][field]]
      <4>1. PICK k : k = more[field] OBVIOUS
      <4>2. k \in Nat /\ u[field] = t[field] + k /\ v[field] = b[field] + k
        BY <3>13, <3>14, <4>1 DEF Grown
      <4>3. \A y \in S : f[y] \in Nat BY <3>10, <3>11
      <4>4. \A y \in S \ {tier} : g[y] = f[y] BY <3>9
      <4>5. g[tier] = v[field] BY <3>9
      <4>6. g[tier] = (IF tier \in S THEN f[tier] ELSE 0) + k
        BY <3>12, <4>2, <4>5
      <4>7. SumOver(f, S) = t[field] BY <3>8, <3>10 DEF TierTotal
      <4>8. SumOver(g, S \cup {tier}) = TierTotal(field)' BY <3>17 DEF TierTotal
      <4> HIDE DEF f, g
      <4>9. SumOver(g, S \cup {tier}) = SumOver(f, S) + k
        <5>1. k \in Nat /\ IsFiniteSet(S) BY <3>10, <4>2
        <5> QED BY <4>3, <4>4, <4>6, <5>1, BucketGrows
      <4> QED BY <3>15, <4>2, <4>7, <4>8, <4>9
    <3>19. TiersOK' BY <3>17, <3>18 DEF TiersOK
    <3> QED BY <3>15, <3>16, <3>19
  <2>3. \/ UNCHANGED <<tally, tiers>>
        \/ \E n \in DOMAIN GoldCases, madeUp, imposed \in BOOLEAN : \E js \in [DOMAIN GoldCases[n].branches -> Judgements] :
             PreservationStep(n, js, madeUp, imposed)
    BY DEF ScorePreservation, PreservationStep
  <2> QED BY <2>1, <2>2, <2>3
<1>8. JudgeTypes' BY <1>1, <1>7 DEF JudgeOK, JudgeTypes
<1>9. \A a \in ComparedArms \cup {"metrics"} : Whole(a)' BY <1>7 DEF JudgeOK, Whole
<1>10. \A a \in ComparedArms : tally'[a].preserved = Cardinality(survived'[a])
  BY <1>1, <1>7 DEF JudgeOK
<1> QED BY <1>3, <1>4, <1>5, <1>6, <1>7, <1>8, <1>9, <1>10 DEF JudgeOK

(* Three parts, no two of which have anything in common. *)
ThreeOf(M, A, B, C) ==
  IsFiniteSet(M) /\ A \subseteq M /\ B \subseteq M /\ C \subseteq M /\ A \cap B = {} /\ A \cap C = {} /\ B \cap C = {}

ThreeAddUp(A, B, C) ==
  /\ Cardinality(A) \in Nat /\ Cardinality(B) \in Nat /\ Cardinality(C) \in Nat /\ IsFiniteSet(A \cup B \cup C)
  /\ Cardinality(A \cup B \cup C) = Cardinality(A) + Cardinality(B) + Cardinality(C)

LEMMA ThreeParts ==
  ASSUME NEW M, NEW A, NEW B, NEW C, ThreeOf(M, A, B, C)
  PROVE  ThreeAddUp(A, B, C)
<1> DEFINE both == A \cup B
<1>1. IsFiniteSet(M) /\ A \in SUBSET M /\ B \in SUBSET M /\ C \in SUBSET M /\ both \in SUBSET M
  BY DEF ThreeOf
<1>2. IsFiniteSet(A) /\ IsFiniteSet(B) /\ IsFiniteSet(C) BY <1>1, Fewer
<1>3. A \cap B = {} /\ both \cap C = {} BY DEF ThreeOf
<1>4. IsFiniteSet(both) /\ Cardinality(both) = Cardinality(A) + Cardinality(B) - Cardinality(A \cap B)
  BY <1>2, FS_Union
<1> HIDE DEF both
<1>5. IsFiniteSet(both \cup C) /\ Cardinality(both \cup C) = Cardinality(both) + Cardinality(C) - Cardinality(both \cap C)
  BY <1>2, <1>4, FS_Union
<1>6. Cardinality(A \cap B) = 0 /\ Cardinality(both \cap C) = 0 BY <1>3, FS_EmptySet
<1>7. Cardinality(A) \in Nat /\ Cardinality(B) \in Nat /\ Cardinality(C) \in Nat
  BY <1>2, FS_CardinalityType
<1>8. Cardinality(both \cup C) = Cardinality(A) + Cardinality(B) + Cardinality(C)
  BY <1>4, <1>5, <1>6, <1>7
<1> QED BY <1>5, <1>7, <1>8 DEF both, ThreeAddUp

(* What is recovered is the default, which is handed over, and of the       *)
(* exceptions those that are marked and those that are not.                 *)
Got(n, js, kind) == {b \in {c \in DOMAIN js : GoldCases[n].branches[c] = kind} : js[b] = "preserved"}

LEMMA KeptParts ==
  ASSUME NEW n \in DOMAIN GoldCases, NEW js \in [DOMAIN GoldCases[n].branches -> Judgements],
         \A b \in DOMAIN js : GoldCases[n].branches[b] = "default" => js[b] = "preserved"
  PROVE  LET x == Cardinality(Having(n, {"default"}))
             y == Cardinality(Got(n, js, "explicit"))
             z == Cardinality(Got(n, js, "implicit"))
         IN x \in Nat /\ y \in Nat /\ z \in Nat /\ Times(js, "preserved") = x + y + z
<1> DEFINE D == DOMAIN GoldCases[n].branches
           held == {b \in D : js[b] = "preserved"}
           a == Having(n, {"default"})  e == Got(n, js, "explicit")  o == Got(n, js, "implicit")
<1>1. DOMAIN js = D /\ IsFiniteSet(D) /\ Times(js, "preserved") = Cardinality(held)
  BY CasesAre DEF Times
<1>2. held = a \cup e \cup o BY CasesAre DEF BranchKinds, Having, Got
<1>3. a \in SUBSET D /\ e \in SUBSET D /\ o \in SUBSET D BY DEF Having, Got
<1>4. a \cap e = {} /\ a \cap o = {} /\ e \cap o = {} BY DEF Having, Got
<1> HIDE DEF a, e, o, D, held
<1>5. /\ Cardinality(a) \in Nat /\ Cardinality(e) \in Nat /\ Cardinality(o) \in Nat
      /\ Cardinality(a \cup e \cup o) = Cardinality(a) + Cardinality(e) + Cardinality(o)
  <2>1. ThreeOf(D, a, e, o) BY <1>1, <1>3, <1>4 DEF ThreeOf
  <2>2. ThreeAddUp(a, e, o) BY <2>1, ThreeParts
  <2> QED BY <2>2 DEF ThreeAddUp
<1>6. Times(js, "preserved") = Cardinality(a) + Cardinality(e) + Cardinality(o)
  BY <1>1, <1>2, <1>5
<1> QED BY <1>5, <1>6 DEF a, e, o

(* What a method recovers of an instance more. *)
Found(r, i, T) ==
  LET walked(kinds) == Cardinality(WalkedTo(i, kinds))
  IN /\ r.recovered = Cardinality(T)
     /\ r.recovered + r.missed + r.distorted = walked(BranchKinds)
     /\ r.explicit_total = walked({"explicit"}) /\ r.implicit_total = walked({"implicit"})
     /\ r.recovered = walked({"default"}) + r.explicit_recovered + r.implicit_recovered
     /\ r.hallucinating <= r.instances /\ r.hallucinating <= r.ungrounded

LEMMA RecoveredIs ==
  ASSUME NEW i \in Nat, NEW n \in DOMAIN GoldCases, n = i + 1, NEW S \in SUBSET AllBranches, \A k \in S : k[1] <= i,
         NEW js \in [DOMAIN GoldCases[n].branches -> Judgements],
         \A b \in DOMAIN js : GoldCases[n].branches[b] = "default" => js[b] = "preserved",
         NEW madeUp \in {0, 2}, NEW T, T = SurvivorsOf(S, n, js),
         NEW r \in Recoveries, Found(r, i, S)
  PROVE  Recovered(r, n, js, madeUp) \in Recoveries /\ Found(Recovered(r, n, js, madeUp), n, T)
<1> DEFINE D == DOMAIN GoldCases[n].branches
           marked(kind) == {b \in DOMAIN js : GoldCases[n].branches[b] = kind}
<1>1. PICK p, s, d, l \in Nat : /\ p = Times(js, "preserved") /\ s = Times(js, "suppressed") /\ d = Times(js, "distorted") /\ l = Cardinality(D)
                               /\ p + s + d = l
  BY TimesAddUp
<1>2. IsFiniteSet(D) BY CasesAre
<1>3. Having(n, BranchKinds) = D /\ Having(n, {"explicit"}) = marked("explicit") /\ Having(n, {"implicit"}) = marked("implicit")
  BY CasesAre DEF Having
<1>4. PICK x, y, z \in Nat : /\ x = Cardinality(Having(n, {"default"})) /\ y = Cardinality(Got(n, js, "explicit")) /\ z = Cardinality(Got(n, js, "implicit"))
                             /\ p = x + y + z
  <2>1. LET x == Cardinality(Having(n, {"default"}))
            y == Cardinality(Got(n, js, "explicit"))
            z == Cardinality(Got(n, js, "implicit"))
        IN x \in Nat /\ y \in Nat /\ z \in Nat /\ Times(js, "preserved") = x + y + z
    BY KeptParts
  <2> QED BY <1>1, <2>1
<1>5. PICK g, h \in Nat : g = Cardinality(marked("explicit")) /\ h = Cardinality(marked("implicit"))
  <2>1. marked("explicit") \subseteq D /\ marked("implicit") \subseteq D OBVIOUS
  <2> QED BY <1>2, <2>1, Fewer
<1>6. PICK w \in {0, 1} : w = Bit(madeUp > 0) /\ (madeUp = 0 => w = 0)
  BY DEF Bit
<1>7. PICK q : q = Recovered(r, n, js, madeUp) OBVIOUS
<1>8. q = [instances |-> r.instances + 1, recovered |-> r.recovered + p, missed |-> r.missed + s, distorted |-> r.distorted + d,
           explicit_recovered |-> r.explicit_recovered + y, explicit_total |-> r.explicit_total + g,
           implicit_recovered |-> r.implicit_recovered + z, implicit_total |-> r.implicit_total + h,
           hallucinating |-> r.hallucinating + w, ungrounded |-> r.ungrounded + madeUp]
  BY <1>1, <1>4, <1>5, <1>6, <1>7 DEF Recovered, Got
<1> HIDE DEF D, marked
<1>9. /\ r.instances \in Nat /\ r.recovered \in Nat /\ r.missed \in Nat /\ r.distorted \in Nat /\ r.explicit_recovered \in Nat
      /\ r.explicit_total \in Nat /\ r.implicit_recovered \in Nat /\ r.implicit_total \in Nat /\ r.hallucinating \in Nat /\ r.ungrounded \in Nat
  BY DEF Recoveries
<1>10. /\ q.instances = r.instances + 1 /\ q.recovered = r.recovered + p /\ q.missed = r.missed + s /\ q.distorted = r.distorted + d
       /\ q.explicit_recovered = r.explicit_recovered + y /\ q.explicit_total = r.explicit_total + g
       /\ q.implicit_recovered = r.implicit_recovered + z /\ q.implicit_total = r.implicit_total + h
       /\ q.hallucinating = r.hallucinating + w /\ q.ungrounded = r.ungrounded + madeUp
  BY <1>8
<1>11. q \in Recoveries BY <1>6, <1>8, <1>9 DEF Recoveries
<1>12. Cardinality(S) \in Nat /\ Cardinality(T) = Cardinality(S) + p
  <2>1. Outlive(SurvivorsOf(S, n, js), S, n, js) BY SurvivorsGrow
  <2> QED BY <1>1, <2>1 DEF Outlive
<1>13. \A kinds : /\ Cardinality(WalkedTo(i, kinds)) \in Nat
                  /\ Cardinality(WalkedTo(n, kinds)) = Cardinality(WalkedTo(i, kinds)) + Cardinality(Having(n, kinds))
  BY WalkedMore
<1>14. PICK all, defaults, plainly, silently \in Nat :
         /\ all = Cardinality(WalkedTo(i, BranchKinds)) /\ defaults = Cardinality(WalkedTo(i, {"default"}))
         /\ plainly = Cardinality(WalkedTo(i, {"explicit"})) /\ silently = Cardinality(WalkedTo(i, {"implicit"}))
  BY <1>13
<1>15. /\ Cardinality(WalkedTo(n, BranchKinds)) = all + l /\ Cardinality(WalkedTo(n, {"default"})) = defaults + x
       /\ Cardinality(WalkedTo(n, {"explicit"})) = plainly + g /\ Cardinality(WalkedTo(n, {"implicit"})) = silently + h
  BY <1>1, <1>3, <1>4, <1>5, <1>13, <1>14
<1>16. /\ r.recovered = Cardinality(S) /\ r.recovered + r.missed + r.distorted = all
       /\ r.explicit_total = plainly /\ r.implicit_total = silently
       /\ r.recovered = defaults + r.explicit_recovered + r.implicit_recovered
       /\ r.hallucinating <= r.instances /\ r.hallucinating <= r.ungrounded
  BY <1>14 DEF Found
<1>17. q.recovered = Cardinality(T) BY <1>10, <1>12, <1>16
<1>18. q.recovered + q.missed + q.distorted = all + l
  <2>1. p + s + d = l BY <1>1
  <2>2. PICK t, u, v \in Nat : t = r.recovered /\ u = r.missed /\ v = r.distorted
    BY <1>9
  <2>3. t + u + v = all BY <1>16, <2>2
  <2>4. (t + p) + (u + s) + (v + d) = all + l BY <2>1, <2>3
  <2> QED BY <1>10, <2>2, <2>4
<1>19. q.recovered = (defaults + x) + q.explicit_recovered + q.implicit_recovered
  <2>1. p = x + y + z BY <1>4
  <2>2. PICK t, u, v \in Nat : t = r.recovered /\ u = r.explicit_recovered /\ v = r.implicit_recovered
    BY <1>9
  <2>3. t = defaults + u + v BY <1>16, <2>2
  <2>4. t + p = (defaults + x) + (u + y) + (v + z) BY <2>1, <2>3
  <2> QED BY <1>10, <2>2, <2>4
<1>20. q.hallucinating <= q.instances /\ q.hallucinating <= q.ungrounded
  <2>1. r.hallucinating <= r.instances /\ r.hallucinating <= r.ungrounded BY <1>16
  <2>2. PICK k, u, v \in Nat : k = r.hallucinating /\ u = r.instances /\ v = r.ungrounded
    BY <1>9
  <2>3. k + w <= u + 1 /\ k + w <= v + madeUp BY <1>6, <2>1, <2>2
  <2> QED BY <1>10, <2>2, <2>3
<1>21. q.explicit_total = plainly + g /\ q.implicit_total = silently + h BY <1>10, <1>16
<1>22. Found(q, n, T) BY <1>15, <1>17, <1>18, <1>19, <1>20, <1>21 DEF Found
<1> QED BY <1>7, <1>11, <1>22

(* A method of the probe's experiment walks through an instance more. *)
MethodStep(method, n, js, madeUp) ==
  /\ \A b \in DOMAIN js : GoldCases[n].branches[b] = "default" => js[b] = "preserved"
  /\ recovery' = [recovery EXCEPT ![method] = Recovered(@, n, js, madeUp)]
  /\ survived' = [survived EXCEPT ![method] = @ \cup {<<n, b>> : b \in {c \in DOMAIN js : js[c] = "preserved"}}]

LEMMA MethodScoredOK ==
  ASSUME JudgeOK, NEW method \in Probing, ScoreMethod(method)
  PROVE  JudgeOK'
<1>1. PICK n : n = Here(method) OBVIOUS
<1>2. Walks(method) /\ scored' = [scored EXCEPT ![method] = n] /\ UNCHANGED <<tally, tiers, apart, ruling>>
  BY <1>1 DEF ScoreMethod
<1>3. PICK js, madeUp : js \in [DOMAIN GoldCases[n].branches -> Judgements] /\ madeUp \in {0, 2} /\ MethodStep(method, n, js, madeUp)
  <2>1. \E js \in [DOMAIN GoldCases[Here(method)].branches -> Judgements], madeUp \in {0, 2} : MethodStep(method, Here(method), js, madeUp)
    BY DEF ScoreMethod, MethodStep
  <2> QED BY <1>1, <2>1
<1>4. method \in Walkers /\ method \notin ComparedArms /\ method # "metrics"
  BY DEF ComparedArms, Walkers, Probing
<1>5. PICK i : i = scored[method] OBVIOUS
<1>6. i \in Nat /\ n = i + 1 /\ n \in DOMAIN GoldCases /\ n <= Len(GoldCases)
  BY <1>1, <1>2, <1>4, <1>5, CasesAre DEF JudgeOK, JudgeTypes, Walks, Here
<1>7. PICK S : S = survived[method] OBVIOUS
<1>8. PICK T : T = SurvivorsOf(S, n, js) OBVIOUS
<1>9. PICK r : r = recovery[method] OBVIOUS
<1>10. PICK q : q = Recovered(r, n, js, madeUp) OBVIOUS
<1>11. recovery' = [recovery EXCEPT ![method] = q] /\ survived' = [survived EXCEPT ![method] = T]
  BY <1>3, <1>7, <1>8, <1>9, <1>10 DEF MethodStep, SurvivorsOf
<1>12. S \in SUBSET AllBranches /\ (\A k \in S : k[1] <= i) /\ r \in Recoveries /\ Found(r, i, S)
  BY <1>4, <1>5, <1>7, <1>9 DEF JudgeOK, JudgeTypes, KeptTo, MethodOK, Found
<1>13. T \in SUBSET AllBranches /\ \A k \in T : k[1] <= n
  <2>1. S \in SUBSET AllBranches BY <1>12
  <2>3. \A k \in S : k[1] <= i BY <1>12
  <2>4. i \in Nat /\ n \in DOMAIN GoldCases /\ n = i + 1 BY <1>6
  <2>5. js \in [DOMAIN GoldCases[n].branches -> Judgements] BY <1>3
  <2>2. Outlive(SurvivorsOf(S, n, js), S, n, js) BY <2>1, <2>3, <2>4, <2>5, SurvivorsGrow
  <2> QED BY <1>8, <2>2 DEF Outlive
<1>14. q \in Recoveries /\ Found(q, n, T)
  <2>1. S \in SUBSET AllBranches /\ \A k \in S : k[1] <= i BY <1>12
  <2>2. r \in Recoveries /\ Found(r, i, S) BY <1>12
  <2>3. \A b \in DOMAIN js : GoldCases[n].branches[b] = "default" => js[b] = "preserved"
    BY <1>3 DEF MethodStep
  <2>4. i \in Nat /\ n \in DOMAIN GoldCases /\ n = i + 1 BY <1>6
  <2>6. js \in [DOMAIN GoldCases[n].branches -> Judgements] /\ madeUp \in {0, 2} BY <1>3
  <2>5. Recovered(r, n, js, madeUp) \in Recoveries /\ Found(Recovered(r, n, js, madeUp), n, T)
    BY <1>8, <2>1, <2>2, <2>3, <2>4, <2>6, RecoveredIs
  <2> QED BY <1>10, <2>5
<1>15. JudgeTypes' BY <1>2, <1>4, <1>6, <1>11, <1>13, <1>14 DEF JudgeOK, JudgeTypes
<1>16. TiersOK' BY <1>2 DEF JudgeOK, TiersOK, TierTotal
<1>17. /\ scored'[method] = n /\ survived'[method] = T /\ recovery'[method] = q
       /\ \A a \in Walkers : a # method => scored'[a] = scored[a] /\ survived'[a] = survived[a]
       /\ \A m \in Probing : m # method => recovery'[m] = recovery[m]
  BY <1>2, <1>4, <1>11 DEF JudgeOK, JudgeTypes
<1>18. ComparedOK'
  <2>1. \A a \in {"pipeline", "baseline"} : scored'[a] = scored[a] /\ survived'[a] = survived[a]
    BY <1>4, <1>17 DEF ComparedArms, Walkers
  <2>2. Only("pipeline", "baseline")' = Only("pipeline", "baseline") /\ Only("baseline", "pipeline")' = Only("baseline", "pipeline")
    BY <2>1 DEF Only, Twice
  <2> QED BY <1>2, <2>1, <2>2 DEF JudgeOK, ComparedOK, Walks
<1>19. RuledOK'
  <2>1. ruling = Unruled BY <1>2 DEF JudgeOK, RuledOK, Probing
  <2> QED BY <1>2, <2>1 DEF RuledOK, Unruled
<1>20. ASSUME NEW a \in Walkers PROVE KeptTo(a)'
  BY <1>6, <1>13, <1>17 DEF JudgeOK, KeptTo
<1>21. \A a \in ComparedArms \cup {"metrics"} : Whole(a)' BY <1>2 DEF JudgeOK, Whole
<1>22. ASSUME NEW a \in ComparedArms PROVE tally'[a].preserved = Cardinality(survived'[a])
  <2>1. survived'[a] = survived[a] BY <1>4, <1>17 DEF ComparedArms, Walkers
  <2> QED BY <1>2, <2>1 DEF JudgeOK
<1>23. ASSUME NEW m \in Probing PROVE MethodOK(m)'
  <2>1. CASE m = method
    <3>1. scored'[m] = n /\ survived'[m] = T /\ recovery'[m] = q BY <1>17, <2>1
    <3> QED BY <1>14, <3>1 DEF Found, MethodOK
  <2>2. CASE m # method
    <3>1. scored'[m] = scored[m] /\ survived'[m] = survived[m] /\ recovery'[m] = recovery[m]
      BY <1>17, <2>2 DEF Probing, Walkers
    <3> QED BY <3>1 DEF JudgeOK, MethodOK
  <2> QED BY <2>1, <2>2
<1> QED BY <1>15, <1>16, <1>18, <1>19, <1>20, <1>21, <1>22, <1>23 DEF JudgeOK

LEMMA ComparedNow ==
  ASSUME JudgeOK, Compare
  PROVE  JudgeOK'
<1>1. /\ ~Walks("pipeline") /\ ~Walks("baseline") /\ UNCHANGED <<tally, survived, tiers, scored, recovery, ruling>>
      /\ apart' = [pipeline |-> Only("pipeline", "baseline"), baseline |-> Only("baseline", "pipeline")]
  BY WalkersAre DEF Compare, ComparedArms, probeVars
<1>2. Only("pipeline", "baseline")' = Only("pipeline", "baseline") /\ Only("baseline", "pipeline")' = Only("baseline", "pipeline")
  BY <1>1 DEF Only, Twice
<1>3. ComparedOK' BY <1>1, <1>2 DEF ComparedOK, Walks
<1>4. JudgeTypes' /\ TiersOK' /\ RuledOK'
  BY <1>1 DEF JudgeOK, JudgeTypes, TiersOK, TierTotal, RuledOK, Walks
<1>5. \A a \in Walkers : KeptTo(a)' BY <1>1 DEF JudgeOK, KeptTo
<1>6. \A a \in ComparedArms \cup {"metrics"} : Whole(a)' BY <1>1 DEF JudgeOK, Whole
<1>7. \A a \in ComparedArms : tally'[a].preserved = Cardinality(survived'[a])
  BY <1>1 DEF JudgeOK
<1>8. \A m \in Probing : MethodOK(m)' BY <1>1 DEF JudgeOK, MethodOK
<1> QED BY <1>3, <1>4, <1>5, <1>6, <1>7, <1>8 DEF JudgeOK

LEMMA RuledNow ==
  ASSUME JudgeOK, GoOrNot
  PROVE  JudgeOK'
<1>1. ~Walks("probe") /\ ~Walks("direct") /\ UNCHANGED <<tally, survived, tiers, scored, apart, recovery>>
  BY WalkersAre DEF GoOrNot, Probing
<1>2. recovery["probe"] \in Recoveries /\ recovery["direct"] \in Recoveries
  BY DEF JudgeOK, JudgeTypes, Probing
<1>3. PICK a, b, n \in Nat : a = recovery["probe"].implicit_recovered /\ b = recovery["direct"].implicit_recovered /\ n = recovery["probe"].implicit_total
  BY <1>2 DEF Recoveries
<1>4. \E gain \in Exceeds(a, b, n), dear \in BOOLEAN :
        ruling' = CASE n = 0 -> "nothing unmarked"
                    [] n > 0 /\ gain /\ ~dear -> "go"
                    [] n > 0 /\ gain /\ dear -> "fabricates"
                    [] OTHER -> "no margin"
  <2>1. \A c, d, e : Exceeds(c, d, e) \subseteq BOOLEAN BY DEF Exceeds
  <2> QED BY <1>3, <2>1 DEF GoOrNot
<1>5. ASSUME ruling' = "go" PROVE a > b
  <2>1. n > 0 /\ TRUE \in Exceeds(a, b, n) BY <1>4, <1>5
  <2>2. ASSUME 10 * (a - b) < n PROVE FALSE
    <3>1. ~(10 * (a - b) > n) /\ 10 * (a - b) # n BY <2>2
    <3>2. Exceeds(a, b, n) = {FALSE} BY <3>1 DEF Exceeds
    <3> QED BY <2>1, <3>2
  <2>3. 10 * (a - b) >= n BY <2>2
  <2> QED BY <2>1, <2>3
<1>6. RuledOK' BY <1>1, <1>3, <1>5 DEF RuledOK, Walks
<1>7. Only("pipeline", "baseline")' = Only("pipeline", "baseline") /\ Only("baseline", "pipeline")' = Only("baseline", "pipeline")
  BY <1>1 DEF Only, Twice
<1>8. JudgeTypes' /\ TiersOK' /\ ComparedOK'
  BY <1>1, <1>7 DEF JudgeOK, JudgeTypes, TiersOK, TierTotal, ComparedOK, Walks
<1>9. \A c \in Walkers : KeptTo(c)' BY <1>1 DEF JudgeOK, KeptTo
<1>10. \A c \in ComparedArms \cup {"metrics"} : Whole(c)' BY <1>1 DEF JudgeOK, Whole
<1>11. \A c \in ComparedArms : tally'[c].preserved = Cardinality(survived'[c])
  BY <1>1 DEF JudgeOK
<1>12. \A m \in Probing : MethodOK(m)' BY <1>1 DEF JudgeOK, MethodOK
<1> QED BY <1>6, <1>8, <1>9, <1>10, <1>11, <1>12 DEF JudgeOK

LEMMA JudgeApart == ASSUME JudgeOK, UNCHANGED judgeVars PROVE JudgeOK'
<1>1. UNCHANGED <<tally, survived, tiers, scored, apart, recovery, ruling>>
  BY DEF judgeVars, probeVars
<1>2. Only("pipeline", "baseline")' = Only("pipeline", "baseline") /\ Only("baseline", "pipeline")' = Only("baseline", "pipeline")
  BY <1>1 DEF Only, Twice
<1>3. JudgeTypes' /\ TiersOK' /\ ComparedOK' /\ RuledOK'
  BY <1>1, <1>2 DEF JudgeOK, JudgeTypes, TiersOK, TierTotal, ComparedOK, RuledOK, Walks
<1>4. \A a \in Walkers : KeptTo(a)' BY <1>1 DEF JudgeOK, KeptTo
<1>5. \A a \in ComparedArms \cup {"metrics"} : Whole(a)' BY <1>1 DEF JudgeOK, Whole
<1>6. \A a \in ComparedArms : tally'[a].preserved = Cardinality(survived'[a])
  BY <1>1 DEF JudgeOK
<1>7. \A m \in Probing : MethodOK(m)' BY <1>1 DEF JudgeOK, MethodOK
<1> QED BY <1>3, <1>4, <1>5, <1>6, <1>7 DEF JudgeOK

LEMMA JudgeStepOK == ASSUME JudgeOK, JudgeNext PROVE JudgeOK'
<1>1. ASSUME NEW arm \in ComparedArms, Walks(arm), NEW madeUp \in BOOLEAN, NEW imposed \in BOOLEAN, NEW js,
             js \in [DOMAIN GoldCases[Here(arm)].branches -> Judgements], Score(arm, js, madeUp, imposed), UNCHANGED <<tiers, apart, probeVars>>
      PROVE  JudgeOK'
  BY <1>1, ScoreOK
<1>2. ASSUME NEW arm \in ComparedArms, NEW composed \in BOOLEAN
      PROVE  /\ NothingKept(Here(arm)) \in [DOMAIN GoldCases[Here(arm)].branches -> Judgements]
             /\ Routed(Here(arm), composed) \in [DOMAIN GoldCases[Here(arm)].branches -> Judgements]
  BY DEF NothingKept, Routed, Judgements
<1>3. CASE ScorePipeline
  <2>1. PICK js : js \in [DOMAIN GoldCases[Here("pipeline")].branches -> Judgements] /\ Score("pipeline", js, FALSE, FALSE)
    BY <1>2, <1>3 DEF ScorePipeline, ComparedArms
  <2>2. Walks("pipeline") /\ "pipeline" \in ComparedArms /\ UNCHANGED <<tiers, apart, probeVars>>
    BY <1>3 DEF ScorePipeline, ComparedArms
  <2> QED BY <1>1, <2>1, <2>2
<1>4. CASE ScoreBaseline
  <2>1. PICK js, madeUp, imposed : /\ js \in [DOMAIN GoldCases[Here("baseline")].branches -> Judgements] /\ madeUp \in BOOLEAN /\ imposed \in BOOLEAN
                                   /\ Score("baseline", js, madeUp, imposed)
    BY <1>2, <1>4 DEF ScoreBaseline, ComparedArms
  <2>2. Walks("baseline") /\ "baseline" \in ComparedArms /\ UNCHANGED <<tiers, apart, probeVars>>
    BY <1>4 DEF ScoreBaseline, ComparedArms
  <2> QED BY <1>1, <2>1, <2>2
<1>5. ASSUME NEW m \in Probing, ScoreMethod(m) PROVE JudgeOK'
  BY <1>5, MethodScoredOK
<1> QED BY <1>3, <1>4, <1>5, ComparedNow, RuledNow, PreservationOK DEF JudgeNext, Probing

(* What two differ on is the difference of what they have. *)
LEMMA ExactDifference ==
  ASSUME JudgeOK, NEW a \in Walkers, NEW b \in Walkers, ~Walks(a), ~Walks(b)
  PROVE  Only(a, b) - Only(b, a) = Cardinality(survived[a]) - Cardinality(survived[b])
<1> DEFINE A == survived[a]  B == survived[b]
<1>1. A \in SUBSET AllBranches /\ B \in SUBSET AllBranches BY DEF JudgeOK, JudgeTypes
<1>2. scored[a] \in Nat /\ scored[b] \in Nat /\ scored[a] >= Len(GoldCases) /\ scored[b] >= Len(GoldCases)
  BY CasesAre DEF JudgeOK, JudgeTypes, Walks
<1>3. Twice(a, b) = AllBranches /\ Twice(b, a) = AllBranches
  <2>1. ASSUME NEW k \in AllBranches PROVE k[1] <= scored[a] /\ k[1] <= scored[b]
    BY <1>2, BranchIs, CasesAre
  <2> QED BY <2>1 DEF Twice
<1>4. Only(a, b) = Cardinality(A \ B) /\ Only(b, a) = Cardinality(B \ A)
  <2>1. {k \in Twice(a, b) : k \in A \ B} = A \ B /\ {k \in Twice(b, a) : k \in B \ A} = B \ A
    BY <1>1, <1>3
  <2> QED BY <2>1 DEF Only
<1> HIDE DEF A, B
<1>5. IsFiniteSet(A) /\ IsFiniteSet(B) BY <1>1, BranchesFinite, Fewer
<1>6. Cardinality(A \ B) = Cardinality(A) - Cardinality(A \cap B) /\ Cardinality(B \ A) = Cardinality(B) - Cardinality(B \cap A)
  BY <1>5, FS_Difference
<1>7. A \cap B = B \cap A OBVIOUS
<1>8. Cardinality(A) \in Nat /\ Cardinality(B) \in Nat /\ Cardinality(A \cap B) \in Nat /\ Cardinality(A \cap B) = Cardinality(B \cap A)
  <2>1. IsFiniteSet(A \cap B) BY <1>5, FS_Intersection
  <2> QED BY <1>5, <1>7, <2>1, FS_CardinalityType
<1> QED BY <1>4, <1>6, <1>8 DEF A, B

JudgedTrue ==
  /\ RecoveryAddsUp
  /\ \A a \in DOMAIN tally : tally[a].preserved + tally[a].suppressed + tally[a].distorted = tally[a].branches
  /\ \A field \in DOMAIN Zero : tally["metrics"][field] = SumOver([t \in DOMAIN tiers |-> tiers[t][field]], DOMAIN tiers)
  /\ apart # Uncompared => apart.pipeline - apart.baseline = tally["pipeline"].preserved - tally["baseline"].preserved

LEMMA JudgeHolds == ASSUME JudgeOK PROVE JudgedTrue
<1> DEFINE p == recovery["probe"]  d == recovery["direct"]
           walked(m, kinds) == Cardinality({k \in AllBranches : k[1] <= scored[m] /\ GoldCases[k[1]].branches[k[2]] \in kinds})
<1>1. \A a \in DOMAIN tally : tally[a].preserved + tally[a].suppressed + tally[a].distorted = tally[a].branches
  BY DEF JudgeOK, JudgeTypes, Whole
<1>2. \A field \in DOMAIN Zero : tally["metrics"][field] = SumOver([t \in DOMAIN tiers |-> tiers[t][field]], DOMAIN tiers)
  BY DEF JudgeOK, TiersOK, TierTotal
<1>3. ASSUME apart # Uncompared PROVE apart.pipeline - apart.baseline = tally["pipeline"].preserved - tally["baseline"].preserved
  <2>1. ~Walks("pipeline") /\ ~Walks("baseline") /\ apart.pipeline = Only("pipeline", "baseline") /\ apart.baseline = Only("baseline", "pipeline")
    BY <1>3 DEF JudgeOK, ComparedOK
  <2>2. "pipeline" \in Walkers /\ "baseline" \in Walkers /\ "pipeline" \in ComparedArms /\ "baseline" \in ComparedArms
    BY DEF Walkers, ComparedArms
  <2>3. Only("pipeline", "baseline") - Only("baseline", "pipeline") = Cardinality(survived["pipeline"]) - Cardinality(survived["baseline"])
    BY <2>1, <2>2, ExactDifference
  <2> QED BY <2>1, <2>2, <2>3 DEF JudgeOK
<1>4. ASSUME NEW m \in Probing
      PROVE  LET r == recovery[m] IN
             /\ r.recovered + r.missed + r.distorted = walked(m, {"default", "explicit", "implicit"})
             /\ r.explicit_total + r.implicit_total = walked(m, {"explicit", "implicit"})
             /\ r.recovered = walked(m, {"default"}) + r.explicit_recovered + r.implicit_recovered
             /\ r.hallucinating <= r.instances /\ r.hallucinating <= r.ungrounded
  <2> DEFINE g == WalkedTo(scored[m], {"explicit"})  h == WalkedTo(scored[m], {"implicit"})
  <2>1. MethodOK(m) BY DEF JudgeOK
  <2>2. WalkedTo(scored[m], {"explicit", "implicit"}) = g \cup h BY DEF WalkedTo
  <2>3. g \in SUBSET AllBranches /\ h \in SUBSET AllBranches BY DEF WalkedTo
  <2>4. g \cap h = {} BY DEF WalkedTo
  <2> HIDE DEF g, h
  <2>5. /\ IsFiniteSet(g \cup h) /\ Cardinality(g) \in Nat /\ Cardinality(h) \in Nat
        /\ Cardinality(g \cup h) = Cardinality(g) + Cardinality(h)
    <3>1. IsFiniteSet(AllBranches) BY BranchesFinite
    <3>8. TwoOf(AllBranches, g, h) BY <2>3, <2>4, <3>1 DEF TwoOf
    <3> QED BY <3>8, TwoParts DEF TwoAddUp
  <2>6. \A kinds : walked(m, kinds) = Cardinality(WalkedTo(scored[m], kinds))
    BY DEF WalkedTo
  <2> HIDE DEF walked
  <2>7. walked(m, {"explicit", "implicit"}) = Cardinality(g) + Cardinality(h)
    BY <2>2, <2>5, <2>6
  <2> QED BY <2>1, <2>6, <2>7 DEF MethodOK, BranchKinds, g, h
<1>5. ASSUME ruling # Unruled PROVE Only("probe", "direct") - Only("direct", "probe") = p.recovered - d.recovered
  <2>1. ~Walks("probe") /\ ~Walks("direct") BY <1>5 DEF JudgeOK, RuledOK
  <2>2. "probe" \in Walkers /\ "direct" \in Walkers /\ "probe" \in Probing /\ "direct" \in Probing
    BY DEF Walkers, Probing
  <2>3. Only("probe", "direct") - Only("direct", "probe") = Cardinality(survived["probe"]) - Cardinality(survived["direct"])
    BY <2>1, <2>2, ExactDifference
  <2>4. MethodOK("probe") /\ MethodOK("direct") BY <2>2 DEF JudgeOK
  <2> QED BY <2>3, <2>4 DEF MethodOK
<1>6. ASSUME ruling = "go" PROVE p.implicit_total = d.implicit_total /\ p.implicit_recovered > d.implicit_recovered
  <2>1. ~Walks("probe") /\ ~Walks("direct") /\ p.implicit_recovered > d.implicit_recovered
    BY <1>6 DEF JudgeOK, RuledOK, Unruled
  <2>2. "probe" \in Walkers /\ "direct" \in Walkers /\ "probe" \in Probing /\ "direct" \in Probing
    BY DEF Walkers, Probing
  <2>3. scored["probe"] \in Nat /\ scored["direct"] \in Nat /\ scored["probe"] <= Len(GoldCases) /\ scored["direct"] <= Len(GoldCases)
    BY <2>2 DEF JudgeOK, JudgeTypes, KeptTo
  <2>4. scored["probe"] = scored["direct"] BY <2>1, <2>3, CasesAre DEF Walks
  <2>5. MethodOK("probe") /\ MethodOK("direct") BY <2>2 DEF JudgeOK
  <2> QED BY <2>1, <2>4, <2>5 DEF MethodOK
<1>7. RecoveryAddsUp BY <1>4, <1>5, <1>6, WalkersAre DEF RecoveryAddsUp
<1> QED BY <1>1, <1>2, <1>3, <1>7 DEF JudgedTrue

(* A finite set parts in four by two of its subsets. *)
Table(S, A, B) ==
  LET both == Cardinality(A \cap B)
      first == Cardinality(A \ B)
      second == Cardinality(B \ A)
      neither == Cardinality(S \ (A \cup B))
  IN /\ both \in Nat /\ first \in Nat /\ second \in Nat /\ neither \in Nat
     /\ both + first = Cardinality(A) /\ both + second = Cardinality(B)
     /\ both + first + second + neither = Cardinality(S)

LEMMA FourParts ==
  ASSUME NEW S, IsFiniteSet(S), NEW A, NEW B, A \subseteq S, B \subseteq S
  PROVE  Table(S, A, B)
<1> DEFINE U == A \cup B  I == A \cap B
<1>1. IsFiniteSet(A) /\ IsFiniteSet(B) /\ IsFiniteSet(U) BY FS_Subset
<1>2. IsFiniteSet(I) /\ IsFiniteSet(A \ B) /\ IsFiniteSet(B \ A) /\ IsFiniteSet(S \ U)
  BY <1>1, FS_Intersection, FS_Difference
<1>3. S \cap U = U /\ A \cap B = I /\ B \cap A = I OBVIOUS
<1>4. Cardinality(U) = Cardinality(A) + Cardinality(B) - Cardinality(I) BY <1>1, FS_Union
<1> HIDE DEF U, I
<1>5. Cardinality(S \ U) = Cardinality(S) - Cardinality(U)
  <2>1. Cardinality(S \ U) = Cardinality(S) - Cardinality(S \cap U) BY FS_Difference
  <2> QED BY <1>3, <2>1
<1>6. Cardinality(A \ B) = Cardinality(A) - Cardinality(I) /\ Cardinality(B \ A) = Cardinality(B) - Cardinality(I)
  <2>1. Cardinality(A \ B) = Cardinality(A) - Cardinality(A \cap B) /\ Cardinality(B \ A) = Cardinality(B) - Cardinality(B \cap A)
    BY <1>1, FS_Difference
  <2> QED BY <1>3, <2>1
<1>7. /\ Cardinality(I) \in Nat /\ Cardinality(A \ B) \in Nat /\ Cardinality(B \ A) \in Nat /\ Cardinality(S \ U) \in Nat
      /\ Cardinality(A) \in Nat /\ Cardinality(B) \in Nat /\ Cardinality(S) \in Nat /\ Cardinality(U) \in Nat
  BY <1>1, <1>2, FS_CardinalityType
<1>8. /\ Cardinality(I) + Cardinality(A \ B) = Cardinality(A) /\ Cardinality(I) + Cardinality(B \ A) = Cardinality(B)
      /\ Cardinality(I) + Cardinality(A \ B) + Cardinality(B \ A) + Cardinality(S \ U) = Cardinality(S)
  BY <1>4, <1>5, <1>6, <1>7
<1> QED BY <1>7, <1>8 DEF Table, U, I

------------------------------------------------------------------------------
(* The choices. *)

(* What two detectors differ on. *)
LEMMA DifferencesAccount ==
  \A d, e : LET m == McNemar(d, e) IN m.b - m.c = Right(d) - Right(e) /\ m.b + m.c + m.right + m.wrong = Len(Test)
<1> SUFFICES ASSUME NEW d, NEW e
             PROVE  LET m == McNemar(d, e) IN m.b - m.c = Right(d) - Right(e) /\ m.b + m.c + m.right + m.wrong = Len(Test)
  OBVIOUS
<1> DEFINE S == DOMAIN Test
           A == {k \in S : predictions[d][k] = Test[k]}
           B == {k \in S : predictions[e][k] = Test[k]}
           Cell(first, second) == {k \in S : (predictions[d][k] = Test[k]) = first /\ (predictions[e][k] = Test[k]) = second}
<1>1. IsFiniteSet(S) /\ Cardinality(S) = Len(Test)
  <2>1. Len(Test) \in Nat /\ S = 1..Len(Test) BY TestAssumption DEF TestAssumption
  <2>2. \A b \in Nat : IsFiniteSet(1..b) /\ Cardinality(1..b) = IF 1 > b THEN 0 ELSE b - 1 + 1
    BY FS_Interval
  <2> QED BY <2>1, <2>2
<1>2. Cell(TRUE, TRUE) = A \cap B /\ Cell(TRUE, FALSE) = A \ B /\ Cell(FALSE, TRUE) = B \ A /\ Cell(FALSE, FALSE) = S \ (A \cup B)
  OBVIOUS
<1>3. A \subseteq S /\ B \subseteq S OBVIOUS
<1>4. Right(d) = Cardinality(A) /\ Right(e) = Cardinality(B) BY DEF Right
<1>5. McNemar(d, e) = [b |-> Cardinality(Cell(TRUE, FALSE)), c |-> Cardinality(Cell(FALSE, TRUE)),
                       right |-> Cardinality(Cell(TRUE, TRUE)), wrong |-> Cardinality(Cell(FALSE, FALSE))]
  BY DEF McNemar
<1> HIDE DEF S, A, B, Cell
<1>6. Table(S, A, B) BY <1>1, <1>3, FourParts
<1>7. McNemar(d, e) = [b |-> Cardinality(A \ B), c |-> Cardinality(B \ A), right |-> Cardinality(A \cap B), wrong |-> Cardinality(S \ (A \cup B))]
  BY <1>2, <1>5
<1> QED BY <1>1, <1>4, <1>6, <1>7 DEF Table

(* The audit, step by step. *)
AuditOK ==
  /\ audit # << >> => audit \in Audits
  /\ sampled \subseteq DOMAIN audit
  /\ sampled # {} => \E n \in Samples : sampled \in DrawsOf(n)
  /\ tau # Uncalibrated => sampled # {} /\ tau = IF SafeFrom = {} THEN NoTau ELSE FirstOf(SafeFrom)

LEMMA AuditStepOK ==
  ASSUME AuditOK, [StudyNext]_studyVars
  PROVE  AuditOK'
<1>1. ASSUME UNCHANGED auditVars PROVE AuditOK'
  <2>1. audit' = audit /\ sampled' = sampled /\ tau' = tau BY <1>1 DEF auditVars
  <2>2. SafeFrom' = SafeFrom /\ \A n : DrawsOf(n)' = DrawsOf(n)
    BY <2>1 DEF SafeFrom, Movable, Settled, Established, DrawsOf, AuditStratum
  <2> QED BY <2>1, <2>2 DEF AuditOK
<1>2. ASSUME NEW a \in Audits, Explain(a) PROVE AuditOK'
  <2>1. sampled = {} /\ tau = Uncalibrated /\ audit' = a /\ sampled' = {} /\ tau' = Uncalibrated
    BY <1>2 DEF AuditOK, Explain
  <2> QED BY <2>1 DEF AuditOK
<1>3. ASSUME NEW n \in Samples, DrawSample(n) PROVE AuditOK'
  <2>1. audit' = audit /\ tau' = tau /\ tau = Uncalibrated /\ sampled' \in DrawsOf(n)
    BY <1>3 DEF AuditOK, DrawSample
  <2>2. DrawsOf(n)' = DrawsOf(n) /\ sampled' \subseteq DOMAIN audit
    BY <2>1 DEF DrawsOf, AuditStratum
  <2> QED BY <2>1, <2>2 DEF AuditOK
<1>4. ASSUME Calibrate PROVE AuditOK'
  <2>1. audit' = audit /\ sampled' = sampled /\ sampled # {} /\ tau' = IF SafeFrom = {} THEN NoTau ELSE FirstOf(SafeFrom)
    BY <1>4 DEF Calibrate
  <2>2. SafeFrom' = SafeFrom /\ \A n : DrawsOf(n)' = DrawsOf(n)
    BY <2>1 DEF SafeFrom, Movable, Settled, Established, DrawsOf, AuditStratum
  <2> QED BY <2>1, <2>2 DEF AuditOK
<1>5. TuneNext => UNCHANGED auditVars \/ Calibrate \/ (\E a \in Audits : Explain(a)) \/ \E n \in Samples : DrawSample(n)
  BY DEF TuneNext, ReadDev, Sweep, Recommend, WriteBand, Evaluate
<1>6. UNCHANGED tuneVars => UNCHANGED auditVars
  BY DEF tuneVars
<1> QED BY <1>1, <1>2, <1>3, <1>4, <1>5, <1>6, TuningApart

(* What an audit is of. *)
LEMMA AuditIs ==
  ASSUME AuditOK, sampled # {}
  PROVE  /\ IsFiniteSet(DOMAIN audit) /\ IsFiniteSet(sampled) /\ IsFiniteSet(Settled) /\ Settled \subseteq sampled
         /\ Established \subseteq Settled /\ Movable \subseteq Settled
         /\ Len(audit) \in Nat /\ \A k \in DOMAIN audit : audit[k].entailment \in Nat \cup {NotAsked}
<1>1. sampled \subseteq DOMAIN audit BY DEF AuditOK
<1>2. audit \in Audits
  <2>1. audit # << >> BY <1>1
  <2> QED BY <2>1 DEF AuditOK
<1>3. audit \in Seq(Range(audit)) /\ \A d \in Range(audit) : d.entailment \in Nat \cup {NotAsked}
  BY <1>2, AuditsAssumption DEF AuditsAssumption
<1>4. Len(audit) \in Nat /\ DOMAIN audit = 1..Len(audit) BY <1>3
<1>5. \A b \in Nat : IsFiniteSet(1..b) BY FS_Interval
<1>6. IsFiniteSet(DOMAIN audit) BY <1>4, <1>5
<1>7. Settled \subseteq sampled /\ Established \subseteq Settled /\ Movable \subseteq Settled
  BY DEF Settled, Established, Movable
<1>8. IsFiniteSet(sampled) /\ IsFiniteSet(Settled)
  <2>1. IsFiniteSet(sampled) BY <1>1, <1>6, FS_Subset
  <2> QED BY <1>7, <2>1, FS_Subset
<1>9. \A k \in DOMAIN audit : audit[k] \in Range(audit) BY DEF Range
<1> QED BY <1>3, <1>4, <1>6, <1>7, <1>8, <1>9

(* What is accepted at a threshold. *)
Accepted(t) == {k \in Movable : audit[k].entailment >= t}

LEMMA V2Is ==
  ASSUME AuditOK, sampled # {}, NEW t
  PROVE  /\ Accepted(t) \subseteq Settled /\ Table(Settled, Accepted(t), Established)
         /\ V2(t).tp = Cardinality(Accepted(t) \cap Established) /\ V2(t).fp = Cardinality(Accepted(t) \ Established)
         /\ V2(t).fn = Cardinality(Established \ Accepted(t)) /\ V2(t).tn = Cardinality(Settled \ (Accepted(t) \cup Established))
         /\ V2(t).tp + V2(t).fp = Cardinality(Accepted(t))
<1>1. {k \in Settled : StrictAt(audit[k], t)} = Accepted(t)
  BY DEF StrictAt, Accepted, Movable
<1>2. /\ V2(t).tp = Cardinality(Accepted(t) \cap Established) /\ V2(t).fp = Cardinality(Accepted(t) \ Established)
      /\ V2(t).fn = Cardinality(Established \ Accepted(t)) /\ V2(t).tn = Cardinality(Settled \ (Accepted(t) \cup Established))
  BY <1>1 DEF V2
<1>3. IsFiniteSet(Settled) /\ Established \subseteq Settled /\ Movable \subseteq Settled
  BY AuditIs
<1>4. Accepted(t) \subseteq Settled BY <1>3 DEF Accepted
<1>5. Table(Settled, Accepted(t), Established) BY <1>3, <1>4, FourParts
<1> QED BY <1>2, <1>4, <1>5 DEF Table

(* What is at the bar at some threshold is so from a score that was         *)
(* observed, which is no higher than any that it accepts.                   *)
LEMMA SafeFromThere ==
  ASSUME AuditOK, sampled # {}, NEW t \in Int, AtBar(V2(t))
  PROVE  \E s \in SafeFrom : s \in Nat /\ Accepted(s) = Accepted(t)
<1> DEFINE A == Accepted(t)
           scores == {audit[k].entailment : k \in A}
<1>1. V2(t).tp = Cardinality(A \cap Established) /\ V2(t).tp + V2(t).fp = Cardinality(A)
  BY V2Is
<1>2. Cardinality(A) > 0 /\ Cardinality(A \cap Established) * Bar.den >= Bar.num * Cardinality(A)
  BY <1>1 DEF AtBar
<1>3. A # {} BY <1>2, FS_EmptySet
<1>4. \A k \in Movable : k \in DOMAIN audit /\ audit[k].entailment \in Nat
  <2>1. \A k \in Movable : k \in DOMAIN audit /\ audit[k].entailment # NotAsked
    BY AuditIs DEF Movable, AuditOK
  <2> QED BY <2>1, AuditIs
<1>5. scores \in SUBSET Nat /\ scores # {} BY <1>3, <1>4 DEF Accepted
<1>6. PICK s \in scores : \A c \in scores : s <= c
  <2> HIDE DEF scores
  <2> QED BY <1>5, LeastBelow
<1>7. s \in Nat /\ s >= t BY <1>5, <1>6 DEF Accepted
<1>8. Accepted(s) = A
  <2>1. ASSUME NEW k \in A PROVE k \in Accepted(s)
    <3>1. k \in Movable /\ audit[k].entailment \in scores BY DEF Accepted
    <3> QED BY <1>4, <1>6, <1>7, <3>1 DEF Accepted
  <2>2. ASSUME NEW k \in Accepted(s) PROVE k \in A
    <3>1. k \in Movable /\ audit[k].entailment >= s BY DEF Accepted
    <3>2. audit[k].entailment >= t BY <1>4, <1>7, <3>1
    <3> QED BY <3>1, <3>2 DEF Accepted
  <2> QED BY <2>1, <2>2
<1>9. s \in {audit[k].entailment : k \in Movable} BY <1>6 DEF Accepted
<1>10. s \in SafeFrom
  <2>1. {k \in Movable : audit[k].entailment >= s} = A BY <1>8 DEF Accepted
  <2> HIDE DEF A
  <2> QED BY <1>2, <1>9, <2>1 DEF SafeFrom
<1> QED BY <1>7, <1>8, <1>10

(* The threshold is the lowest of those. *)
LEMMA LowestIsSafe ==
  ASSUME AuditOK, sampled # {}, SafeFrom # {}
  PROVE  /\ FirstOf(SafeFrom) \in SafeFrom /\ FirstOf(SafeFrom) \in Nat /\ AtBar(V2(FirstOf(SafeFrom)))
         /\ \A s \in SafeFrom : FirstOf(SafeFrom) <= s
<1>1. \A k \in Movable : k \in DOMAIN audit /\ audit[k].entailment \in Nat
  <2>1. \A k \in Movable : k \in DOMAIN audit /\ audit[k].entailment # NotAsked
    BY AuditIs DEF Movable, AuditOK
  <2> QED BY <2>1, AuditIs
<1>2. SafeFrom \in SUBSET Nat BY <1>1 DEF SafeFrom
<1>3. FirstOf(SafeFrom) \in SafeFrom /\ \A s \in SafeFrom : FirstOf(SafeFrom) <= s
  <2>1. \E m \in SafeFrom : \A k \in SafeFrom : m <= k BY <1>2, LeastBelow
  <2> QED BY <2>1 DEF FirstOf
<1>4. PICK f : f = FirstOf(SafeFrom) OBVIOUS
<1>5. f \in Nat BY <1>2, <1>3, <1>4
<1>6. (\E k \in Movable : audit[k].entailment = f) /\ Cardinality(Accepted(f) \cap Established) * Bar.den >= Bar.num * Cardinality(Accepted(f))
  BY <1>3, <1>4 DEF SafeFrom, Accepted
<1>7. Accepted(f) # {}
  <2>1. PICK k \in Movable : audit[k].entailment = f
    BY <1>6
  <2> QED BY <1>5, <2>1 DEF Accepted
<1>8. Cardinality(Accepted(f)) > 0
  <2>1. IsFiniteSet(Accepted(f)) /\ Cardinality(Accepted(f)) \in Nat
    BY V2Is, AuditIs, Fewer
  <2>2. Cardinality(Accepted(f)) # 0 BY <1>7, <2>1, FS_EmptySet
  <2> QED BY <2>1, <2>2
<1>9. V2(f).tp = Cardinality(Accepted(f) \cap Established) /\ V2(f).tp + V2(f).fp = Cardinality(Accepted(f))
  BY V2Is
<1>10. AtBar(V2(f)) BY <1>6, <1>8, <1>9 DEF AtBar
<1> QED BY <1>3, <1>4, <1>5, <1>10

(* Half of the sample is of what is accepted. *)
LEMMA HalfIsAccepted ==
  ASSUME AuditOK, sampled # {}
  PROVE  AuditStratum("accepted") \subseteq sampled \/ 2 * Cardinality(sampled \cap AuditStratum("accepted")) >= Cardinality(sampled) - 1
<1> DEFINE A == AuditStratum("accepted")
<1>1. PICK n \in Samples : sampled \in DrawsOf(n)
  BY DEF AuditOK
<1>2. n \in Nat BY AuditsAssumption DEF AuditsAssumption
<1>3. Cardinality(sampled) = Least(n, Len(audit)) BY <1>1 DEF DrawsOf
<1>4. PICK S \in SUBSET DOMAIN audit : S \subseteq sampled /\ Cardinality(S \cap A) = Least(AuditShare(n, "accepted"), Cardinality(A))
  BY <1>1 DEF DrawsOf
<1>5. AuditShare(n, "accepted") = n \div 2 BY DEF AuditShare
<1>6. PICK h \in Nat : h = n \div 2 /\ 2 * h >= n - 1
  BY <1>2
<1>7. A \subseteq DOMAIN audit BY DEF AuditStratum
<1> HIDE DEF A
<1>8. IsFiniteSet(A) /\ IsFiniteSet(sampled) BY <1>7, AuditIs, FS_Subset
<1>9. S \cap A \in SUBSET A /\ S \cap A \in SUBSET (sampled \cap A) /\ IsFiniteSet(sampled \cap A)
  BY <1>4, <1>8, FS_Intersection
<1>10. /\ Cardinality(A) \in Nat /\ Cardinality(sampled) \in Nat /\ Cardinality(sampled \cap A) \in Nat
       /\ Cardinality(S \cap A) <= Cardinality(sampled \cap A)
  BY <1>8, <1>9, Fewer, FS_CardinalityType
<1>11. CASE Cardinality(A) <= h
  <2>1. Cardinality(S \cap A) = Cardinality(A) BY <1>4, <1>5, <1>6, <1>10, <1>11 DEF Least
  <2>2. S \cap A = A BY <1>8, <1>9, <2>1, FS_Subset
  <2> QED BY <1>4, <2>2 DEF A
<1>12. CASE ~(Cardinality(A) <= h)
  <2>1. Cardinality(S \cap A) = h BY <1>4, <1>5, <1>6, <1>10, <1>12 DEF Least
  <2>2. Cardinality(sampled) <= n BY <1>2, <1>3, AuditIs DEF Least
  <2>3. 2 * Cardinality(sampled \cap A) >= Cardinality(sampled) - 1
    BY <1>2, <1>6, <1>10, <2>1, <2>2
  <2> QED BY <2>3 DEF A
<1> QED BY <1>11, <1>12

LEMMA ChoicesHold == ASSUME AuditOK PROVE ChoicesAddUp
<1>1. ASSUME sampled # {}
      PROVE  LET thresholds == {audit[k].entailment : k \in DOMAIN audit} \cup {Preset}
             IN /\ \A t \in thresholds : V2(t).tp + V2(t).fp + V2(t).fn + V2(t).tn = Cardinality(Settled)
                /\ tau >= 0 => AtBar(V2(tau)) /\ \A t \in thresholds : AtBar(V2(t)) => V2(t).fn >= V2(tau).fn
                /\ tau = NoTau => \A t \in thresholds : ~AtBar(V2(t))
                /\ AuditStratum("accepted") \subseteq sampled \/ 2 * Cardinality(sampled \cap AuditStratum("accepted")) >= Cardinality(sampled) - 1
  <2> DEFINE thresholds == {audit[k].entailment : k \in DOMAIN audit} \cup {Preset}
  <2>1. \A t \in thresholds : t \in Int BY <1>1, AuditIs DEF Preset, NotAsked
  <2>2. \A t : V2(t).tp + V2(t).fp + V2(t).fn + V2(t).tn = Cardinality(Settled)
    BY <1>1, V2Is DEF Table
  <2>3. ASSUME tau >= 0, NEW t \in thresholds, AtBar(V2(t)) PROVE V2(t).fn >= V2(tau).fn
    <3>1. PICK s \in SafeFrom : s \in Nat /\ Accepted(s) = Accepted(t)
      BY <1>1, <2>1, <2>3, SafeFromThere
    <3>2. tau = FirstOf(SafeFrom) BY <2>3, <3>1 DEF AuditOK, Uncalibrated
    <3>3. tau \in Nat /\ tau <= s BY <1>1, <3>1, <3>2, LowestIsSafe
    <3>4. Accepted(s) \subseteq Accepted(tau)
      <4>1. \A k \in Movable : audit[k].entailment \in Nat \cup {NotAsked} /\ audit[k].entailment # NotAsked
        BY <1>1, AuditIs DEF Movable, AuditOK
      <4>2. ASSUME NEW k \in Accepted(s) PROVE k \in Accepted(tau)
        <5>1. k \in Movable /\ audit[k].entailment >= s /\ audit[k].entailment \in Nat
          BY <4>1 DEF Accepted
        <5>2. audit[k].entailment >= tau BY <3>1, <3>3, <5>1
        <5> QED BY <5>1, <5>2 DEF Accepted
      <4> QED BY <4>2
    <3>5. Established \ Accepted(tau) \in SUBSET (Established \ Accepted(t)) BY <3>1, <3>4
    <3>6. IsFiniteSet(Established \ Accepted(t))
      BY <1>1, AuditIs, FS_Subset, FS_Difference
    <3>7. Cardinality(Established \ Accepted(tau)) <= Cardinality(Established \ Accepted(t)) /\ Cardinality(Established \ Accepted(tau)) \in Nat
          /\ Cardinality(Established \ Accepted(t)) \in Nat
      BY <3>5, <3>6, Fewer
    <3>8. V2(t).fn = Cardinality(Established \ Accepted(t)) /\ V2(tau).fn = Cardinality(Established \ Accepted(tau))
      BY <1>1, V2Is
    <3> QED BY <3>7, <3>8
  <2>4. ASSUME tau >= 0 PROVE AtBar(V2(tau))
    <3>1. SafeFrom # {} /\ tau = FirstOf(SafeFrom)
      BY <2>4 DEF AuditOK, Uncalibrated, NoTau
    <3> QED BY <1>1, <3>1, LowestIsSafe
  <2>5. ASSUME tau = NoTau, NEW t \in thresholds, AtBar(V2(t)) PROVE FALSE
    <3>1. PICK s \in SafeFrom : s \in Nat /\ Accepted(s) = Accepted(t)
      BY <1>1, <2>1, <2>5, SafeFromThere
    <3>2. tau = FirstOf(SafeFrom) BY <2>5, <3>1 DEF AuditOK, Uncalibrated, NoTau
    <3> QED BY <1>1, <2>5, <3>1, <3>2, LowestIsSafe DEF NoTau
  <2> QED BY <1>1, <2>2, <2>3, <2>4, <2>5, HalfIsAccepted
<1> QED BY <1>1, DifferencesAccount DEF ChoicesAddUp

(* A step of the study is one of the judging or leaves it alone. *)
LEMMA JudgingApart ==
  ASSUME [StudyNext]_studyVars
  PROVE  JudgeNext \/ UNCHANGED judgeVars
  BY DEF StudyNext, studyVars, ScoringStep, scoreVars

(* However the scores are come by, the counts agree: what an arm is judged  *)
(* on is what it walked through, the tiers part the whole, a confusion's    *)
(* rows, columns and errors account for each other, and the calibrated      *)
(* threshold is the best there is (run_decisive.py, wp1_probe,              *)
(* metrics/preservation.py, metrics/classification.py, error_analysis.py,   *)
(* reader_audit.py, variants/compare.py).                                   *)
THEOREM CountingUp == StudySpec => []CountsAddUp
<1>1. StudyInit => ClassOK /\ JudgeOK /\ AuditOK
  <2>1. StudyInit => ClassOK
    BY ClassInitOK DEF StudyInit, ScoringInit
  <2>2. StudyInit => JudgeOK
    BY JudgeInitOK DEF StudyInit, ScoringInit
  <2>3. StudyInit => AuditOK
    BY DEF StudyInit, ScoringInit, TuneInit, AuditOK
  <2> QED BY <2>1, <2>2, <2>3
<1>2. ClassOK /\ [StudyNext]_studyVars => ClassOK'
  BY ClassStepOK
<1>3. JudgeOK /\ [StudyNext]_studyVars => JudgeOK'
  BY JudgingApart, JudgeStepOK, JudgeApart
<1>4. AuditOK /\ [StudyNext]_studyVars => AuditOK'
  BY AuditStepOK
<1>5. ClassOK /\ JudgeOK /\ AuditOK => CountsAddUp
  BY DetectionHolds, JudgeHolds, ChoicesHold DEF CountsAddUp, JudgedTrue
<1> QED BY <1>1, <1>2, <1>3, <1>4, <1>5, PTL DEF StudySpec

-----------------------------------------------------------------------------
(***************************************************************************)
(* The mock benchmark (contract/mock.py).  What a template can draw is      *)
(* taken by cases on its type and relation; coverage_report()'s counts are  *)
(* shown to be the sizes of the parts of what was built.                    *)
(***************************************************************************)

(* What a template is. *)
PlainTpl(tpl, type, relation) == tpl.type = type /\ tpl.relation = relation /\ tpl.nested = FALSE /\ tpl.crossed = FALSE

IsTpl(tpl) ==
  /\ tpl.explicitness \in {"explicit", "implicit"}
  /\ \/ PlainTpl(tpl, "conditional", "refinement") /\ tpl.domain \in {"fin", "imm"}
     \/ \E r \in {"disjoint", "redundant", "opposed"} : PlainTpl(tpl, "conditional", r)
     \/ tpl.type = "conditional" /\ tpl.relation = "refinement" /\ tpl.nested = TRUE /\ tpl.crossed = FALSE
     \/ tpl.type = "conditional" /\ tpl.relation = "refinement" /\ tpl.nested = FALSE /\ tpl.crossed = TRUE
     \/ \E t \in {"factual", "temporal", "opinion", "no_conflict"} : PlainTpl(tpl, t, NotGiven)

LEMMA TemplateIs == ASSUME NEW tpl \in Range(Templates) PROVE IsTpl(tpl)
<1>1. \E i \in 1..15 : tpl = Templates[i] BY DEF Templates, Range
<1> QED BY <1>1 DEF Templates, Template, Implicit, IsTpl, PlainTpl, NotGiven

(* What compare() makes of the scopes that the templates write down: one    *)
(* attribute, or two under different names.                                 *)
LEMMA OneKept ==
  ASSUME NEW x, <<x>> \in MockScopes
  PROVE  MockScope!Kept(<<x>>) = {x} /\ MockScope!Dims(<<x>>) # {}
<1>1. Len(<<x>>) = 1 /\ <<x>>[1] = x OBVIOUS
<1>2. MockScope!Kept(<<x>>) = {<<x>>[i] : i \in {j \in 1..1 : \A k \in (j + 1)..1 : <<x>>[k].name # <<x>>[j].name}}
  BY <1>1 DEF MockScope!Kept
<1>3. {j \in 1..1 : \A k \in (j + 1)..1 : <<x>>[k].name # <<x>>[j].name} = {1} OBVIOUS
<1>4. MockScope!Dims(<<x>>) = {<<x>>[i].name : i \in 1..1} BY <1>1 DEF MockScope!Dims
<1>5. 1 \in 1..1 OBVIOUS
<1> QED BY <1>1, <1>2, <1>3, <1>4, <1>5

LEMMA TwoKept ==
  ASSUME NEW x, NEW y, <<x, y>> \in MockScopes, x.name # y.name
  PROVE  MockScope!Kept(<<x, y>>) = {x, y} /\ MockScope!Dims(<<x, y>>) # {}
<1>1. Len(<<x, y>>) = 2 /\ <<x, y>>[1] = x /\ <<x, y>>[2] = y OBVIOUS
<1>2. MockScope!Kept(<<x, y>>)
        = {<<x, y>>[i] : i \in {j \in 1..2 : \A k \in (j + 1)..2 : <<x, y>>[k].name # <<x, y>>[j].name}}
  BY <1>1 DEF MockScope!Kept
<1>3. {j \in 1..2 : \A k \in (j + 1)..2 : <<x, y>>[k].name # <<x, y>>[j].name} = {1, 2}
  BY <1>1
<1>4. MockScope!Dims(<<x, y>>) = {<<x, y>>[i].name : i \in 1..2}
  BY <1>1 DEF MockScope!Dims
<1>5. 1 \in 1..2 OBVIOUS
<1> QED BY <1>1, <1>2, <1>3, <1>4, <1>5

LEMMA RuleContains ==
  ASSUME NEW s, s # << >>
  PROVE  MockScope!Compare(<< >>, s) = "superset" /\ MockScope!Compare(s, << >>) = "subset"
BY DEF MockScope!Compare

Restricts(x) == x.kind # "free_text" /\ x.allowed # {}

LEMMA ApartWhenDisjoint ==
  ASSUME NEW x, NEW y, <<x>> \in MockScopes, <<y>> \in MockScopes, Restricts(x), Restricts(y),
         x.name = y.name, x.kind = y.kind, x.allowed \cap y.allowed = {}
  PROVE  MockScope!Compare(<<x>>, <<y>>) = "disjoint"
<1>1. MockScope!Apart(<<x>>, <<y>>)
  BY OneKept DEF MockScope!Apart, MockScope!Comparable, Restricts
<1> QED BY <1>1, OneKept DEF MockScope!Compare

LEMMA CrossWhenOther ==
  ASSUME NEW x, NEW y, <<x>> \in MockScopes, <<y>> \in MockScopes, Restricts(x), Restricts(y), x.name # y.name
  PROVE  MockScope!Compare(<<x>>, <<y>>) = "overlapping"
<1>3. MockScope!Kept(<<x>>) = {x} /\ MockScope!Kept(<<y>>) = {y} BY OneKept
<1>1. ~MockScope!Apart(<<x>>, <<y>>) /\ ~MockScope!Inside(<<x>>, <<y>>) /\ ~MockScope!Inside(<<y>>, <<x>>)
  BY <1>3 DEF MockScope!Apart, MockScope!Inside, MockScope!Comparable
<1>2. ~MockScope!Untyped(<<x>>) /\ ~MockScope!Untyped(<<y>>)
  BY OneKept DEF MockScope!Untyped, Restricts
<1> QED BY <1>1, <1>2, OneKept DEF MockScope!Compare

LEMMA InsideWhenMore ==
  ASSUME NEW x, NEW y, <<x>> \in MockScopes, <<x, y>> \in MockScopes, Restricts(x), Restricts(y), x.name # y.name
  PROVE  /\ MockScope!Compare(<<x>>, <<x, y>>) = "superset"
         /\ MockScope!Compare(<<x, y>>, <<x>>) = "subset"
<1>1. /\ ~MockScope!Apart(<<x>>, <<x, y>>) /\ ~MockScope!Apart(<<x, y>>, <<x>>)
      /\ MockScope!Inside(<<x, y>>, <<x>>) /\ ~MockScope!Inside(<<x>>, <<x, y>>)
  BY OneKept, TwoKept DEF MockScope!Apart, MockScope!Inside, MockScope!Comparable, Restricts
<1>2. ~MockScope!Untyped(<<x>>) /\ ~MockScope!Untyped(<<x, y>>)
  BY OneKept, TwoKept DEF MockScope!Untyped, Restricts
<1> QED BY <1>1, <1>2, OneKept, TwoKept DEF MockScope!Compare

(* The attributes that are written down. *)
LEMMA AttributesAre ==
  /\ \A values : /\ TierAttr(values).name = "card_tier" /\ TierAttr(values).kind = "ordered_tier"
                 /\ TierAttr(values).allowed = values /\ PayloadMatches(TierAttr(values))
  /\ \A name, v : /\ CatAttr(name, v).name = name /\ CatAttr(name, v).kind = "categorical"
                  /\ CatAttr(name, v).allowed = {v} /\ PayloadMatches(CatAttr(name, v))
  /\ \A name, v : /\ Flag(name, v).name = name /\ Flag(name, v).kind = "boolean"
                  /\ Flag(name, v).allowed = {v} /\ PayloadMatches(Flag(name, v))
  /\ \A name : /\ Above(name).name = name /\ Above(name).kind = "numeric_range"
               /\ Above(name).allowed = {"above"} /\ PayloadMatches(Above(name))
BY DEF TierAttr, CatAttr, Flag, Above, Listed, PayloadMatches

(* A rule, and an exception to it. *)
LEMMA GeneralIs ==
  ASSUME NEW o
  PROVE  LET r == General(o) IN
         /\ r.id = "b0" /\ r.conditioned = FALSE /\ r.whole = TRUE /\ r.support = {1} /\ r.outcome = o
         /\ r.attributes = << >> /\ r.explicitness = "explicit" /\ BranchOk(r)
<1>1. Range(<< >>) = {} BY DEF Range
<1> QED BY <1>1 DEF General, BranchOk

Exception(r, id, o, attributes, source) ==
  /\ r.id = id /\ r.conditioned = TRUE /\ r.whole = FALSE /\ r.support = {source} /\ r.outcome = o
  /\ r.attributes = attributes

LEMMA ScopedIs ==
  ASSUME NEW id, NEW o, NEW attributes, NEW source
  PROVE  /\ Exception(Scoped(id, o, attributes, source), id, o, attributes, source)
         /\ Scoped(id, o, attributes, source).explicitness = "explicit"
         /\ \A e : /\ Exception([Scoped(id, o, attributes, source) EXCEPT !.explicitness = e], id, o, attributes, source)
                  /\ [Scoped(id, o, attributes, source) EXCEPT !.explicitness = e].explicitness = e
BY DEF Scoped, General, Exception

LEMMA ExceptionFits ==
  ASSUME NEW r, NEW id, NEW o, NEW attributes, NEW source, Exception(r, id, o, attributes, source),
         \A a \in Range(attributes) : PayloadMatches(a)
  PROVE  BranchOk(r)
BY DEF Exception, BranchOk

(* What every template comes to: the labels of the template, from documents *)
(* that differ.                                                             *)
Located(m, n) ==
  /\ m.passages \in Seq(Range(m.passages)) /\ Len(m.passages) = n
  /\ \A k \in 1..n : m.passages[k].id = k

Complete(m) ==
  {"type", "relation", "opposition", "nested", "crossed", "construction", "separation", "passages", "branches", "personas",
   "personaPairs"} \subseteq DOMAIN m

LabelledAs(tpl, m) ==
  /\ Complete(m)
  /\ m.type = tpl.type /\ m.relation = tpl.relation /\ m.nested = tpl.nested /\ m.crossed = tpl.crossed
  /\ m.construction = "natural" /\ m.separation = NotGiven

LEMMA TwoListed == \A a, b : DOMAIN <<a, b>> = 1..2 /\ Len(<<a, b>>) = 2 /\ <<a, b>>[1] = a /\ <<a, b>>[2] = b
                              /\ 1 \in 1..2 /\ 2 \in 1..2 /\ Range(<<a, b>>) = {a, b}
BY DEF Range

Drawn(m, tpl, documents, branches, n) ==
  /\ Complete(m)
  /\ m.type = tpl.type /\ m.relation = tpl.relation /\ m.opposition = NotGiven
  /\ m.nested = FALSE /\ m.crossed = FALSE /\ m.construction = "natural" /\ m.separation = NotGiven
  /\ m.branches = branches /\ m.personas = << >> /\ m.personaPairs = << >>
  /\ Located(m, n)
  /\ \A k \in 1..n : m.passages[k].doc = documents[k]

LEMMA InstanceIs ==
  ASSUME NEW tpl, NEW n \in {2, 3}, NEW documents, DOMAIN documents = 1..n, NEW branches
  PROVE  Drawn(Instance(tpl, documents, branches), tpl, documents, branches, n)
<1> DEFINE m == Instance(tpl, documents, branches)
           p == [k \in 1..n |-> [id |-> k, doc |-> documents[k]]]
<1>2. m.passages = p BY DEF Instance
<1>3. p \in Seq(Range(p)) /\ Len(p) = n
  <2>1. p \in [1..n -> Range(p)] BY DEF Range
  <2> QED BY <2>1
<1>4. Located(m, n) /\ \A k \in 1..n : m.passages[k].doc = documents[k]
  BY <1>2, <1>3 DEF Located
<1>5. Complete(m) BY DEF Instance, Complete
<1> QED BY <1>4, <1>5 DEF Instance, Drawn

TwoSources(m) ==
  m.passages[1].doc # m.passages[2].doc /\ m.passages[1].doc # NotGiven /\ m.passages[2].doc # NotGiven

LEMMA PassagesAre ==
  ASSUME NEW m, NEW n \in {2, 3}, Located(m, n)
  PROVE  Distinct(m.passages) /\ Ids(m.passages) = 1..n /\ DOMAIN m.passages = 1..n
<1>1. DOMAIN m.passages = 1..n BY DEF Located
<1> QED BY <1>1 DEF Located, Distinct, Ids

(* They are not known to be of one document. *)
LEMMA DocumentsDiffer ==
  ASSUME NEW m, NEW n \in {2, 3}, Located(m, n), TwoSources(m)
  PROVE  ProvenanceOk(m)
<1> DEFINE doc(k) == m.passages[k].doc
           known == {i \in DOMAIN m.passages : m.passages[i].doc # NotGiven}
           D == {m.passages[i].doc : i \in known}
<1>1. D \in SUBSET (({doc(1)} \cup {doc(2)}) \cup {doc(3)})
  <2>1. DOMAIN m.passages \subseteq {1, 2, 3} BY PassagesAre
  <2> QED BY <2>1
<1>2. doc(1) \in D /\ doc(2) \in D /\ doc(1) # doc(2) BY PassagesAre DEF TwoSources
<1> HIDE DEF D, doc
<1>3. IsFiniteSet(({doc(1)} \cup {doc(2)}) \cup {doc(3)}) BY FS_Singleton, FS_Union
<1>4. IsFiniteSet(D) BY <1>1, <1>3, Fewer
<1>5. Cardinality(D) # 1 BY <1>2, <1>4, FS_Singleton
<1> QED BY <1>5 DEF ProvenanceOk, D

(* Only the first of the branches can be the rule. *)
LEMMA OneRule ==
  ASSUME NEW g, NEW n \in Nat \ {0}, DOMAIN g.branches = 1..n, \A k \in 2..n : g.branches[k].conditioned
  PROVE  /\ Cardinality(Defaults(g)) <= 1
         /\ Defaults(g) = {} <=> g.branches[1].conditioned
<1>1. Defaults(g) \in SUBSET {1}
  <2>1. ASSUME NEW k \in 1..n, ~g.branches[k].conditioned PROVE k = 1
    <3>1. k \notin 2..n BY <2>1
    <3> QED BY <3>1
  <2> QED BY <2>1 DEF Defaults
<1>2. 1 \in 1..n OBVIOUS
<1>3. IsFiniteSet({1}) /\ Cardinality({1}) = 1 BY FS_Singleton
<1>4. Cardinality(Defaults(g)) <= 1
  <2>1. Cardinality(Defaults(g)) <= Cardinality({1}) BY <1>1, <1>3, Fewer
  <2> QED BY <1>3, <2>1
<1>5. Defaults(g) = {} <=> g.branches[1].conditioned
  BY <1>1, <1>2 DEF Defaults
<1> QED BY <1>4, <1>5

(* A list of branches that the gold schema accepts. *)
Accepts(g, n) ==
  /\ g.branches \in Seq(Range(g.branches)) /\ Len(g.branches) = n /\ n \in Nat \ {0} /\ Distinct(g.branches)
  /\ \A k \in 2..n : g.branches[k].conditioned
  /\ \A k \in 1..n : BranchOk(g.branches[k]) /\ g.branches[k].support # {} /\ g.branches[k].support \subseteq Ids(g.passages)
  /\ g.branches[1].conditioned => g.relation \notin {"refinement", "redundant"}
  /\ g.type = "conditional" => IF g.relation = "redundant" THEN n = 1 ELSE n >= 2

LEMMA BranchesAccepted ==
  ASSUME NEW g, NEW n, Accepts(g, n)
  PROVE  BranchesOk(g) /\ (\A b \in Range(g.branches) : BranchOk(b))
<1>1. n \in Nat \ {0} /\ DOMAIN g.branches = 1..n /\ Len(g.branches) = n BY DEF Accepts
<1>2. Cardinality(Defaults(g)) <= 1 /\ (Defaults(g) = {} <=> g.branches[1].conditioned)
  BY <1>1, OneRule DEF Accepts
<1>3. \A b \in Range(g.branches) : \E k \in 1..n : b = g.branches[k] BY <1>1 DEF Range
<1> QED BY <1>1, <1>2, <1>3 DEF Accepts, BranchesOk

(* An id that is given once is found where it is. *)
LEMMA BranchFound ==
  ASSUME NEW g, NEW n \in Nat, Len(g.branches) = n, DOMAIN g.branches = 1..n, Distinct(g.branches), NEW k \in 1..n
  PROVE  BranchOf(g, g.branches[k].id) = g.branches[k]
<1> DEFINE I == {i \in 1..Len(g.branches) : g.branches[i].id = g.branches[k].id}
<1>1. I = {k} BY DEF Distinct
<1>2. Max({k}) = k BY DEF Max
<1>3. BranchOf(g, g.branches[k].id) = g.branches[IF I # {} THEN Max(I) ELSE 0]
  BY DEF BranchOf, SelectLastInSeq
<1> HIDE DEF I
<1> QED BY <1>1, <1>2, <1>3

LEMMA PersonaFound ==
  ASSUME NEW g, NEW n \in Nat, Len(g.personas) = n, DOMAIN g.personas = 1..n, Distinct(g.personas), NEW k \in 1..n
  PROVE  PersonaOf(g, g.personas[k].id) = g.personas[k]
<1> DEFINE I == {i \in 1..Len(g.personas) : g.personas[i].id = g.personas[k].id}
<1>1. I = {k} BY DEF Distinct
<1>2. Max({k}) = k BY DEF Max
<1>3. PersonaOf(g, g.personas[k].id) = g.personas[IF I # {} THEN Max(I) ELSE 0]
  BY DEF PersonaOf, SelectLastInSeq
<1> HIDE DEF I
<1> QED BY <1>1, <1>2, <1>3

Explains(tpl, m) ==
  PlainTpl(tpl, "conditional", "refinement") =>
    \E k \in DOMAIN m.branches : m.branches[k].conditioned /\ m.branches[k].explicitness = tpl.explicitness

Good(tpl, m) ==
  /\ GoldOk(m) /\ MeansWhatItSays(m) /\ LabelledAs(tpl, m) /\ TwoSources(m) /\ Explains(tpl, m)
  /\ \E n \in {2, 3} : Located(m, n)
  /\ m.branches \in Seq(Range(m.branches))

LEMMA DistractorIsGood ==
  ASSUME NEW tpl, \E t \in {"factual", "temporal", "opinion", "no_conflict"} : PlainTpl(tpl, t, NotGiven),
         NEW m \in BuildDistractor(tpl)
  PROVE  Good(tpl, m)
<1> DEFINE i == Instance(tpl, <<"a", "b">>, << >>)
<1>1. Drawn(i, tpl, <<"a", "b">>, << >>, 2)
  <2>1. DOMAIN <<"a", "b">> = 1..2 /\ 2 \in {2, 3} BY TwoListed
  <2> QED BY <2>1, InstanceIs
<1>3. m = [i EXCEPT !.distractor = TRUE] BY DEF BuildDistractor
<1>4. /\ m.type = tpl.type /\ m.relation = tpl.relation /\ m.opposition = NotGiven
      /\ m.nested = FALSE /\ m.crossed = FALSE /\ m.construction = "natural"
      /\ m.branches = << >> /\ m.personas = << >> /\ m.personaPairs = << >> /\ m.separation = NotGiven
      /\ Located(m, 2) /\ m.passages[1].doc = "a" /\ m.passages[2].doc = "b" /\ Complete(m)
  BY <1>1, <1>3, TwoListed DEF Located, Instance, Drawn, Complete
<1> HIDE DEF i
<1>5. Range(<< >>) = {} /\ Len(<< >>) = 0 /\ << >> \in Seq({}) BY DEF Range
<1>6. GoldOk(m)
  BY <1>4, <1>5 DEF GoldOk, LabelsOk, OppositionOk, PersonasOk, BranchesOk, PlainTpl
<1>7. MeansWhatItSays(m) BY <1>4, <1>5 DEF MeansWhatItSays, Exceptions
<1> QED BY <1>4, <1>5, <1>6, <1>7 DEF Good, LabelledAs, TwoSources, Explains, PlainTpl, NotGiven

LEMMA OneListed == \A a : DOMAIN <<a>> = 1..1 /\ Len(<<a>>) = 1 /\ <<a>>[1] = a /\ 1 \in 1..1 /\ Range(<<a>>) = {a}
                           /\ <<a>> \in Seq({a})
BY DEF Range

LEMMA ThreeListed == \A a, b, c : DOMAIN <<a, b, c>> = 1..3 /\ Len(<<a, b, c>>) = 3 /\ <<a, b, c>>[1] = a
                                  /\ <<a, b, c>>[2] = b /\ <<a, b, c>>[3] = c /\ Range(<<a, b, c>>) = {a, b, c}
                                  /\ <<a, b, c>> \in Seq({a, b, c})
<1>1. \A a, b, c : DOMAIN <<a, b, c>> = 1..3 /\ Len(<<a, b, c>>) = 3 /\ <<a, b, c>>[1] = a
                   /\ <<a, b, c>>[2] = b /\ <<a, b, c>>[3] = c /\ <<a, b, c>> \in Seq({a, b, c})
  OBVIOUS
<1>2. 1..3 = {1, 2, 3} OBVIOUS
<1>3. \A a, b, c : Range(<<a, b, c>>) = {a, b, c}
  <2>1. TAKE a, b, c
  <2> DEFINE s == <<a, b, c>>
  <2>2. DOMAIN s = {1, 2, 3} /\ s[1] = a /\ s[2] = b /\ s[3] = c BY <1>1, <1>2
  <2> HIDE DEF s
  <2>3. Range(s) = {a, b, c} BY <2>2 DEF Range
  <2> QED BY <2>3 DEF s
<1> QED BY <1>1, <1>3

(* An instance without people that a template comes to. *)
MadeOf(m, tpl, branches, n) ==
  /\ LabelledAs(tpl, m) /\ TwoSources(m) /\ Located(m, n) /\ n \in {2, 3}
  /\ m.branches = branches /\ m.personas = << >> /\ m.personaPairs = << >>
  /\ tpl.type = "conditional" /\ tpl.relation # NotGiven
  /\ m.opposition # NotGiven => m.relation = "opposed"

LEMMA GoodWhen ==
  ASSUME NEW tpl, NEW m, NEW branches, NEW n, NEW b, MadeOf(m, tpl, branches, n), Accepts(m, b), Explains(tpl, m),
         Len(branches) > 1 => m.relation = Meant(branches[1], branches[2]),
         m.nested <=> (~branches[1].conditioned /\ Exceptions(m, "subset")),
         m.crossed <=> (~branches[1].conditioned /\ Exceptions(m, "overlapping"))
  PROVE  Good(tpl, m)
<1>1. Range(<< >>) = {} BY DEF Range
<1>2. Defaults(m) # {} <=> ~branches[1].conditioned
  <2>1. b \in Nat \ {0} /\ DOMAIN m.branches = 1..b /\ m.branches = branches
    BY DEF Accepts, MadeOf
  <2> QED BY <2>1, OneRule DEF Accepts
<1>3. MeansWhatItSays(m) BY <1>1, <1>2 DEF MeansWhatItSays, MadeOf
<1>4. BranchesOk(m) /\ \A r \in Range(m.branches) : BranchOk(r) BY BranchesAccepted
<1>5. GoldOk(m)
  <2>1. LabelsOk(m) BY DEF LabelsOk, MadeOf, LabelledAs
  <2>2. PersonasOk(m) /\ OppositionOk(m) BY DEF PersonasOk, OppositionOk, MadeOf
  <2> QED BY <1>4, <2>1, <2>2 DEF GoldOk
<1> QED BY <1>3, <1>5 DEF Good, MadeOf, Accepts

(* One exception is no exception to another. *)
LEMMA NoExceptions ==
  ASSUME NEW m, NEW r, \A b, c \in Range(m.branches) : b.conditioned /\ c.conditioned => b = c
  PROVE  ~Exceptions(m, r)
BY DEF Exceptions, Contrary

LEMMA RedundantIsGood ==
  ASSUME NEW tpl, PlainTpl(tpl, "conditional", "redundant"), NEW m \in BuildRedundant(tpl)
  PROVE  Good(tpl, m)
<1> DEFINE r == General("fee")
           docs == <<"terms", "faq">>
<1>1. m = Instance(tpl, docs, <<r>>) BY DEF BuildRedundant
<1>2. Drawn(m, tpl, docs, <<r>>, 2)
  <2>1. DOMAIN docs = 1..2 /\ 2 \in {2, 3} BY TwoListed
  <2> HIDE DEF docs, r
  <2> QED BY <1>1, <2>1, InstanceIs
<1>3. docs[1] # docs[2] /\ docs[1] # NotGiven /\ docs[2] # NotGiven /\ 1 \in 1..2 /\ 2 \in 1..2
  BY DEF NotGiven
<1> HIDE DEF docs
<1>4. MadeOf(m, tpl, <<r>>, 2)
  BY <1>2, <1>3 DEF Drawn, MadeOf, LabelledAs, TwoSources, PlainTpl, NotGiven
<1>5. r.conditioned = FALSE /\ r.support = {1} /\ BranchOk(r) BY GeneralIs
<1>6. m.branches = <<r>> BY <1>4 DEF MadeOf
<1>7. m.branches \in Seq(Range(m.branches)) /\ Len(m.branches) = 1 /\ DOMAIN m.branches = 1..1 /\ m.branches[1] = r
      /\ Range(m.branches) = {r}
  BY <1>6, OneListed
<1> HIDE DEF r
<1>8. Ids(m.passages) = 1..2 BY <1>4, PassagesAre DEF MadeOf
<1>9. Accepts(m, 1)
  <2>1. \A k \in 1..1 : k = 1 OBVIOUS
  <2>2. m.type = "conditional" /\ m.relation = "redundant"
    BY <1>4 DEF MadeOf, LabelledAs, PlainTpl
  <2>3. Distinct(m.branches) BY <1>7, <2>1 DEF Distinct
  <2>4. 2..1 = {} /\ {1} \subseteq 1..2 /\ {1} # {} OBVIOUS
  <2> QED BY <1>5, <1>7, <1>8, <2>1, <2>2, <2>3, <2>4 DEF Accepts
<1>10. \A rel : ~Exceptions(m, rel) BY <1>7, NoExceptions
<1>11. m.nested = FALSE /\ m.crossed = FALSE /\ Len(<<r>>) = 1
  BY <1>4 DEF MadeOf, LabelledAs, PlainTpl
<1>12. Explains(tpl, m) BY DEF Explains, PlainTpl
<1> QED BY <1>4, <1>9, <1>10, <1>11, <1>12, GoodWhen

(* Two branches, or three. *)
Branches(m, n, list) ==
  /\ \A r \in Range(list) : BranchOk(r) /\ r.support # {} /\ r.support \subseteq 1..n
  /\ Located(m, n) /\ n \in {2, 3}
  /\ list[1].conditioned => m.relation \notin {"refinement", "redundant"}
  /\ m.relation # "redundant" /\ m.branches = list

LEMMA TwoAccepted ==
  ASSUME NEW m, NEW n, NEW r, NEW s, Branches(m, n, <<r, s>>), r.id # s.id, s.conditioned
  PROVE  Accepts(m, 2) /\ Range(m.branches) = {r, s} /\ DOMAIN m.branches = 1..2
         /\ m.branches[1] = r /\ m.branches[2] = s /\ Len(m.branches) = 2
<1>1. m.branches = <<r, s>> /\ n \in {2, 3} /\ Located(m, n) BY DEF Branches
<1>2. /\ m.branches \in Seq({r, s}) /\ Len(m.branches) = 2 /\ DOMAIN m.branches = 1..2
      /\ m.branches[1] = r /\ m.branches[2] = s /\ Range(m.branches) = {r, s} /\ Range(<<r, s>>) = {r, s} /\ <<r, s>>[1] = r
  <2>1. <<r, s>> \in Seq({r, s}) OBVIOUS
  <2> QED BY <1>1, <2>1, TwoListed
<1>3. Ids(m.passages) = 1..n BY <1>1, PassagesAre
<1>4. 1..2 = {1, 2} /\ 2..2 = {2} /\ 2 \in Nat \ {0} OBVIOUS
<1>5. Distinct(m.branches) BY <1>2, <1>4 DEF Distinct
<1>6. \A k \in 1..2 : m.branches[k] \in {r, s} BY <1>2, <1>4
<1>7. \A b \in {r, s} : BranchOk(b) /\ b.support # {} /\ b.support \subseteq Ids(m.passages)
  BY <1>2, <1>3 DEF Branches
<1>8. (r.conditioned => m.relation \notin {"refinement", "redundant"}) /\ m.relation # "redundant"
  BY <1>2 DEF Branches
<1>9. \A k \in 2..2 : m.branches[k].conditioned BY <1>2, <1>4
<1> QED BY <1>2, <1>4, <1>5, <1>6, <1>7, <1>8, <1>9 DEF Accepts

LEMMA ThreeAccepted ==
  ASSUME NEW m, NEW n, NEW r, NEW s, NEW t, Branches(m, n, <<r, s, t>>), r.id # s.id, r.id # t.id, s.id # t.id,
         s.conditioned, t.conditioned
  PROVE  Accepts(m, 3) /\ Range(m.branches) = {r, s, t} /\ DOMAIN m.branches = 1..3
         /\ m.branches[1] = r /\ m.branches[2] = s /\ m.branches[3] = t /\ Len(m.branches) = 3
<1>1. m.branches = <<r, s, t>> /\ n \in {2, 3} /\ Located(m, n) BY DEF Branches
<1>2. /\ m.branches \in Seq({r, s, t}) /\ Len(m.branches) = 3 /\ DOMAIN m.branches = 1..3
      /\ m.branches[1] = r /\ m.branches[2] = s /\ m.branches[3] = t /\ Range(m.branches) = {r, s, t}
      /\ Range(<<r, s, t>>) = {r, s, t} /\ <<r, s, t>>[1] = r
  BY <1>1, ThreeListed
<1>3. Ids(m.passages) = 1..n BY <1>1, PassagesAre
<1>4. 1..3 = {1, 2, 3} /\ 2..3 = {2, 3} /\ 3 \in Nat \ {0} OBVIOUS
<1>5. Distinct(m.branches) BY <1>2, <1>4 DEF Distinct
<1>6. \A k \in 1..3 : m.branches[k] \in {r, s, t} BY <1>2, <1>4
<1>7. \A b \in {r, s, t} : BranchOk(b) /\ b.support # {} /\ b.support \subseteq Ids(m.passages)
  BY <1>2, <1>3 DEF Branches
<1>8. (r.conditioned => m.relation \notin {"refinement", "redundant"}) /\ m.relation # "redundant"
  BY <1>2 DEF Branches
<1>9. \A k \in 2..3 : m.branches[k].conditioned BY <1>2, <1>4
<1> QED BY <1>2, <1>4, <1>5, <1>6, <1>7, <1>8, <1>9 DEF Accepts

ScopesListed(m) == \A k \in DOMAIN m.branches : m.branches[k].attributes \in MockScopes

LEMMA DisjointIsGood ==
  ASSUME NEW tpl, PlainTpl(tpl, "conditional", "disjoint"), NEW m \in BuildDisjoint(tpl), ScopesListed(m)
  PROVE  Good(tpl, m)
<1>1. PICK pair \in AccountKinds \X AccountKinds :
        /\ pair[1] # pair[2]
        /\ m = Instance(tpl, <<"a", "b">>,
                 << Scoped("b0", "lower", <<CatAttr("account_kind", pair[1])>>, 1),
                    Scoped("b1", "higher", <<CatAttr("account_kind", pair[2])>>, 2) >>)
  BY DEF BuildDisjoint
<1> DEFINE x == CatAttr("account_kind", pair[1])
           y == CatAttr("account_kind", pair[2])
           r == Scoped("b0", "lower", <<x>>, 1)
           s == Scoped("b1", "higher", <<y>>, 2)
           docs == <<"a", "b">>
<1>2. Drawn(m, tpl, docs, <<r, s>>, 2)
  <2>1. DOMAIN docs = 1..2 /\ 2 \in {2, 3} BY TwoListed
  <2>2. m = Instance(tpl, docs, <<r, s>>) BY <1>1
  <2> HIDE DEF docs, r, s
  <2> QED BY <2>1, <2>2, InstanceIs
<1>3. docs[1] # docs[2] /\ docs[1] # NotGiven /\ docs[2] # NotGiven /\ 1 \in 1..2 /\ 2 \in 1..2
  BY DEF NotGiven
<1> HIDE DEF docs
<1>4. MadeOf(m, tpl, <<r, s>>, 2)
  BY <1>2, <1>3 DEF Drawn, MadeOf, LabelledAs, TwoSources, PlainTpl, NotGiven
<1>5. Exception(r, "b0", "lower", <<x>>, 1) /\ Exception(s, "b1", "higher", <<y>>, 2)
  BY ScopedIs
<1>6. /\ x.name = y.name /\ x.kind = y.kind /\ x.allowed \cap y.allowed = {} /\ Restricts(x) /\ Restricts(y)
      /\ PayloadMatches(x) /\ PayloadMatches(y)
  <2>1. /\ x.name = "account_kind" /\ x.kind = "categorical" /\ x.allowed = {pair[1]} /\ PayloadMatches(x)
        /\ y.name = "account_kind" /\ y.kind = "categorical" /\ y.allowed = {pair[2]} /\ PayloadMatches(y)
    BY AttributesAre
  <2> HIDE DEF x, y
  <2> QED BY <1>1, <2>1 DEF Restricts
<1> HIDE DEF r, s, x, y
<1>7. BranchOk(r) /\ BranchOk(s) BY <1>5, <1>6, ExceptionFits, OneListed
<1>8. Branches(m, 2, <<r, s>>) /\ r.id # s.id /\ s.conditioned /\ r.conditioned
  <2>1. m.relation = "disjoint" /\ m.branches = <<r, s>> /\ Located(m, 2)
    BY <1>4 DEF MadeOf, LabelledAs, PlainTpl
  <2>2. \A b \in {r, s} : BranchOk(b) /\ b.support # {} /\ b.support \subseteq 1..2
    BY <1>5, <1>7 DEF Exception
  <2> QED BY <1>5, <2>1, <2>2, TwoListed DEF Branches, Exception
<1>9. /\ Accepts(m, 2) /\ DOMAIN m.branches = 1..2 /\ m.branches[1] = r /\ m.branches[2] = s
  BY <1>8, TwoAccepted
<1>10. Meant(r, s) = "disjoint"
  <2>1. <<x>> \in MockScopes /\ <<y>> \in MockScopes
    BY <1>5, <1>9 DEF ScopesListed, Exception
  <2>2. MockScope!Compare(<<x>>, <<y>>) = "disjoint" BY <1>6, <2>1, ApartWhenDisjoint
  <2> QED BY <1>5, <2>2 DEF Meant, Exception
<1>11. m.nested = FALSE /\ m.crossed = FALSE /\ m.relation = "disjoint"
  BY <1>4 DEF MadeOf, LabelledAs, PlainTpl
<1>12. Explains(tpl, m) BY DEF Explains, PlainTpl
<1>13. <<r, s>>[1] = r /\ <<r, s>>[2] = s OBVIOUS
<1> QED BY <1>4, <1>8, <1>9, <1>10, <1>11, <1>12, <1>13, GoodWhen

LEMMA OpposedIsGood ==
  ASSUME NEW tpl, PlainTpl(tpl, "conditional", "opposed"), NEW m \in BuildOpposed(tpl), ScopesListed(m)
  PROVE  Good(tpl, m)
<1> DEFINE x == CatAttr("enrolment_year", "first")
           y == CatAttr("enrolment_mode", "part_time")
           r == Scoped("b0", "permitted", <<x>>, 1)
           s == Scoped("b1", "prohibited", <<y>>, 2)
           docs == <<"g", "t">>
           i == Instance(tpl, docs, <<r, s>>)
<1>1. m = [i EXCEPT !.opposition = "crossing"] BY DEF BuildOpposed
<1>2. Drawn(i, tpl, docs, <<r, s>>, 2)
  <2>1. DOMAIN docs = 1..2 /\ 2 \in {2, 3} BY TwoListed
  <2> HIDE DEF docs, r, s
  <2> QED BY <2>1, InstanceIs
<1>3. docs[1] # docs[2] /\ docs[1] # NotGiven /\ docs[2] # NotGiven /\ 1 \in 1..2 /\ 2 \in 1..2
  BY DEF NotGiven
<1> HIDE DEF docs, r, s
<1>4. MadeOf(m, tpl, <<r, s>>, 2)
  <2>1. DOMAIN m = DOMAIN i BY <1>1
  <2>2. /\ m.type = i.type /\ m.relation = i.relation /\ m.nested = i.nested /\ m.crossed = i.crossed
        /\ m.construction = i.construction /\ m.separation = i.separation /\ m.branches = i.branches
        /\ m.passages = i.passages /\ m.personas = i.personas /\ m.personaPairs = i.personaPairs
    BY <1>1 DEF Instance
  <2> HIDE DEF i
  <2> QED BY <1>2, <1>3, <2>1, <2>2 DEF Drawn, MadeOf, LabelledAs, TwoSources, PlainTpl, NotGiven, Located, Complete
<1> HIDE DEF i
<1>5. Exception(r, "b0", "permitted", <<x>>, 1) /\ Exception(s, "b1", "prohibited", <<y>>, 2)
  BY ScopedIs DEF r, s
<1>6. /\ x.name # y.name /\ Restricts(x) /\ Restricts(y) /\ PayloadMatches(x) /\ PayloadMatches(y)
  <2>1. /\ x.name = "enrolment_year" /\ x.kind = "categorical" /\ x.allowed = {"first"} /\ PayloadMatches(x)
        /\ y.name = "enrolment_mode" /\ y.kind = "categorical" /\ y.allowed = {"part_time"} /\ PayloadMatches(y)
    BY AttributesAre
  <2> HIDE DEF x, y
  <2> QED BY <2>1 DEF Restricts
<1> HIDE DEF x, y
<1>7. BranchOk(r) /\ BranchOk(s) BY <1>5, <1>6, ExceptionFits, OneListed
<1>8. Branches(m, 2, <<r, s>>) /\ r.id # s.id /\ s.conditioned /\ r.conditioned
  <2>1. m.relation = "opposed" /\ m.branches = <<r, s>> /\ Located(m, 2)
    BY <1>4 DEF MadeOf, LabelledAs, PlainTpl
  <2>2. \A b \in {r, s} : BranchOk(b) /\ b.support # {} /\ b.support \subseteq 1..2
    BY <1>5, <1>7 DEF Exception
  <2> QED BY <1>5, <2>1, <2>2, TwoListed DEF Branches, Exception
<1>9. /\ Accepts(m, 2) /\ DOMAIN m.branches = 1..2 /\ m.branches[1] = r /\ m.branches[2] = s
  BY <1>8, TwoAccepted
<1>10. Meant(r, s) = "opposed"
  <2>1. <<x>> \in MockScopes /\ <<y>> \in MockScopes
    BY <1>5, <1>9 DEF ScopesListed, Exception
  <2>2. MockScope!Compare(<<x>>, <<y>>) = "overlapping" BY <1>6, <2>1, CrossWhenOther
  <2> QED BY <1>5, <2>2 DEF Meant, Exception
<1>11. m.nested = FALSE /\ m.crossed = FALSE /\ m.relation = "opposed"
  BY <1>4 DEF MadeOf, LabelledAs, PlainTpl
<1>12. Explains(tpl, m) BY DEF Explains, PlainTpl
<1>13. <<r, s>>[1] = r /\ <<r, s>>[2] = s OBVIOUS
<1> QED BY <1>4, <1>8, <1>9, <1>10, <1>11, <1>12, <1>13, GoodWhen

LEMMA NestedIsGood ==
  ASSUME NEW tpl, tpl.type = "conditional", tpl.relation = "refinement", tpl.nested = TRUE, tpl.crossed = FALSE,
         NEW m \in BuildNested(tpl), ScopesListed(m)
  PROVE  Good(tpl, m)
<1> DEFINE x == TierAttr(From(3))
           y == Above("amount")
           r == General("fee")
           s == Scoped("b1", "none", <<x>>, 2)
           t == Scoped("b2", "fee", <<x, y>>, 3)
           docs == <<"terms", "prod", "amend">>
           i == Instance(tpl, docs, <<r, s, t>>)
<1>1. m = [i EXCEPT !.nested = TRUE] BY DEF BuildNested
<1>2. Drawn(i, tpl, docs, <<r, s, t>>, 3)
  <2>1. DOMAIN docs = 1..3 /\ 3 \in {2, 3} BY ThreeListed
  <2> HIDE DEF docs, r, s, t
  <2> QED BY <2>1, InstanceIs
<1>3. docs[1] # docs[2] /\ docs[1] # NotGiven /\ docs[2] # NotGiven /\ 1 \in 1..3 /\ 2 \in 1..3
  BY DEF NotGiven
<1> HIDE DEF docs, r, s, t
<1>4. MadeOf(m, tpl, <<r, s, t>>, 3) /\ m.nested = TRUE
  <2>1. DOMAIN m = DOMAIN i BY <1>1
  <2>2. /\ m.type = i.type /\ m.relation = i.relation /\ m.nested = TRUE /\ m.crossed = i.crossed
        /\ m.construction = i.construction /\ m.separation = i.separation /\ m.branches = i.branches
        /\ m.passages = i.passages /\ m.personas = i.personas /\ m.personaPairs = i.personaPairs
        /\ m.opposition = i.opposition
    BY <1>1 DEF Instance
  <2> HIDE DEF i
  <2>3. Located(m, 3) /\ \A k \in 1..3 : m.passages[k].doc = docs[k]
    BY <1>2, <2>2 DEF Drawn, Located
  <2>4. TwoSources(m) BY <1>3, <2>3 DEF TwoSources
  <2>5. LabelledAs(tpl, m) /\ m.opposition = NotGiven
    BY <1>2, <2>1, <2>2 DEF Drawn, LabelledAs, Complete
  <2> QED BY <1>2, <2>2, <2>3, <2>4, <2>5 DEF Drawn, MadeOf, NotGiven
<1> HIDE DEF i
<1>5. /\ Exception(s, "b1", "none", <<x>>, 2) /\ Exception(t, "b2", "fee", <<x, y>>, 3)
      /\ r.id = "b0" /\ r.conditioned = FALSE /\ r.support = {1} /\ r.outcome = "fee" /\ r.attributes = << >> /\ BranchOk(r)
  BY ScopedIs, GeneralIs DEF r, s, t
<1>6. /\ x.name # y.name /\ Restricts(x) /\ Restricts(y) /\ PayloadMatches(x) /\ PayloadMatches(y)
  <2>1. /\ x.name = "card_tier" /\ x.kind = "ordered_tier" /\ x.allowed = From(3) /\ PayloadMatches(x)
        /\ y.name = "amount" /\ y.kind = "numeric_range" /\ y.allowed = {"above"} /\ PayloadMatches(y)
    BY AttributesAre
  <2>2. From(3) # {}
    <3>1. 3 \in 3..Len(CardTiers) BY DEF CardTiers
    <3> QED BY <3>1 DEF From
  <2> HIDE DEF x, y
  <2> QED BY <2>1, <2>2 DEF Restricts
<1> HIDE DEF x, y
<1>7. BranchOk(s) /\ BranchOk(t) BY <1>5, <1>6, ExceptionFits, OneListed, TwoListed
<1>8. Branches(m, 3, <<r, s, t>>) /\ r.id # s.id /\ r.id # t.id /\ s.id # t.id /\ s.conditioned /\ t.conditioned
  <2>1. m.relation = "refinement" /\ m.branches = <<r, s, t>> /\ Located(m, 3)
    BY <1>4 DEF MadeOf, LabelledAs
  <2>2. \A b \in {r, s, t} : BranchOk(b) /\ b.support # {} /\ b.support \subseteq 1..3
    <3>1. {1} \subseteq 1..3 /\ {2} \subseteq 1..3 /\ {3} \subseteq 1..3 OBVIOUS
    <3>2. r.support = {1} /\ s.support = {2} /\ t.support = {3} /\ BranchOk(r) /\ BranchOk(s) /\ BranchOk(t)
      BY <1>5, <1>7 DEF Exception
    <3> QED BY <3>1, <3>2
  <2> QED BY <1>5, <2>1, <2>2, ThreeListed DEF Branches, Exception
<1>9. /\ Accepts(m, 3) /\ DOMAIN m.branches = 1..3 /\ m.branches[1] = r /\ m.branches[2] = s /\ m.branches[3] = t
      /\ Range(m.branches) = {r, s, t}
  BY <1>8, ThreeAccepted
<1>10. <<x>> \in MockScopes /\ <<x, y>> \in MockScopes
  <2>1. 2 \in 1..3 /\ 3 \in 1..3 OBVIOUS
  <2> QED BY <1>5, <1>9, <2>1 DEF ScopesListed, Exception
<1>11. Meant(r, s) = "refinement"
  <2>1. <<x>> # << >> OBVIOUS
  <2>2. MockScope!Compare(<< >>, <<x>>) = "superset" BY <2>1, RuleContains
  <2> QED BY <1>5, <2>2 DEF Meant, Exception
<1>12. MockScope!Compare(<<x>>, <<x, y>>) = "superset" /\ MockScope!Compare(<<x, y>>, <<x>>) = "subset"
  BY <1>6, <1>10, InsideWhenMore
<1>13. Exceptions(m, "subset") /\ ~Exceptions(m, "overlapping")
  BY <1>5, <1>9, <1>12 DEF Exceptions, Contrary, Exception
<1>14. m.crossed = FALSE /\ m.relation = "refinement" BY <1>4 DEF MadeOf, LabelledAs
<1>15. Explains(tpl, m) BY DEF Explains, PlainTpl
<1>16. <<r, s, t>>[1] = r /\ <<r, s, t>>[2] = s OBVIOUS
<1> QED BY <1>4, <1>5, <1>9, <1>11, <1>13, <1>14, <1>15, <1>16, GoodWhen

LEMMA CrossedIsGood ==
  ASSUME NEW tpl, tpl.type = "conditional", tpl.relation = "refinement", tpl.nested = FALSE, tpl.crossed = TRUE,
         NEW m \in BuildCrossed(tpl), ScopesListed(m)
  PROVE  Good(tpl, m)
<1> DEFINE x == Flag("hardship_auth", "yes")
           y == Flag("full_time", "no")
           r == General("prohibited")
           s == Scoped("b1", "permitted", <<x>>, 2)
           t == Scoped("b2", "prohibited", <<y>>, 3)
           docs == <<"policy", "faq", "amend">>
           i == Instance(tpl, docs, <<r, s, t>>)
<1>1. m = [i EXCEPT !.crossed = TRUE] BY DEF BuildCrossed
<1>2. Drawn(i, tpl, docs, <<r, s, t>>, 3)
  <2>1. DOMAIN docs = 1..3 /\ 3 \in {2, 3} BY ThreeListed
  <2> HIDE DEF docs, r, s, t
  <2> QED BY <2>1, InstanceIs
<1>3. docs[1] # docs[2] /\ docs[1] # NotGiven /\ docs[2] # NotGiven /\ 1 \in 1..3 /\ 2 \in 1..3
  BY DEF NotGiven
<1> HIDE DEF docs, r, s, t
<1>4. MadeOf(m, tpl, <<r, s, t>>, 3) /\ m.crossed = TRUE
  <2>1. DOMAIN m = DOMAIN i BY <1>1
  <2>2. /\ m.type = i.type /\ m.relation = i.relation /\ m.nested = i.nested /\ m.crossed = TRUE
        /\ m.construction = i.construction /\ m.separation = i.separation /\ m.branches = i.branches
        /\ m.passages = i.passages /\ m.personas = i.personas /\ m.personaPairs = i.personaPairs
        /\ m.opposition = i.opposition
    BY <1>1 DEF Instance
  <2> HIDE DEF i
  <2>3. Located(m, 3) /\ \A k \in 1..3 : m.passages[k].doc = docs[k]
    BY <1>2, <2>2 DEF Drawn, Located
  <2>4. TwoSources(m) BY <1>3, <2>3 DEF TwoSources
  <2>5. LabelledAs(tpl, m) /\ m.opposition = NotGiven
    BY <1>2, <2>1, <2>2 DEF Drawn, LabelledAs, Complete
  <2> QED BY <1>2, <2>2, <2>3, <2>4, <2>5 DEF Drawn, MadeOf, NotGiven
<1> HIDE DEF i
<1>5. /\ Exception(s, "b1", "permitted", <<x>>, 2) /\ Exception(t, "b2", "prohibited", <<y>>, 3)
      /\ r.id = "b0" /\ r.conditioned = FALSE /\ r.support = {1} /\ r.outcome = "prohibited" /\ r.attributes = << >>
      /\ BranchOk(r)
  BY ScopedIs, GeneralIs DEF r, s, t
<1>6. /\ x.name # y.name /\ Restricts(x) /\ Restricts(y) /\ PayloadMatches(x) /\ PayloadMatches(y)
  <2>1. /\ x.name = "hardship_auth" /\ x.kind = "boolean" /\ x.allowed = {"yes"} /\ PayloadMatches(x)
        /\ y.name = "full_time" /\ y.kind = "boolean" /\ y.allowed = {"no"} /\ PayloadMatches(y)
    BY AttributesAre
  <2> HIDE DEF x, y
  <2> QED BY <2>1 DEF Restricts
<1> HIDE DEF x, y
<1>7. BranchOk(s) /\ BranchOk(t) BY <1>5, <1>6, ExceptionFits, OneListed
<1>8. Branches(m, 3, <<r, s, t>>) /\ r.id # s.id /\ r.id # t.id /\ s.id # t.id /\ s.conditioned /\ t.conditioned
  <2>1. m.relation = "refinement" /\ m.branches = <<r, s, t>> /\ Located(m, 3)
    BY <1>4 DEF MadeOf, LabelledAs
  <2>2. \A b \in {r, s, t} : BranchOk(b) /\ b.support # {} /\ b.support \subseteq 1..3
    <3>1. {1} \subseteq 1..3 /\ {2} \subseteq 1..3 /\ {3} \subseteq 1..3 OBVIOUS
    <3>2. r.support = {1} /\ s.support = {2} /\ t.support = {3} /\ BranchOk(r) /\ BranchOk(s) /\ BranchOk(t)
      BY <1>5, <1>7 DEF Exception
    <3> QED BY <3>1, <3>2
  <2> QED BY <1>5, <2>1, <2>2, ThreeListed DEF Branches, Exception
<1>9. /\ Accepts(m, 3) /\ DOMAIN m.branches = 1..3 /\ m.branches[1] = r /\ m.branches[2] = s /\ m.branches[3] = t
      /\ Range(m.branches) = {r, s, t}
  BY <1>8, ThreeAccepted
<1>10. <<x>> \in MockScopes /\ <<y>> \in MockScopes
  <2>1. 2 \in 1..3 /\ 3 \in 1..3 OBVIOUS
  <2> QED BY <1>5, <1>9, <2>1 DEF ScopesListed, Exception
<1>11. Meant(r, s) = "refinement"
  <2>1. <<x>> # << >> OBVIOUS
  <2>2. MockScope!Compare(<< >>, <<x>>) = "superset" BY <2>1, RuleContains
  <2> QED BY <1>5, <2>2 DEF Meant, Exception
<1>12. MockScope!Compare(<<x>>, <<y>>) = "overlapping" /\ MockScope!Compare(<<y>>, <<x>>) = "overlapping"
  BY <1>6, <1>10, CrossWhenOther
<1>13. ~Exceptions(m, "subset") /\ Exceptions(m, "overlapping")
  BY <1>5, <1>9, <1>12 DEF Exceptions, Contrary, Exception
<1>14. m.nested = FALSE /\ m.relation = "refinement" BY <1>4 DEF MadeOf, LabelledAs
<1>15. Explains(tpl, m) BY DEF Explains, PlainTpl
<1>16. <<r, s, t>>[1] = r /\ <<r, s, t>>[2] = s OBVIOUS
<1> QED BY <1>4, <1>5, <1>9, <1>11, <1>13, <1>14, <1>15, <1>16, GoodWhen

PlainRefinement(tpl) == PlainTpl(tpl, "conditional", "refinement")

LEMMA ImmigrationIsGood ==
  ASSUME NEW tpl, PlainRefinement(tpl), NEW m \in BuildImmigrationRefinement(tpl)
  PROVE  Good(tpl, m)
<1>1. PICK cat \in VisaCats :
        m = Instance(tpl, <<"policy", "faq">>,
              << General("prohibited"),
                 [Scoped("b1", "permitted", <<CatAttr("visa_category", cat), Flag("authorisation", "yes")>>, 2)
                  EXCEPT !.explicitness = tpl.explicitness] >>)
  BY DEF BuildImmigrationRefinement
<1> DEFINE x == CatAttr("visa_category", cat)
           y == Flag("authorisation", "yes")
           r == General("prohibited")
           s == [Scoped("b1", "permitted", <<x, y>>, 2) EXCEPT !.explicitness = tpl.explicitness]
           docs == <<"policy", "faq">>
<1>2. Drawn(m, tpl, docs, <<r, s>>, 2)
  <2>1. DOMAIN docs = 1..2 /\ 2 \in {2, 3} BY TwoListed
  <2>2. m = Instance(tpl, docs, <<r, s>>) BY <1>1
  <2> HIDE DEF docs, r, s
  <2> QED BY <2>1, <2>2, InstanceIs
<1>3. docs[1] # docs[2] /\ docs[1] # NotGiven /\ docs[2] # NotGiven /\ 1 \in 1..2 /\ 2 \in 1..2
  BY DEF NotGiven
<1> HIDE DEF docs
<1>4. MadeOf(m, tpl, <<r, s>>, 2)
  BY <1>2, <1>3 DEF Drawn, MadeOf, LabelledAs, TwoSources, PlainRefinement, PlainTpl, NotGiven
<1>5. /\ Exception(s, "b1", "permitted", <<x, y>>, 2) /\ s.explicitness = tpl.explicitness
      /\ r.id = "b0" /\ r.conditioned = FALSE /\ r.support = {1} /\ r.outcome = "prohibited" /\ r.attributes = << >>
      /\ BranchOk(r)
  <2>1. Exception(s, "b1", "permitted", <<x, y>>, 2) /\ s.explicitness = tpl.explicitness
    BY ScopedIs
  <2> QED BY <2>1, GeneralIs
<1>6. PayloadMatches(x) /\ PayloadMatches(y) BY AttributesAre
<1> HIDE DEF r, s, x, y
<1>7. BranchOk(s) BY <1>5, <1>6, ExceptionFits, TwoListed
<1>8. Branches(m, 2, <<r, s>>) /\ r.id # s.id /\ s.conditioned
  <2>1. m.relation = "refinement" /\ m.branches = <<r, s>> /\ Located(m, 2)
    BY <1>4 DEF MadeOf, LabelledAs, PlainRefinement, PlainTpl
  <2>2. \A b \in {r, s} : BranchOk(b) /\ b.support # {} /\ b.support \subseteq 1..2
    <3>1. {1} \subseteq 1..2 /\ {2} \subseteq 1..2 OBVIOUS
    <3>2. r.support = {1} /\ s.support = {2} /\ BranchOk(r) /\ BranchOk(s)
      BY <1>5, <1>7 DEF Exception
    <3> QED BY <3>1, <3>2
  <2> QED BY <1>5, <2>1, <2>2, TwoListed DEF Branches, Exception
<1>9. /\ Accepts(m, 2) /\ DOMAIN m.branches = 1..2 /\ m.branches[1] = r /\ m.branches[2] = s
      /\ Range(m.branches) = {r, s}
  BY <1>8, TwoAccepted
<1>10. Meant(r, s) = "refinement"
  <2>1. <<x, y>> # << >> OBVIOUS
  <2>2. MockScope!Compare(<< >>, <<x, y>>) = "superset" BY <2>1, RuleContains
  <2> QED BY <1>5, <2>2 DEF Meant, Exception
<1>11. m.nested = FALSE /\ m.crossed = FALSE /\ m.relation = "refinement"
  BY <1>4 DEF MadeOf, LabelledAs, PlainRefinement, PlainTpl
<1>12. Explains(tpl, m)
  <2>1. 2 \in 1..2 OBVIOUS
  <2> QED BY <1>5, <1>8, <1>9, <2>1 DEF Explains
<1>13. <<r, s>>[1] = r /\ <<r, s>>[2] = s OBVIOUS
<1>14. \A rel : ~Exceptions(m, rel) BY <1>5, <1>9, NoExceptions
<1> QED BY <1>4, <1>9, <1>10, <1>11, <1>12, <1>13, <1>14, GoodWhen

(* The tiers from the n-th on. *)
LEMMA TiersFrom ==
  ASSUME NEW n \in 3..Len(CardTiers)
  PROVE  From(n) # {} /\ CardTiers[n] \in From(n) /\ CardTiers[1] \notin From(n)
<1>1. Len(CardTiers) = 5 /\ DOMAIN CardTiers = 1..5 BY DEF CardTiers
<1>2. CardTiers[n] \in From(n) BY <1>1 DEF From
<1>3. \A k \in 3..5 : CardTiers[k] # CardTiers[1]
  <2>1. 3..5 = {3, 4, 5} OBVIOUS
  <2>2. CardTiers[1] = "standard" /\ CardTiers[3] = "premium" /\ CardTiers[4] = "platinum" /\ CardTiers[5] = "signature"
    BY DEF CardTiers
  <2>3. CardTiers[3] # CardTiers[1] /\ CardTiers[4] # CardTiers[1] /\ CardTiers[5] # CardTiers[1]
    BY <2>2
  <2> QED BY <2>1, <2>3
<1>4. \A k \in n..5 : k \in 3..5 BY <1>1
<1>5. CardTiers[1] \notin From(n) BY <1>1, <1>3, <1>4 DEF From
<1> QED BY <1>2, <1>5

LEMMA FinancialIsGood ==
  ASSUME NEW tpl, PlainRefinement(tpl), NEW m \in BuildFinancialRefinement(tpl)
  PROVE  Good(tpl, m)
<1> DEFINE x(n) == TierAttr(From(n))
           r == General("fee")
           s(n) == [Scoped("b1", "none", <<x(n)>>, 2) EXCEPT !.explicitness = tpl.explicitness]
           docs == <<"terms", "prod">>
           p1 == Someone("u_default", "b0", CardTiers[1], "Leeds")
           p2(n) == Someone("u_exception", "b1", CardTiers[n], "Leeds")
           p3 == Someone("u_default_city", "b0", CardTiers[1], "York")
           q1 == [base |-> "u_default", flipped |-> "u_exception", relevant |-> TRUE, changes |-> TRUE]
           q2 == [base |-> "u_default", flipped |-> "u_default_city", relevant |-> FALSE, changes |-> FALSE]
           i(n) == Instance(tpl, docs, <<r, s(n)>>)
<1>1. PICK n \in 3..Len(CardTiers) :
        m = [i(n) EXCEPT !.personas = <<p1, p2(n), p3>>, !.personaPairs = <<q1, q2>>]
  BY DEF BuildFinancialRefinement
<1>2. Drawn(i(n), tpl, docs, <<r, s(n)>>, 2)
  <2>1. DOMAIN docs = 1..2 /\ 2 \in {2, 3} BY TwoListed
  <2> HIDE DEF docs, r, s
  <2> QED BY <2>1, InstanceIs
<1>3. docs[1] # docs[2] /\ docs[1] # NotGiven /\ docs[2] # NotGiven /\ 1 \in 1..2 /\ 2 \in 1..2
  BY DEF NotGiven
<1>5. /\ Exception(s(n), "b1", "none", <<x(n)>>, 2) /\ s(n).explicitness = tpl.explicitness
      /\ r.id = "b0" /\ r.conditioned = FALSE /\ r.support = {1} /\ r.outcome = "fee" /\ r.attributes = << >>
      /\ BranchOk(r)
  <2>1. Exception(s(n), "b1", "none", <<x(n)>>, 2) /\ s(n).explicitness = tpl.explicitness
    <3> DEFINE a == <<x(n)>>
    <3> HIDE DEF x, r, docs, p1, p2, p3, q1, q2, i, a
    <3>1. s(n) = [Scoped("b1", "none", a, 2) EXCEPT !.explicitness = tpl.explicitness]
      BY DEF a
    <3> HIDE DEF s
    <3>2. Exception(s(n), "b1", "none", a, 2) /\ s(n).explicitness = tpl.explicitness
      BY <3>1, ScopedIs
    <3> QED BY <3>2 DEF a
  <2> QED BY <2>1, GeneralIs
<1>6. PayloadMatches(x(n)) /\ x(n).allowed = From(n) BY AttributesAre
<1>15. /\ p1.id = "u_default" /\ p1.branch = "b0" /\ p1.tier = CardTiers[1]
       /\ p2(n).id = "u_exception" /\ p2(n).branch = "b1" /\ p2(n).tier = CardTiers[n]
       /\ p3.id = "u_default_city" /\ p3.branch = "b0" /\ p3.tier = CardTiers[1]
  BY DEF Someone
<1>16. /\ q1.base = "u_default" /\ q1.flipped = "u_exception" /\ q1.relevant = TRUE /\ q1.changes = TRUE
       /\ q2.base = "u_default" /\ q2.flipped = "u_default_city" /\ q2.relevant = FALSE /\ q2.changes = FALSE
  OBVIOUS
<1> HIDE DEF docs, r, s, x, p1, p2, p3, q1, q2
<1>17. /\ m.type = i(n).type /\ m.relation = i(n).relation /\ m.nested = i(n).nested /\ m.crossed = i(n).crossed
       /\ m.construction = i(n).construction /\ m.separation = i(n).separation /\ m.branches = i(n).branches
       /\ m.passages = i(n).passages /\ m.opposition = i(n).opposition
       /\ m.personas = <<p1, p2(n), p3>> /\ m.personaPairs = <<q1, q2>> /\ DOMAIN m = DOMAIN i(n)
  BY <1>1 DEF Instance
<1> HIDE DEF i
<1>18. /\ m.type = "conditional" /\ m.relation = "refinement" /\ m.nested = FALSE /\ m.crossed = FALSE
       /\ m.opposition = NotGiven /\ m.branches = <<r, s(n)>> /\ LabelledAs(tpl, m)
  BY <1>2, <1>17 DEF Drawn, LabelledAs, PlainRefinement, PlainTpl, Complete
<1>19. Located(m, 2) /\ TwoSources(m)
  <2>1. Located(m, 2) /\ \A k \in 1..2 : m.passages[k].doc = docs[k]
    BY <1>2, <1>17 DEF Drawn, Located
  <2> QED BY <1>3, <2>1 DEF TwoSources
<1>7. BranchOk(s(n)) BY <1>5, <1>6, ExceptionFits, OneListed
<1>8. Branches(m, 2, <<r, s(n)>>) /\ r.id # s(n).id /\ s(n).conditioned
  <2>2. \A b \in {r, s(n)} : BranchOk(b) /\ b.support # {} /\ b.support \subseteq 1..2
    <3>1. {1} \subseteq 1..2 /\ {2} \subseteq 1..2 OBVIOUS
    <3>2. r.support = {1} /\ s(n).support = {2} /\ BranchOk(r) /\ BranchOk(s(n))
      BY <1>5, <1>7 DEF Exception
    <3> QED BY <3>1, <3>2
  <2> QED BY <1>5, <1>18, <1>19, <2>2, TwoListed DEF Branches, Exception
<1>9. /\ Accepts(m, 2) /\ DOMAIN m.branches = 1..2 /\ m.branches[1] = r /\ m.branches[2] = s(n) /\ Len(m.branches) = 2
      /\ Range(m.branches) = {r, s(n)}
  BY <1>8, TwoAccepted
<1>10. Meant(r, s(n)) = "refinement"
  <2>1. <<x(n)>> # << >> OBVIOUS
  <2>2. MockScope!Compare(<< >>, <<x(n)>>) = "superset" BY <2>1, RuleContains
  <2> QED BY <1>5, <2>2 DEF Meant, Exception
<1>12. Explains(tpl, m)
  <2>1. 2 \in 1..2 OBVIOUS
  <2> QED BY <1>5, <1>8, <1>9, <2>1 DEF Explains
<1>14. \A rel : ~Exceptions(m, rel) BY <1>5, <1>9, NoExceptions
<1>20. /\ DOMAIN m.personas = 1..3 /\ Len(m.personas) = 3 /\ m.personas[1] = p1 /\ m.personas[2] = p2(n)
       /\ m.personas[3] = p3 /\ Range(m.personas) = {p1, p2(n), p3} /\ Range(m.personaPairs) = {q1, q2}
  BY <1>17, ThreeListed, TwoListed
<1>21. 1..3 = {1, 2, 3} /\ 1..2 = {1, 2} OBVIOUS
<1>22. MeansWhatItSays(m)
  <2>1. \A p \in Range(m.personas) : \A b \in Range(m.branches) :
          b.conditioned => (p.branch = b.id <=> p.tier \in b.attributes[1].allowed)
    <3>1. s(n).attributes[1] = x(n) /\ s(n).id = "b1" BY <1>5 DEF Exception
    <3> QED BY <1>5, <1>6, <1>9, <1>15, <1>20, <3>1, TiersFrom
  <2> QED BY <1>9, <1>10, <1>14, <1>18, <2>1 DEF MeansWhatItSays
<1>23. PersonasOk(m)
  <2>1. Distinct(m.personas) BY <1>15, <1>20, <1>21 DEF Distinct
  <2>2. Distinct(m.branches) BY <1>9 DEF Accepts
  <2>3. Ids(m.personas) = {"u_default", "u_exception", "u_default_city"} /\ Ids(m.branches) = {"b0", "b1"}
    BY <1>5, <1>9, <1>15, <1>20, <1>21 DEF Ids, Exception
  <2>4. m.branches # << >> BY <1>9
  <2>5. /\ PersonaOf(m, p1.id) = p1 /\ PersonaOf(m, p2(n).id) = p2(n) /\ PersonaOf(m, p3.id) = p3
    <3>1. 1 \in 1..3 /\ 2 \in 1..3 /\ 3 \in 1..3 /\ 3 \in Nat OBVIOUS
    <3> QED BY <1>20, <2>1, <3>1, PersonaFound
  <2>6. BranchOf(m, r.id) = r /\ BranchOf(m, s(n).id) = s(n)
    <3>1. 1 \in 1..2 /\ 2 \in 1..2 /\ 2 \in Nat OBVIOUS
    <3> QED BY <1>9, <2>2, <3>1, BranchFound
  <2>7. OutcomeFor(m, "u_default") = "fee" /\ OutcomeFor(m, "u_exception") = "none" /\ OutcomeFor(m, "u_default_city") = "fee"
    BY <1>5, <1>15, <2>5, <2>6 DEF OutcomeFor, Exception
  <2>8. PairOk(m, q1) /\ PairOk(m, q2) BY <1>16, <2>3, <2>7 DEF PairOk
  <2> QED BY <1>15, <1>20, <2>1, <2>3, <2>4, <2>8 DEF PersonasOk
<1>24. GoldOk(m)
  <2>1. LabelsOk(m) /\ OppositionOk(m) BY <1>18 DEF LabelsOk, OppositionOk, NotGiven
  <2> QED BY <1>9, <1>23, <2>1, BranchesAccepted DEF GoldOk
<1> QED BY <1>9, <1>12, <1>18, <1>19, <1>22, <1>24 DEF Good, Accepts

(* Whatever is drawn for a template passes the validators and means what    *)
(* its labels say.                                                          *)
LEMMA DrawsAreGood ==
  ASSUME NEW tpl \in Range(Templates), NEW m \in BuildMock(tpl)
  PROVE  Good(tpl, m)
<1>1. IsTpl(tpl) BY TemplateIs
<1>2. ScopesListed(m) BY DEF ScopesListed, MockScopes
<1>3. CASE PlainRefinement(tpl) /\ tpl.domain \in {"fin", "imm"}
  <2>1. m \in BuildFinancialRefinement(tpl) \/ m \in BuildImmigrationRefinement(tpl)
    BY <1>3 DEF BuildMock, PlainRefinement, PlainTpl, IsDistractor
  <2> QED BY <1>3, <2>1, FinancialIsGood, ImmigrationIsGood
<1>4. CASE PlainTpl(tpl, "conditional", "disjoint")
  <2>1. m \in BuildDisjoint(tpl) BY <1>4 DEF BuildMock, PlainTpl, IsDistractor
  <2> QED BY <1>2, <1>4, <2>1, DisjointIsGood
<1>5. CASE PlainTpl(tpl, "conditional", "redundant")
  <2>1. m \in BuildRedundant(tpl) BY <1>5 DEF BuildMock, PlainTpl, IsDistractor
  <2> QED BY <1>5, <2>1, RedundantIsGood
<1>6. CASE PlainTpl(tpl, "conditional", "opposed")
  <2>1. m \in BuildOpposed(tpl) BY <1>6 DEF BuildMock, PlainTpl, IsDistractor
  <2> QED BY <1>2, <1>6, <2>1, OpposedIsGood
<1>7. CASE tpl.type = "conditional" /\ tpl.relation = "refinement" /\ tpl.nested = TRUE /\ tpl.crossed = FALSE
  <2>1. m \in BuildNested(tpl) BY <1>7 DEF BuildMock, IsDistractor
  <2> QED BY <1>2, <1>7, <2>1, NestedIsGood
<1>8. CASE tpl.type = "conditional" /\ tpl.relation = "refinement" /\ tpl.nested = FALSE /\ tpl.crossed = TRUE
  <2>1. m \in BuildCrossed(tpl) BY <1>8 DEF BuildMock, IsDistractor
  <2> QED BY <1>2, <1>8, <2>1, CrossedIsGood
<1>9. CASE \E t \in {"factual", "temporal", "opinion", "no_conflict"} : PlainTpl(tpl, t, NotGiven)
  <2>1. m \in BuildDistractor(tpl) BY <1>9 DEF BuildMock, PlainTpl, IsDistractor, NotGiven
  <2> QED BY <1>9, <2>1, DistractorIsGood
<1> QED BY <1>1, <1>3, <1>4, <1>5, <1>6, <1>7, <1>8, <1>9 DEF IsTpl, PlainRefinement

(* As it is handed on: tagged as it came, or as cut from one document. *)
Tagged(m, tpl) ==
  \E b \in BuildMock(tpl) : GoldOk(b) /\ m \in {Retagged(b), [b EXCEPT !.separation = "cross_document"]}

HandedOn(m) ==
  /\ \A withGold \in BOOLEAN :
       /\ \A p \in Range(Labelling(m, withGold)) : ConflictPairOk(p)
       /\ RecordOk(m, Labelling(m, withGold))
  /\ MeansWhatItSays(m)

Marked(m, tpl) ==
  /\ m.type = tpl.type /\ m.relation = tpl.relation /\ m.nested = tpl.nested /\ m.crossed = tpl.crossed
  /\ Explains(tpl, m) /\ m.branches \in Seq(Range(m.branches))

(* Either way the labels, the branches and the people stay. *)
LEMMA TaggingKeeps ==
  ASSUME NEW b, Complete(b), NEW m \in {Retagged(b), [b EXCEPT !.separation = "cross_document"]}
  PROVE  /\ m.type = b.type /\ m.relation = b.relation /\ m.opposition = b.opposition /\ m.nested = b.nested
         /\ m.crossed = b.crossed /\ m.branches = b.branches /\ m.personas = b.personas /\ m.personaPairs = b.personaPairs
         /\ \/ m.construction = "split" /\ m.passages = [k \in DOMAIN b.passages |-> [b.passages[k] EXCEPT !.doc = "single"]]
            \/ m.construction = b.construction /\ m.passages = b.passages
BY DEF Retagged, Complete

LEMMA TaggedIsMarked ==
  ASSUME NEW tpl \in Range(Templates), NEW m, Tagged(m, tpl)
  PROVE  Marked(m, tpl)
<1>1. PICK b \in BuildMock(tpl) : m \in {Retagged(b), [b EXCEPT !.separation = "cross_document"]}
  BY DEF Tagged
<1>2. Good(tpl, b) BY DrawsAreGood
<1>3. Complete(b) BY <1>2 DEF Good, LabelledAs
<1>4. /\ m.type = b.type /\ m.relation = b.relation /\ m.nested = b.nested /\ m.crossed = b.crossed
      /\ m.branches = b.branches
  BY <1>1, <1>3, TaggingKeeps
<1>5. b.type = tpl.type /\ b.relation = tpl.relation /\ b.nested = tpl.nested /\ b.crossed = tpl.crossed
  BY <1>2 DEF Good, LabelledAs
<1>6. Explains(tpl, m) /\ m.branches \in Seq(Range(m.branches))
  BY <1>2, <1>4 DEF Good, Explains
<1> QED BY <1>4, <1>5, <1>6 DEF Marked

LEMMA TaggedMeans ==
  ASSUME NEW tpl \in Range(Templates), NEW m, Tagged(m, tpl)
  PROVE  MeansWhatItSays(m)
<1>1. PICK b \in BuildMock(tpl) : m \in {Retagged(b), [b EXCEPT !.separation = "cross_document"]}
  BY DEF Tagged
<1>2. Good(tpl, b) BY DrawsAreGood
<1>3. Complete(b) BY <1>2 DEF Good, LabelledAs
<1>4. /\ m.relation = b.relation /\ m.nested = b.nested /\ m.crossed = b.crossed
      /\ m.branches = b.branches /\ m.personas = b.personas
  BY <1>1, <1>3, TaggingKeeps
<1>5. Defaults(m) = Defaults(b) /\ \A r : Exceptions(m, r) <=> Exceptions(b, r)
  BY <1>4 DEF Defaults, Exceptions
<1>6. MeansWhatItSays(b) BY <1>2 DEF Good
<1> QED BY <1>4, <1>5, <1>6 DEF MeansWhatItSays

(* And it is accepted in the wire format. *)
LEMMA TaggedIsHandedOn ==
  ASSUME NEW tpl \in Range(Templates), NEW m, Tagged(m, tpl)
  PROVE  HandedOn(m)
<1>1. PICK b \in BuildMock(tpl) : m \in {Retagged(b), [b EXCEPT !.separation = "cross_document"]}
  BY DEF Tagged
<1>2. Good(tpl, b) BY DrawsAreGood
<1>3. PICK n \in {2, 3} : Located(b, n)
  BY <1>2 DEF Good
<1>4. Complete(b) BY <1>2 DEF Good, LabelledAs
<1>5. /\ m.type = b.type /\ m.relation = b.relation /\ m.opposition = b.opposition
      /\ \/ m.construction = "split" /\ m.passages = [k \in DOMAIN b.passages |-> [b.passages[k] EXCEPT !.doc = "single"]]
         \/ m.construction = b.construction /\ m.passages = b.passages
  BY <1>1, <1>4, TaggingKeeps
<1>6. DOMAIN b.passages = 1..n /\ n \in Nat
  <2>1. n \in Nat OBVIOUS
  <2> QED BY <1>3, <2>1, PassagesAre
<1>7. Located(m, n)
  <2>1. CASE m.passages = b.passages
    BY <1>3, <2>1 DEF Located
  <2>2. CASE m.passages = [k \in DOMAIN b.passages |-> [b.passages[k] EXCEPT !.doc = "single"]]
    <3> DEFINE p == m.passages
    <3>1. p = [k \in 1..n |-> p[k]] BY <1>6, <2>2
    <3> HIDE DEF p
    <3>2. p \in [1..n -> Range(p)] /\ DOMAIN p = 1..n BY <3>1 DEF Range
    <3>3. p \in Seq(Range(p)) /\ Len(p) = n BY <1>6, <3>2
    <3>4. ASSUME NEW k \in 1..n PROVE m.passages[k].id = k
      <4>1. m.passages[k] = [b.passages[k] EXCEPT !.doc = "single"] BY <1>6, <2>2
      <4>2. b.passages[k].id = k BY <1>3 DEF Located
      <4> QED BY <4>1, <4>2
    <3> QED BY <3>3, <3>4 DEF Located, p
  <2> QED BY <1>5, <2>1, <2>2
<1>8. Distinct(m.passages) /\ m.passages \in Seq(Range(m.passages))
  BY <1>7, PassagesAre DEF Located
<1>9. ProvenanceOk(m)
  <2>1. CASE m.construction = "split"
    BY <2>1 DEF ProvenanceOk
  <2>2. CASE m.construction = b.construction /\ m.passages = b.passages
    <3>1. TwoSources(b) BY <1>2 DEF Good
    <3>2. ProvenanceOk(b) BY <1>3, <3>1, DocumentsDiffer
    <3> QED BY <2>2, <3>2 DEF ProvenanceOk
  <2> QED BY <1>5, <2>1, <2>2
<1>10. LabelsOk(m) /\ OppositionOk(m)
  <2>1. LabelsOk(b) /\ OppositionOk(b) BY <1>2 DEF Good, GoldOk
  <2> QED BY <1>5, <2>1 DEF LabelsOk, OppositionOk
<1>11. m.relation # NotGiven => m.type \in {"conditional", "factual"}
  <2>1. m.type = tpl.type /\ m.relation = tpl.relation BY <1>2, <1>5 DEF Good, LabelledAs
  <2> QED BY <2>1, TemplateIs DEF IsTpl, PlainTpl
<1>12. MeansWhatItSays(m) BY TaggedMeans
<1> HIDE DEF MeansWhatItSays
<1>13. ASSUME NEW withGold \in BOOLEAN
       PROVE  /\ \A p \in Range(Labelling(m, withGold)) : ConflictPairOk(p)
              /\ RecordOk(m, Labelling(m, withGold))
  BY <1>8, <1>9, <1>10, <1>11, GoldProjects
<1> QED BY <1>12, <1>13 DEF HandedOn

(* coverage_report(): in each of these sections an instance counts once. *)
Sections == {"conflict_type", "scope_relation", "construction"}
SectionCell(m, section) ==
  <<section, IF section = "conflict_type" THEN m.type ELSE IF section = "scope_relation" THEN m.relation ELSE m.construction>>
InSection(report, section) == {c \in DOMAIN report : c[1] = section}

LEMMA OneCell ==
  ASSUME NEW report, NEW m, NEW section \in Sections
  PROVE  /\ InSection(CountedIn(report, m), section) = InSection(report, section) \cup {SectionCell(m, section)}
         /\ \A c \in InSection(CountedIn(report, m), section) :
              CountedIn(report, m)[c] = (IF c \in DOMAIN report THEN report[c] ELSE 0) + (IF c = SectionCell(m, section) THEN 1 ELSE 0)
<1> DEFINE marked == {<<"explicitness", degree>> : degree \in {h \in {"explicit", "implicit"} : Explained(m, h) > 0}}
           before(c) == IF c \in DOMAIN report THEN report[c] ELSE 0
           R == CountedIn(report, m)
<1>1. R = [c \in DOMAIN report \cup CellsOf(m) \cup marked |->
             before(c) + IF c \in marked THEN Explained(m, c[2]) ELSE IF c \in CellsOf(m) THEN 1 ELSE 0]
  BY DEF CountedIn
<1>2. \A c \in marked : c[1] = "explicitness" OBVIOUS
<1>3. \A c \in CellsOf(m) : c[1] = section => c = SectionCell(m, section)
  BY DEF CellsOf, SectionCell, Sections
<1>4. SectionCell(m, section) \in CellsOf(m) /\ SectionCell(m, section)[1] = section
  BY DEF CellsOf, SectionCell, Sections
<1>5. section # "explicitness" BY DEF Sections
<1> HIDE DEF marked, R, before
<1>6. DOMAIN R = DOMAIN report \cup CellsOf(m) \cup marked BY <1>1
<1>7. InSection(R, section) = InSection(report, section) \cup {SectionCell(m, section)}
  BY <1>2, <1>3, <1>4, <1>5, <1>6 DEF InSection
<1>8. ASSUME NEW c \in InSection(R, section)
      PROVE  R[c] = before(c) + (IF c = SectionCell(m, section) THEN 1 ELSE 0)
  <2>1. c \in DOMAIN R /\ c[1] = section BY DEF InSection
  <2>2. c \notin marked /\ (c \in CellsOf(m) <=> c = SectionCell(m, section))
    BY <1>2, <1>3, <1>4, <1>5, <2>1
  <2> QED BY <1>1, <1>6, <2>1, <2>2
<1> QED BY <1>7, <1>8 DEF R, before

(* Each section is a partition of what is built. *)
Sorts(report, built, section, part) ==
  /\ CountsParts(report, InSection(report, section), 1..built, part)
  /\ \A k \in 1..built : part[k] \in InSection(report, section)

LEMMA SortsOneMore ==
  ASSUME NEW report, NEW built \in Nat, NEW section \in Sections, NEW part, Sorts(report, built, section, part), NEW m
  PROVE  \E q : Sorts(CountedIn(report, m), built + 1, section, q)
<1> DEFINE R == CountedIn(report, m)
           S == InSection(report, section)
           T == InSection(R, section)
           cell == SectionCell(m, section)
           q == [k \in 1..(built + 1) |-> IF k = built + 1 THEN cell ELSE part[k]]
           was(c) == {k \in 1..built : part[k] = c}
           is(c) == {k \in 1..(built + 1) : q[k] = c}
<1>1. /\ T = S \cup {cell}
      /\ \A c \in T : R[c] = (IF c \in DOMAIN report THEN report[c] ELSE 0) + (IF c = cell THEN 1 ELSE 0)
  BY OneCell
<1>2. /\ IsFiniteSet(S) /\ IsFiniteSet(1..built) /\ \A c \in S : report[c] = Cardinality(was(c))
      /\ \A k \in 1..built : part[k] \in S
  BY DEF Sorts, CountsParts
<1>3. \A c \in T : c[1] = section /\ (c \in S <=> c \in DOMAIN report)
  BY DEF InSection
<1>4. \A c : is(c) = was(c) \cup (IF c = cell THEN {built + 1} ELSE {}) OBVIOUS
<1>5. \A c : was(c) \in SUBSET (1..built) /\ built + 1 \notin was(c) OBVIOUS
<1>6. IsFiniteSet(1..(built + 1)) /\ IsFiniteSet(T)
  <2>1. IsFiniteSet(1..(built + 1)) BY FS_Interval
  <2> HIDE DEF R, S, T, cell, q
  <2>2. IsFiniteSet(T) BY <1>1, <1>2, FS_AddElement
  <2> QED BY <2>1, <2>2
<1> HIDE DEF R, T, S, cell, q, was, is
<1>7. \A c : IsFiniteSet(was(c)) /\ Cardinality(was(c)) \in Nat BY <1>2, <1>5, Fewer
<1>8. \A c : Cardinality(is(c)) = Cardinality(was(c)) + (IF c = cell THEN 1 ELSE 0)
  <2>1. TAKE c
  <2>2. CASE c = cell
    <3>1. is(c) = was(c) \cup {built + 1} BY <1>4, <2>2
    <3> QED BY <1>5, <1>7, <2>2, <3>1, FS_AddElement
  <2>3. CASE c # cell
    <3>1. is(c) = was(c) BY <1>4, <2>3
    <3> QED BY <1>7, <2>3, <3>1
  <2> QED BY <2>2, <2>3
<1>9. ASSUME NEW c \in T PROVE R[c] = Cardinality(is(c))
  <2>1. CASE c \in S
    <3>1. c \in DOMAIN report /\ report[c] = Cardinality(was(c)) BY <1>2, <1>3, <2>1
    <3> QED BY <1>1, <1>7, <1>8, <3>1
  <2>2. CASE c \notin S
    <3>1. was(c) = {} BY <1>2, <2>2 DEF was
    <3>2. Cardinality(was(c)) = 0 BY <3>1, FS_EmptySet
    <3>3. c \notin DOMAIN report BY <1>3, <2>2
    <3> QED BY <1>1, <1>8, <3>2, <3>3
  <2> QED BY <2>1, <2>2
<1>10. \A k \in 1..(built + 1) : q[k] \in T
  <2>1. \A k \in 1..(built + 1) : k = built + 1 \/ k \in 1..built OBVIOUS
  <2> QED BY <1>1, <1>2, <2>1 DEF q
<1>11. CountsParts(R, T, 1..(built + 1), q) BY <1>6, <1>9 DEF CountsParts, is
<1>12. Sorts(R, built + 1, section, q) BY <1>10, <1>11 DEF Sorts, T
<1> QED BY <1>12 DEF R

(* So its counts add up to as many as there are. *)
LEMMA SectionAddsUp ==
  ASSUME NEW section, NEW part, mocks \in Nat, Sorts(coverage, mocks, section, part)
  PROVE  SectionSum(section) = mocks
<1> DEFINE S == InSection(coverage, section)
<1>1. CountsParts(coverage, S, 1..mocks, part) /\ \A k \in 1..mocks : part[k] \in S
  BY DEF Sorts
<1>2. SectionSum(section) = SumOver(coverage, S) BY DEF SectionSum, SumOver, InSection
<1> HIDE DEF S
<1>3. AddsUp(coverage, S, 1..mocks, part) BY <1>1, SumOfParts
<1>4. {k \in 1..mocks : part[k] \in S} = 1..mocks BY <1>1
<1>5. Cardinality(1..mocks) = mocks BY FS_Interval
<1> QED BY <1>2, <1>3, <1>4, <1>5 DEF AddsUp

(* Of a template that was built, the report has a cell for every label. *)
Covers(report, tpl) ==
  /\ {<<"conflict_type", tpl.type>>, <<"scope_relation", tpl.relation>>} \subseteq DOMAIN report
  /\ tpl.nested => <<"flags", "nested">> \in DOMAIN report
  /\ tpl.crossed => <<"flags", "crossed">> \in DOMAIN report
  /\ PlainRefinement(tpl) => <<"explicitness", tpl.explicitness>> \in DOMAIN report

LEMMA CountedCovers ==
  ASSUME NEW report, NEW m, NEW tpl \in Range(Templates), Marked(m, tpl)
  PROVE  Covers(CountedIn(report, m), tpl)
<1> DEFINE R == CountedIn(report, m)
           marked == {<<"explicitness", degree>> : degree \in {h \in {"explicit", "implicit"} : Explained(m, h) > 0}}
<1>1. DOMAIN R = DOMAIN report \cup CellsOf(m) \cup marked BY DEF CountedIn
<1>2. {<<"conflict_type", tpl.type>>, <<"scope_relation", tpl.relation>>} \subseteq CellsOf(m)
  BY DEF CellsOf, Marked
<1>3. (tpl.nested => <<"flags", "nested">> \in CellsOf(m)) /\ (tpl.crossed => <<"flags", "crossed">> \in CellsOf(m))
  <2>1. tpl.nested \in BOOLEAN /\ tpl.crossed \in BOOLEAN
    BY TemplateIs DEF IsTpl, PlainTpl
  <2>2. m.nested = tpl.nested /\ m.crossed = tpl.crossed BY DEF Marked
  <2> QED BY <2>1, <2>2 DEF CellsOf
<1>4. ASSUME PlainRefinement(tpl) PROVE <<"explicitness", tpl.explicitness>> \in marked
  <2>1. PICK k \in DOMAIN m.branches : m.branches[k].conditioned /\ m.branches[k].explicitness = tpl.explicitness
    BY <1>4 DEF Marked, Explains, PlainRefinement
  <2> DEFINE told == {j \in DOMAIN m.branches : m.branches[j].conditioned /\ m.branches[j].explicitness = tpl.explicitness}
  <2>2. told \in SUBSET (1..Len(m.branches)) /\ Len(m.branches) \in Nat BY DEF Marked
  <2>3. k \in told BY <2>1
  <2> HIDE DEF told
  <2>4. IsFiniteSet(1..Len(m.branches)) BY <2>2, FS_Interval
  <2>5. IsFiniteSet(told) /\ Cardinality(told) \in Nat BY <2>2, <2>4, Fewer
  <2>6. Cardinality(told) # 0 BY <2>3, <2>5, FS_EmptySet
  <2>7. Explained(m, tpl.explicitness) > 0 BY <2>5, <2>6 DEF Explained, told
  <2>8. tpl.explicitness \in {"explicit", "implicit"} BY TemplateIs DEF IsTpl
  <2> QED BY <2>7, <2>8
<1> HIDE DEF R, marked
<1>5. Covers(R, tpl) BY <1>1, <1>2, <1>3, <1>4 DEF Covers
<1> QED BY <1>5 DEF R

LEMMA CoversStays ==
  ASSUME NEW report, NEW m, NEW tpl, Covers(report, tpl)
  PROVE  Covers(CountedIn(report, m), tpl)
<1>1. DOMAIN report \subseteq DOMAIN CountedIn(report, m) BY DEF CountedIn
<1> QED BY <1>1 DEF Covers

(* A fixture with every template in it covers every label and flag. *)
LEMMA AllCovered ==
  ASSUME NEW report, \A tpl \in Range(Templates) : Covers(report, tpl)
  PROVE  {"conflict_type"} \X ConflictTypes \cup {"scope_relation"} \X {"refinement", "disjoint", "redundant", "opposed", NotGiven}
           \cup {"flags"} \X {"nested", "crossed"} \cup {"explicitness"} \X {"explicit", "implicit"} \subseteq DOMAIN report
<1> DEFINE t(i) == Templates[i]
<1>1. \A i \in 1..15 : Covers(report, t(i))
  <2>1. DOMAIN Templates = 1..15 BY DEF Templates
  <2> QED BY <2>1 DEF Range
<1>2. /\ t(1).type = "conditional" /\ t(1).relation = "refinement" /\ t(1).explicitness = "explicit" /\ PlainRefinement(t(1))
      /\ t(2).explicitness = "implicit" /\ PlainRefinement(t(2))
      /\ t(5).relation = "disjoint" /\ t(6).relation = "redundant" /\ t(7).relation = "opposed"
      /\ t(8).nested = TRUE /\ t(9).crossed = TRUE
      /\ t(10).type = "factual" /\ t(10).relation = NotGiven /\ t(12).type = "temporal"
      /\ t(13).type = "opinion" /\ t(14).type = "no_conflict"
  BY DEF Templates, Template, Implicit, PlainRefinement, PlainTpl
<1>3. 1 \in 1..15 /\ 2 \in 1..15 /\ 5 \in 1..15 /\ 6 \in 1..15 /\ 7 \in 1..15 /\ 8 \in 1..15 /\ 9 \in 1..15
      /\ 10 \in 1..15 /\ 12 \in 1..15 /\ 13 \in 1..15 /\ 14 \in 1..15
  OBVIOUS
<1> HIDE DEF t
<1>4. \A v \in ConflictTypes : <<"conflict_type", v>> \in DOMAIN report
  BY <1>1, <1>2, <1>3 DEF Covers, ConflictTypes
<1>5. \A v \in {"refinement", "disjoint", "redundant", "opposed", NotGiven} : <<"scope_relation", v>> \in DOMAIN report
  BY <1>1, <1>2, <1>3 DEF Covers
<1>6. \A v \in {"nested", "crossed"} : <<"flags", v>> \in DOMAIN report
  BY <1>1, <1>2, <1>3 DEF Covers
<1>7. \A v \in {"explicit", "implicit"} : <<"explicitness", v>> \in DOMAIN report
  BY <1>1, <1>2, <1>3 DEF Covers
<1> QED BY <1>4, <1>5, <1>6, <1>7

(* What is ordered are templates; what was built of them is counted in each *)
(* section, and covered; and what is handed over comes from a template.     *)
MockOK ==
  /\ ordered \in Seq(Range(Templates)) /\ mocks \in 0..Len(ordered)
  /\ \A m \in Range(mock) : \E tpl \in Range(Templates) : Tagged(m, tpl)
  /\ \A section \in Sections : \E part : Sorts(coverage, mocks, section, part)
  /\ \A k \in 1..mocks : Covers(coverage, ordered[k])

LEMMA MockOKMeans == ASSUME MockOK PROVE MocksAreSound
<1>1. ASSUME mocks < Len(ordered) PROVE \A b \in BuildMock(ordered[mocks + 1]) : GoldOk(b)
  <2>1. ordered[mocks + 1] \in Range(Templates) BY <1>1 DEF MockOK
  <2> QED BY <2>1, DrawsAreGood DEF Good
<1>2. \A m \in Range(mock) : HandedOn(m) BY TaggedIsHandedOn DEF MockOK
<1>3. \A section \in Sections : SectionSum(section) = mocks BY SectionAddsUp DEF MockOK
<1>4. ASSUME mocks = Len(ordered), Range(Templates) \subseteq Range(ordered)
      PROVE  \A tpl \in Range(Templates) : Covers(coverage, tpl)
  <2>1. TAKE tpl \in Range(Templates)
  <2>2. PICK k \in DOMAIN ordered : tpl = ordered[k]
    BY <1>4 DEF Range
  <2> QED BY <1>4, <2>2 DEF MockOK
<1> HIDE DEF MockOK
<1> QED BY <1>1, <1>2, <1>3, <1>4, AllCovered DEF MocksAreSound, HandedOn, Sections

(* A step of the study is one of the generator or leaves it alone. *)
LEMMA MockApart ==
  ASSUME [StudyNext]_studyVars
  PROVE  MockNext \/ UNCHANGED mockVars
  BY DEF StudyNext, studyVars, ScoringStep, scoreVars

LEMMA ListedIsSeq == ASSUME NEW S, NEW n \in Nat, NEW g \in [1..n -> S] PROVE g \in Seq(S)
  OBVIOUS

LEMMA OrdersAreTemplates ==
  ASSUME NEW f \in Fixtures, NEW order \in TemplateOrders(f)
  PROVE  order \in Seq(Range(Templates))
<1> DEFINE first == IF f.guarantee THEN Templates ELSE << >>
           A == Range(Templates)
<1>1. f.n \in Nat BY FixturesAssumption
<1>2. first \in Seq(A)
  <2>1. Templates \in Seq(Range(Templates))
    <3>1. DOMAIN Templates = 1..15 /\ Templates = [k \in 1..15 |-> Templates[k]]
      BY DEF Templates
    <3>2. Templates \in [1..15 -> Range(Templates)] BY <3>1 DEF Range
    <3> QED BY <3>2, ListedIsSeq
  <2> QED BY <2>1
<1>3. PICK drawn \in (IF f.n > Len(first) THEN [1..(f.n - Len(first)) -> A] ELSE {<< >>}) : order = SubSeq(first \o drawn, 1, f.n)
  BY DEF TemplateOrders
<1> HIDE DEF first, A
<1>4. Len(first) \in Nat BY <1>2
<1>5. drawn \in Seq(A) /\ f.n <= Len(first) + Len(drawn)
  <2>1. CASE f.n > Len(first)
    <3>1. f.n - Len(first) \in Nat /\ drawn \in [1..(f.n - Len(first)) -> A]
      BY <1>1, <1>3, <1>4, <2>1
    <3>2. drawn \in Seq(A) /\ Len(drawn) = f.n - Len(first) BY <3>1
    <3> QED BY <1>1, <1>4, <3>2
  <2>2. CASE ~(f.n > Len(first))
    <3>1. drawn = << >> BY <1>3, <2>2
    <3>2. drawn \in Seq(A) /\ Len(drawn) = 0 BY <3>1
    <3> QED BY <1>1, <1>4, <2>2, <3>2
  <2> QED BY <2>1, <2>2
<1>6. first \o drawn \in Seq(A) /\ Len(first \o drawn) = Len(first) + Len(drawn)
  BY <1>2, <1>5
<1> DEFINE whole == first \o drawn
<1>7. whole \in Seq(A) /\ f.n <= Len(whole) /\ order = SubSeq(whole, 1, f.n)
  BY <1>3, <1>5, <1>6
<1> HIDE DEF whole
<1>8. \A k \in 1..f.n : k \in 1..Len(whole) BY <1>1, <1>7
<1>9. order \in Seq(A) BY <1>1, <1>7, <1>8
<1> QED BY <1>9 DEF A

LEMMA MockStepOK == ASSUME MockOK, [StudyNext]_studyVars PROVE MockOK'
<1>1. CASE UNCHANGED mockVars
  BY <1>1 DEF mockVars, MockOK, Sorts, Covers
<1>2. ASSUME NEW f \in Fixtures, GenerateMocks(f) PROVE MockOK'
  <2>1. ordered = << >> /\ ordered' \in TemplateOrders(f) /\ mocks' = mocks /\ mock' = mock /\ coverage' = coverage
    BY <1>2 DEF GenerateMocks
  <2>2. ordered' \in Seq(Range(Templates)) BY <2>1, OrdersAreTemplates
  <2>3. mocks = 0 /\ 1..mocks = {} BY <2>1 DEF MockOK
  <2>4. mocks' \in 0..Len(ordered') BY <2>1, <2>2, <2>3
  <2>5. \A section \in Sections : \E part : Sorts(coverage', mocks', section, part)
    BY <2>1 DEF MockOK
  <2> QED BY <2>1, <2>2, <2>3, <2>4, <2>5 DEF MockOK
<1>3. CASE BuildNext
  <2>a. PICK built \in BuildMock(ordered[mocks + 1]) :
          \E m \in {Retagged(built), [built EXCEPT !.separation = "cross_document"]} :
             GoldOk(built) /\ mock' = <<m>> /\ coverage' = CountedIn(coverage, m)
    BY <1>3 DEF BuildNext
  <2>1. PICK m \in {Retagged(built), [built EXCEPT !.separation = "cross_document"]} :
          GoldOk(built) /\ mock' = <<m>> /\ coverage' = CountedIn(coverage, m)
    BY <2>a
  <2>2. mocks < Len(ordered) /\ mocks' = mocks + 1 /\ ordered' = ordered /\ mocks \in Nat /\ ordered \in Seq(Range(Templates))
    BY <1>3 DEF BuildNext, MockOK
  <2> DEFINE tpl == ordered[mocks + 1]
  <2>3. tpl \in Range(Templates) /\ mocks + 1 \in 0..Len(ordered) BY <2>2
  <2>4. Tagged(m, tpl) BY <2>1 DEF Tagged
  <2>5. Marked(m, tpl) BY <2>3, <2>4, TaggedIsMarked
  <2>6. \A n \in Range(mock') : n = m BY <2>1, OneListed
  <2>7. ASSUME NEW section \in Sections PROVE \E part : Sorts(coverage', mocks', section, part)
    <3>1. PICK part : Sorts(coverage, mocks, section, part)
      BY DEF MockOK
    <3> QED BY <2>1, <2>2, <3>1, SortsOneMore
  <2>8. ASSUME NEW k \in 1..mocks' PROVE Covers(coverage', ordered'[k])
    <3>1. CASE k \in 1..mocks
      <4>1. Covers(coverage, ordered[k]) BY <3>1 DEF MockOK
      <4> QED BY <2>1, <2>2, <4>1, CoversStays
    <3>2. CASE k = mocks + 1
      <4>1. Covers(CountedIn(coverage, m), tpl) BY <2>3, <2>5, CountedCovers
      <4> QED BY <2>1, <2>2, <3>2, <4>1
    <3> QED BY <2>2, <3>1, <3>2
  <2> QED BY <2>2, <2>3, <2>4, <2>6, <2>7, <2>8 DEF MockOK
<1> QED BY <1>1, <1>2, <1>3, MockApart DEF MockNext

(* For a fixture of any size, with any of it retagged: no draw fails a      *)
(* validator, what is handed on is accepted in the wire format and means    *)
(* what its labels say, and coverage_report() counts each instance once     *)
(* in each section (contract/mock.py generate(), retagging, coverage).      *)
THEOREM MockingIsSound == StudySpec => []MocksAreSound
<1>1. StudyInit => MockOK
  <2>1. SUFFICES ASSUME StudyInit PROVE MockOK OBVIOUS
  <2>2. ordered = << >> /\ mocks = 0 /\ mock = << >> /\ DOMAIN coverage = {}
    BY <2>1 DEF StudyInit, ScoringInit, MockInit, NoMock, NoCoverage
  <2>3. Range(<< >>) = {} /\ 1..0 = {} /\ << >> \in Seq(Range(Templates)) /\ Len(<< >>) = 0 /\ 0 \in 0..0
    BY DEF Range
  <2>4. ASSUME NEW section \in Sections PROVE Sorts(coverage, mocks, section, << >>)
    <3>1. InSection(coverage, section) = {} BY <2>2 DEF InSection
    <3> QED BY <2>2, <2>3, <3>1, FS_EmptySet DEF Sorts, CountsParts
  <2> QED BY <2>2, <2>3, <2>4 DEF MockOK
<1>2. MockOK /\ [StudyNext]_studyVars => MockOK'
  BY MockStepOK
<1>3. MockOK => MocksAreSound
  BY MockOKMeans
<1> QED BY <1>1, <1>2, <1>3, PTL DEF StudySpec
=============================================================================
