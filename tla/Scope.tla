-------------------------------- MODULE Scope --------------------------------
(***************************************************************************)
(* Applicability sets and how they relate (scope/attributes.py,            *)
(* composition/partition.py, service/branches.py; the records are those of *)
(* contract/gold.py).                                                      *)
(*                                                                         *)
(* A scope restricts some dimensions of a case.  What an attribute says is *)
(* represented by the values it allows: listed values, one Boolean, or the *)
(* points of a closed range.  A dimension with listed values is open, so   *)
(* its domain has a value that nobody lists; the domain of a range has     *)
(* points outside and between all the bounds.  Inclusion and intersection  *)
(* of ranges are then those of the sets.                                   *)
(***************************************************************************)
EXTENDS Integers, Sequences, FiniteSets

CONSTANTS
  Names,     (* the dimensions of a case: card_tier, age, ...               *)
  Domain,    (* Domain[n]: the values of dimension n                        *)
  Scopes,    (* the applicabilities                                         *)
  Attrs,     (* Attrs[s]: the attributes of s, as they are listed           *)
  Universal  (* the scopes with is_default: everyone                        *)

Kinds == {"categorical", "ordered_tier", "numeric_range", "boolean", "free_text"}

Values == UNION {Domain[n] : n \in Names}

Attribute == [name : Names, kind : Kinds, allowed : SUBSET Values]

(* gold.py:122-143: an attribute that is not free text allows something,    *)
(* and by the choice of the domains never everything; descriptor.py:178-179 *)
(* and frames.py:188: the universal scope has none.                         *)
ASSUME ScopeAssumption ==
  /\ \A n \in Names : Domain[n] # {}
  /\ Attrs \in [Scopes -> Seq(Attribute)]
  /\ Universal \subseteq Scopes
  /\ \A s \in Universal : Attrs[s] = <<>>
  /\ \A s \in Scopes : \A i \in 1..Len(Attrs[s]) :
       Attrs[s][i].kind # "free_text" =>
         /\ Attrs[s][i].allowed # {}
         /\ Attrs[s][i].allowed \subseteq Domain[Attrs[s][i].name]
         /\ Attrs[s][i].allowed # Domain[Attrs[s][i].name]

Cases == {c \in [Names -> Values] : \A n \in Names : c[n] \in Domain[n]}

Dims(s) == {Attrs[s][i].name : i \in 1..Len(Attrs[s])}

------------------------------------------------------------------------------
(* The operators named Mutant... are not part of the model: each is what    *)
(* the definition below it would be with a bug in it that a property of     *)
(* Resolution finds.                                                        *)

(* _holds(), what a scope means; and the cases it holds for. *)
Holds(s, c) == \A i \in 1..Len(Attrs[s]) : c[Attrs[s][i].name] \in Attrs[s][i].allowed

Extension == [s \in Scopes |-> {c \in Cases : Holds(s, c)}]

(* _is_typed *)
Typed(s) ==
  \/ s \in Universal
  \/ Attrs[s] # <<>> /\ \A i \in 1..Len(Attrs[s]) : Attrs[s][i].kind # "free_text"

(* compare() keeps one constraint for a dimension: the last one listed. *)
Kept(s) ==
  {Attrs[s][i] : i \in {j \in 1..Len(Attrs[s]) : \A k \in (j + 1)..Len(Attrs[s]) : Attrs[s][k].name # Attrs[s][j].name}}

(* Two constraints that can be compared are on one dimension, in one way. *)
Comparable(k, l) == k.name = l.name /\ k.kind = l.kind /\ k.kind # "free_text"

(* One dimension excludes the other scope; a lies inside b in all of b's. *)
Apart(a, b) == \E k \in Kept(a), l \in Kept(b) : Comparable(k, l) /\ k.allowed \cap l.allowed = {}

Inside(a, b) == \A l \in Kept(b) : \E k \in Kept(a) : Comparable(k, l) /\ k.allowed \subseteq l.allowed

Untyped(s) == \E k \in Kept(s) : k.kind = "free_text"

(* Where compare() loses nothing: each name once in a scope, *)
Once(s) == \A i, j \in 1..Len(Attrs[s]) : Attrs[s][i].name = Attrs[s][j].name => i = j

(* and in one way in two scopes. *)
Alike(s, t) == \A k \in Kept(s), l \in Kept(t) : k.name = l.name => k.kind = l.kind

(* compare(): how scope a relates to scope b. *)
Compare(a, b) ==
  CASE a \in Universal /\ b \in Universal        -> "equal"
    [] a \in Universal /\ b \notin Universal     -> "superset"
    [] a \notin Universal /\ b \in Universal     -> "subset"
    [] OTHER ->
         IF Dims(a) = {} \/ Dims(b) = {} THEN "unknown"
         ELSE IF Apart(a, b) THEN "disjoint"
         ELSE IF Untyped(a) \/ Untyped(b) THEN "unknown"
         ELSE IF Inside(a, b) THEN (IF Inside(b, a) THEN "equal" ELSE "subset")
         ELSE IF Inside(b, a) THEN "superset" ELSE "overlapping"

------------------------------------------------------------------------------
(* Typed constraints of composition/partition.py.                           *)

(* _norm_attr's family *)
Family(kind) == IF kind \in {"categorical", "ordered_tier"} THEN "set" ELSE kind

Families(s, n) == {Family(Attrs[s][i].kind) : i \in {j \in 1..Len(Attrs[s]) : Attrs[s][j].name = n}}

(* The values of n in all the scopes of S: repeated attributes intersect.   *)
Allowed(S, n) ==
  {v \in Domain[n] : \A s \in S : \A i \in 1..Len(Attrs[s]) : Attrs[s][i].name = n => v \in Attrs[s][i].allowed}

(* satisfiable(): is there a case in every scope of I and in none of O?     *)
(* Each scope of O gets a witness, a dimension the case leaves it by, and   *)
(* no dimension may be left without values.                                 *)
Satisfiable(I, O) ==
  /\ \A n \in Names : Allowed(I, n) # {}
  /\ \E w \in [O -> Names] :
       /\ \A o \in O : w[o] \in Dims(o)
       /\ \A n \in Names : Allowed(I, n) \ UNION {Allowed({o}, n) : o \in {p \in O : w[p] = n}} # {}

------------------------------------------------------------------------------
(* satisfies() of service/branches.py for a reader of whom the dimensions  *)
(* in K are known: values are only looked up where they are listed, and    *)
(* anything else must be a number within the bounds, as True and False are *)
(* where there are none.                                                   *)
MutantSatisfies(s, c, K) ==
  \/ s \in Universal
  \/ /\ Attrs[s] # <<>>
     /\ \A i \in 1..Len(Attrs[s]) :
          /\ Attrs[s][i].name \in K
          /\ Attrs[s][i].kind \in {"categorical", "ordered_tier"} => c[Attrs[s][i].name] \in Attrs[s][i].allowed
Satisfies(s, c, K) ==
  \/ s \in Universal
  \/ /\ Attrs[s] # <<>>
     /\ \A i \in 1..Len(Attrs[s]) :
          /\ Attrs[s][i].name \in K
          /\ \/ Attrs[s][i].kind = "boolean"
             \/ Attrs[s][i].kind \in {"categorical", "ordered_tier", "numeric_range"}
                /\ c[Attrs[s][i].name] \in Attrs[s][i].allowed
=============================================================================
