---------------------------- MODULE ResolutionInv ----------------------------
(* What Resolution must return, said of the sets of cases themselves.       *)
EXTENDS Resolution

Strictly(i, j) == Extension[ScopeOf(i)] \subseteq Extension[ScopeOf(j)] /\ Extension[ScopeOf(i)] # Extension[ScopeOf(j)]

(* compare() loses nothing of these scopes. *)
Uniform(I) == (\A i \in I : Once(ScopeOf(i))) /\ \A i, j \in I : Alike(ScopeOf(i), ScopeOf(j))

Both(i, j) == Extension[ScopeOf(i)] \cap Extension[ScopeOf(j)] # {}

(* test_partition.py:300-318: the regions are exactly the ways in which the *)
(* frames hold for somebody: no case falls in none, no region is empty.     *)
RegionsAreCases ==
  result.op = "partition" =>
    {r.inside : r \in result.regions} = {{i \in result.frames : Holds(ScopeOf(i), c)} : c \in Cases}

(* partition.py:20-22: in every region the frames that govern are those     *)
(* that hold for the fewest cases, whatever order or dimensions they come in. *)
SpecificityGoverns ==
  result.op = "partition" /\ Uniform(result.frames) =>
    \A r \in result.regions : r.governing = {i \in r.inside : \A j \in r.inside : ~Strictly(j, i)}

(* Proposition 3: a frame that governs nowhere is recorded, and whoever it  *)
(* holds for is spoken for by a more specific frame among those recorded.   *)
OverriddenIsCovered ==
  result.op = "partition" /\ Uniform(result.frames) =>
    /\ result.frames = DOMAIN result.overridden \cup UNION {r.governing : r \in result.regions}
    /\ \A i \in DOMAIN result.overridden : \A c \in Extension[ScopeOf(i)] :
         \E j \in result.overridden[i] : Holds(ScopeOf(j), c) /\ Strictly(j, i)

(* order_invariance.py: the decision on two claims, the roles included, is  *)
(* the same whichever comes first.                                          *)
OrderInvariant == result.op = "analyse" => result.forward = result.backward

(* operator.py:311-313, "every branch is true within its own scope": no two *)
(* exceptions of a composed answer hold for one case and disagree.          *)
ComposedConsistent ==
  result.op = "compose" /\ result.resolution = "composed" =>
    \A i, j \in Exceptions(result.kept) :
      i < j /\ Typed(ScopeOf(i)) /\ Typed(ScopeOf(j)) /\ Both(i, j) =>
        <<branches[i].outcome, branches[j].outcome>> \in OutcomesMatch

Boolean(i) == \E k \in DOMAIN Attrs[ScopeOf(i)] : Attrs[ScopeOf(i)][k].kind = "boolean"

(* Where no two exceptions disagree, the branch shown to a reader says what *)
(* the partition says for his case: two ways to the same answer.            *)
ReaderAgrees ==
  result.op = "read" /\ result.known = Names /\ Flags(Ids) = {} /\ Uniform(Ids)
  /\ (\A i \in Ids : Typed(ScopeOf(i)) /\ ~Boolean(i)) =>
    \A c \in Cases : LET b == result.branch[c] G == Governing({i \in Ids : Holds(ScopeOf(i), c)}) IN
      IF b = 0 THEN G = {}
      ELSE \E g \in G : \/ b = g
                        \/ <<branches[First({b, g})].outcome,
                             branches[IF First({b, g}) = b THEN g ELSE b].outcome>> \in OutcomesMatch
=============================================================================
