------------------------------ MODULE Signature ------------------------------
(***************************************************************************)
(* Which statements are about the same decision: signatures over the       *)
(* taxonomies of a domain (qnfa/schema/), how two unify and how what one    *)
(* is narrower by becomes part of its applicability                        *)
(* (detection/signature.py), and the decision about a pair of frames       *)
(* (detection/qnfa.py).  All of them are functions.                        *)
(*                                                                         *)
(* A signature says of some slots what the frame is about: a value of the   *)
(* taxonomy, or a text that is none.  An applicability is one of Scope's;   *)
(* those a fold can yield are among the Scopes.                            *)
(***************************************************************************)
EXTENDS Scope

CONSTANTS
  SlotOrder,     (* the slots of the schema                                 *)
  Parent,        (* Parent[slot][value]: its parent, or Top                 *)
  Top,
  Words,         (* Words[slot][word]: the value that it names              *)
  SigName,       (* SigName[slot]: the name of its scope attribute          *)
  AppOf,         (* AppOf[attributes]: the scope with these, not a default   *)
  TieBreak,      (* TieBreak[p][q]: of two passages, when it is uncertain   *)
  Commensurable,   (* the outcomes that are about one quantity                *)
  SameValue,     (* the <<a, b>> that values_match() accepts                *)
  Clear          (* those whose figures or polarity differ                  *)

Slots == {SlotOrder[i] : i \in DOMAIN SlotOrder}

Joined == {"equivalent", "subsumes", "overlap"}

------------------------------------------------------------------------------
(* A set in an order, which relates each to itself, or of numbers in turn;   *)
(* and what a list has at some positions, as a comprehension keeps it.      *)
Listed(S, order) == [n \in 1..Cardinality(S) |-> CHOOSE x \in S : Cardinality({y \in S : <<y, x>> \in order}) = n]
InTurn(I) == Listed(I, {p \in I \X I : p[1] <= p[2]})
Keep(list, I) == [n \in 1..Cardinality(I) |-> list[InTurn(I)[n]]]

------------------------------------------------------------------------------
(* ancestors(): a value, its parent and so on up to the root; no more than   *)
(* any set has that has the value and, with one of its own, its parent.     *)
Upward(s, C) == \A v \in C : Parent[s][v] # Top => Parent[s][v] \in C
Ancestors ==
  [s \in Slots |-> [v \in DOMAIN Parent[s] |->
     {w \in DOMAIN Parent[s] : \A C \in SUBSET DOMAIN Parent[s] : v \in C /\ Upward(s, C) => w \in C}]]

Leq(s, narrow, broad) == broad \in Ancestors[s][narrow]

DescendantsOrSelf == [s \in Slots |-> [v \in DOMAIN Parent[s] |-> {w \in DOMAIN Parent[s] : Leq(s, w, v)}]]

IsRoot(s, v) == Parent[s][v] = Top

(* _validate(): one top element, known parents, no cycle, so that each is   *)
(* below the top, and no word names two.                                    *)
Valid(s) ==
  /\ Cardinality({v \in DOMAIN Parent[s] : IsRoot(s, v)}) = 1
  /\ \A v \in DOMAIN Parent[s] : Parent[s][v] \in DOMAIN Parent[s] \cup {Top}
  /\ \A v \in DOMAIN Parent[s] : \E w \in DOMAIN Parent[s] : IsRoot(s, w) /\ Leq(s, v, w)
  /\ \A v \in DOMAIN Parent[s] : v \in DOMAIN Words[s] /\ Words[s][v] = v
  /\ \A w \in DOMAIN Words[s] : Words[s][w] \in DOMAIN Parent[s]

ASSUME SignatureAssumption == \A s \in Slots : Valid(s)

(* make_signature(): a word of the vocabulary is typed, unless it is the    *)
(* top and says nothing, and any other is kept as it is.                    *)
InVocabulary(raw, s) == s \in Slots /\ raw[s] \in DOMAIN Words[s]
MakeSignature(raw) ==
  [typed   |-> [s \in {t \in DOMAIN raw : InVocabulary(raw, t) /\ ~IsRoot(t, Words[t][raw[t]])} |-> Words[s][raw[s]]],
   untyped |-> [s \in {t \in DOMAIN raw : ~InVocabulary(raw, t)} |-> raw[s]]]

IsTyped(sig, s) == s \in DOMAIN sig.typed
IsText(sig, s) == s \in DOMAIN sig.untyped
Silent(sig, s) == ~IsTyped(sig, s) /\ ~IsText(sig, s)
Named(sig) == DOMAIN sig.typed \cup DOMAIN sig.untyped

(* _slot_rel(); silence is the top of the taxonomy, and of a text nothing   *)
(* can be proved but that it is narrower than silence.                      *)
SlotRel(s, a, b) ==
  CASE Silent(a, s) /\ Silent(b, s) -> "equal"
    [] Silent(a, s) /\ ~Silent(b, s) -> "a_broader"
    [] Silent(b, s) /\ ~Silent(a, s) -> "b_broader"
    [] IsText(a, s) /\ IsText(b, s) -> IF a.untyped[s] = b.untyped[s] THEN "equal" ELSE "uncertain"
    [] (IsText(a, s) /\ IsTyped(b, s)) \/ (IsTyped(a, s) /\ IsText(b, s)) -> "uncertain"
    [] IsTyped(a, s) /\ IsTyped(b, s) ->
         IF a.typed[s] = b.typed[s] THEN "equal"
         ELSE IF Leq(s, b.typed[s], a.typed[s]) THEN "a_broader"
         ELSE IF Leq(s, a.typed[s], b.typed[s]) THEN "b_broader" ELSE "incompatible"

(* unify() *)
Unify(a, b) ==
  LET rels == {SlotRel(s, a, b) : s \in Named(a) \cup Named(b)} IN
  IF "incompatible" \in rels THEN "distinct"
  ELSE IF "uncertain" \in rels THEN "uncertain"
  ELSE IF "a_broader" \in rels /\ "b_broader" \in rels THEN "overlap"
  ELSE IF "a_broader" \in rels \/ "b_broader" \in rels THEN "subsumes" ELSE "equivalent"

------------------------------------------------------------------------------
(* What a signature restricts a slot to, as a constraint of a scope; and    *)
(* _with_signature_constraints() for a set of slots, in their order.        *)
Constraint(sig, s) ==
  [name |-> SigName[s], kind |-> "categorical", allowed |-> DescendantsOrSelf[s][sig.typed[s]]]

Constraints(sig, S) ==
  LET order == Keep(SlotOrder, {i \in DOMAIN SlotOrder : SlotOrder[i] \in S}) IN
  [i \in DOMAIN order |-> Constraint(sig, order[i])]

With(app, sig, S) == IF S = {} THEN app ELSE AppOf[Attrs[app] \o Constraints(sig, S)]

(* fold_into_applicability(): the side a pair is narrower on.               *)
FoldPair(a, b, app, narrower) ==
  IF Unify(a, b) \notin {"subsumes", "overlap"} THEN app
  ELSE With(app, a, {s \in DOMAIN a.typed : SlotRel(s, a, b) = narrower})

(* fold_component(): narrower than any other of the group.                  *)
MutantBroader(sigs, i, s) == \E j \in DOMAIN sigs \ {i} : Silent(sigs[j], s)
Broader(sigs, i, s) ==
  \E j \in DOMAIN sigs \ {i} :
    \/ Silent(sigs[j], s)
    \/ IsTyped(sigs[j], s) /\ sigs[j].typed[s] # sigs[i].typed[s] /\ Leq(s, sigs[i].typed[s], sigs[j].typed[s])

FoldComponent(sigs, apps) ==
  [i \in DOMAIN sigs |-> With(apps[i], sigs[i], {s \in DOMAIN sigs[i].typed : Broader(sigs, i, s)})]

(* coreference_components(): whoever is joined with one of a group is in     *)
(* it, the groups in the order of their first; what is uncertain is not.     *)
Joins(sigs, i, j) == (i < j /\ Unify(sigs[i], sigs[j]) \in Joined) \/ (j < i /\ Unify(sigs[j], sigs[i]) \in Joined)

WithAllJoined(sigs, C) == \A i \in C, j \in DOMAIN sigs : Joins(sigs, i, j) => j \in C
GroupOf(sigs, i) == {j \in DOMAIN sigs : \A C \in SUBSET DOMAIN sigs : i \in C /\ WithAllJoined(sigs, C) => j \in C}

Components(sigs) ==
  LET first == InTurn({i \in DOMAIN sigs : \A j \in GroupOf(sigs, i) : i <= j}) IN
  [n \in DOMAIN first |-> GroupOf(sigs, first[n])]

------------------------------------------------------------------------------
(* decide_pair(): of two frames, in the order of their passages; [why] when *)
(* the pair is skipped.                                                     *)
Skip(why) == [decision |-> "skipped", why |-> why]

MutantNamedBy(rel, agree) ==
  CASE rel \in {"disjoint", "unknown"} -> rel
    [] rel \notin {"disjoint", "unknown"} /\ agree -> "redundant"
    [] rel = "equal" /\ ~agree -> "same_scope"
    [] OTHER -> "conditional"
NamedBy(rel, agree) ==
  CASE rel \in {"disjoint", "unknown"} -> rel
    [] rel \notin {"disjoint", "unknown"} /\ agree -> "redundant"
    [] rel = "equal" /\ ~agree -> "same_scope"
    [] rel = "overlapping" /\ ~agree -> "crossing"
    [] rel \in {"subset", "superset"} /\ ~agree -> "conditional"

(* In hundredths: how sure the alignment, the mismatch and the relation are.*)
ScoreOf(tiebroken, a, b, rel) ==
  (IF tiebroken THEN 60 ELSE 95)
  * (IF <<a.outcome, b.outcome>> \in SameValue THEN 0 ELSE IF <<a.outcome, b.outcome>> \in Clear THEN 100 ELSE 80)
  * (IF rel = "unknown" THEN 60 ELSE 95)

DecidePair(a, b) ==
  LET kind == Unify(a.sig, b.sig)
      broken == kind = "uncertain"
      rel == Compare(FoldPair(a.sig, b.sig, a.app, "b_broader"), FoldPair(b.sig, a.sig, b.app, "b_broader"))
      named == IF a.hedged \/ b.hedged THEN "unknown" ELSE NamedBy(rel, <<a.outcome, b.outcome>> \in SameValue)
  IN IF kind = "distinct" THEN Skip("distinct")
     ELSE IF broken /\ TieBreak[a.passage][b.passage] \notin Joined THEN Skip("uncertain")
     ELSE IF <<a.outcome, b.outcome>> \notin Commensurable THEN Skip("incommensurable")
     ELSE [decision |-> named, kind |-> IF broken THEN TieBreak[a.passage][b.passage] ELSE kind, tiebroken |-> broken,
           general |-> IF named # "conditional" THEN 0 ELSE IF rel = "subset" THEN b.passage ELSE a.passage,
           score |-> IF named = "unknown" THEN 0 ELSE ScoreOf(broken, a, b, rel)]

(* detect_frames(): the pairs of frames of different passages, of a list in *)
(* its canonical order; and what was skipped.                               *)
CrossPairs(frames) ==
  {p \in (DOMAIN frames) \X (DOMAIN frames) : p[1] < p[2] /\ frames[p[1]].passage # frames[p[2]].passage}

DetectFrames(frames) ==
  LET d == [p \in CrossPairs(frames) |-> DecidePair(frames[p[1]], frames[p[2]])]
      skipped(why) == Cardinality({p \in DOMAIN d : d[p] = Skip(why)})
  IN [pairs |-> {p \in DOMAIN d : d[p].decision # "skipped"}, of |-> d, distinct |-> skipped("distinct"),
      incommensurable |-> skipped("incommensurable"), uncertain |-> skipped("uncertain")]

(* best_conditional_per_passage_pair(): the strongest, of equals the first. *)
RankOf(decision) ==
  CASE decision = "conditional" -> 5 [] decision \in {"crossing", "same_scope"} -> 4
    [] decision = "redundant" -> 3 [] decision = "disjoint" -> 2 [] decision = "unknown" -> 1

Stronger(d, e) ==
  RankOf(d.decision) > RankOf(e.decision) \/ (RankOf(d.decision) = RankOf(e.decision) /\ d.score > e.score)

Best(frames, found, i, j) ==
  LET between == {p \in found.pairs : {frames[p[1]].passage, frames[p[2]].passage} = {i, j}}
      best == {p \in between : \A q \in between : ~Stronger(found.of[q], found.of[p])}
  IN found.of[CHOOSE p \in best : \A q \in best : p[1] < q[1] \/ (p[1] = q[1] /\ p[2] <= q[2])]
=============================================================================
