----------------------------- MODULE ScopeCompose -----------------------------
(***************************************************************************)
(* The system O3 answering a question (pipelines/scopecompose.py): a        *)
(* structured parse of the passages, frames with verbatim spans            *)
(* (detection/frames.py), one composition for each group of frames about   *)
(* one decision, and the repair against the parse.                         *)
(*                                                                         *)
(* What the model replies is an input: a draft, and twice a list of raw     *)
(* frames of which some are unusable and some quote what is not there.      *)
(***************************************************************************)
EXTENDS Signature

CONSTANTS
  Drafts,        (* what the parse may give                                 *)
  Replies,       (* what may be extracted                                   *)
  Retries,       (* what may be replied when asked again                    *)
  MaxReasks,
  MaxPieces      (* MAX_FRAMES of a partition                               *)

(* A list of attributes is an applicability, also with constraints of a     *)
(* signature, which have names of their own (signature.py:60-61); and what  *)
(* is replied is a list of frames of the passages, by number.               *)
Raws == UNION {{list[i] : i \in DOMAIN list} : list \in Replies \cup Retries}

ASSUME ComposeAssumption ==
  /\ \A i, j \in DOMAIN SlotOrder : SlotOrder[i] = SlotOrder[j] => i = j
  /\ SlotOrder \in Seq(Slots)
  /\ \A s \in Slots : SigName[s] \in Names /\ Domain[SigName[s]] = DOMAIN Parent[s]
  /\ \A s, t \in Slots : SigName[s] = SigName[t] => s = t
  /\ \A app \in Scopes \ Universal : AppOf[Attrs[app]] \in Scopes \ Universal /\ Attrs[AppOf[Attrs[app]]] = Attrs[app]
  /\ \A list \in Replies \cup Retries : list \in Seq(Raws)
  /\ \A r \in Raws : r.state = "good" =>
       /\ r.passage \in Int /\ r.span \in Int /\ r.app \in Scopes /\ {r.hedged, r.spanHedged} \subseteq BOOLEAN
       /\ \A sig \in {MakeSignature(r.decision)} : \A S \in SUBSET DOMAIN sig.typed :
            S # {} => \E app \in Scopes \ Universal : Attrs[app] = Attrs[r.app] \o Constraints(sig, S)
  /\ MaxReasks \in Nat /\ MaxPieces \in Nat

VARIABLES
  at,            (* the step of answer() that is next                       *)
  draft,
  raws,          (* kept so far, in the order of the replies                *)
  bad,           (* the number of frames to be asked about again            *)
  stats,
  frames,        (* the frames extracted                                    *)
  groups,        (* the groups that are still to be composed, in turn       *)
  pieces,        (* the group in hand                                       *)
  part,          (* its partition                                           *)
  sections,      (* the branches of each group composed                     *)
  answer

answering == <<at, draft, raws, bad, stats, frames, groups, pieces, part, sections, answer>>

P == INSTANCE Resolution WITH branches <- pieces, result <- part, Outcomes <- {}, Passages <- Int, OutcomesMatch <- {},
       ValuesMatch <- SameValue, Votes <- <<>>, OutcomeMargin <- 0, Entailment <- <<>>, OverlapThreshold <- 0,
       NestThreshold <- 0, Lists <- {}, Judgements <- {}, Known <- {}, MaxFrames <- MaxPieces

NoPart == [op |-> "none"]
NoAnswer == [text |-> {}, hedged |-> {}, parseOnly |-> {}, injected |-> {}, fallback |-> FALSE]

------------------------------------------------------------------------------
(* _build(): a raw frame is one the contract accepts or not, and quotes its *)
(* passage or not; of what it says of itself, hedging in the span counts.   *)
Accepted(list) == {i \in DOMAIN list : list[i].state = "good"}
Misquoted(list) == {i \in DOMAIN list : list[i].state = "span"}
Build(r) ==
  [passage |-> r.passage, span |-> r.span, sig |-> MakeSignature(r.decision), app |-> r.app, outcome |-> r.outcome,
   hedged |-> r.hedged \/ r.spanHedged]

(* extract(), the first call; _parse() is the call before it.               *)
Extract ==
  /\ at = "extract"
  /\ \E d \in Drafts, r \in Replies :
       /\ draft' = d
       /\ raws' = Keep(r, Accepted(r))
       /\ bad' = Cardinality(Misquoted(r))
       /\ stats' = [raw |-> Len(r), first |-> bad', recovered |-> 0, asks |-> 0,
                    other |-> Cardinality(DOMAIN r \ (Accepted(r) \cup Misquoted(r)))]
  /\ at' = "reask"
  /\ UNCHANGED <<frames, groups, pieces, part, sections, answer>>

Reask ==
  /\ at = "reask" /\ bad > 0 /\ stats.asks < MaxReasks
  /\ \E r \in Retries :
       /\ raws' = raws \o Keep(r, Accepted(r))
       /\ bad' = Cardinality(Misquoted(r))
       /\ stats' = [stats EXCEPT !.asks = @ + 1, !.recovered = @ + Cardinality(Accepted(r))]
  /\ UNCHANGED <<at, draft, frames, groups, pieces, part, sections, answer>>

(* Of the frames with one passage and one span the first; in the order of    *)
(* their passages and spans.                                                *)
SameSpan(f, g) == f.passage = g.passage /\ f.span = g.span
Unique(list) == Keep(list, {i \in DOMAIN list : \A j \in 1..(i - 1) : ~SameSpan(list[i], list[j])})

NotAfter(f, g) == f.passage < g.passage \/ (f.passage = g.passage /\ f.span <= g.span)
Sorted(list) ==
  LET order == Listed(DOMAIN list, {p \in (DOMAIN list) \X (DOMAIN list) : NotAfter(list[p[1]], list[p[2]])}) IN
  [n \in DOMAIN order |-> list[order[n]]]

Hedged(f) == f.hedged

(* The frames that determine an outcome; and their groups.                  *)
Determining(list) == Keep(list, {i \in DOMAIN list : ~Hedged(list[i])})
SigsOf(list) == [i \in DOMAIN list |-> list[i].sig]

Group ==
  /\ at = "reask" /\ (bad = 0 \/ stats.asks = MaxReasks)
  /\ frames' = Sorted(Unique([i \in DOMAIN raws |-> Build(raws[i])]))
  /\ groups' = Components(SigsOf(Determining(frames')))
  /\ at' = IF frames' = <<>> THEN "fallback" ELSE "compose"
  /\ UNCHANGED <<draft, raws, bad, stats, pieces, part, sections, answer>>

------------------------------------------------------------------------------
(* _compose_component(): the differences within the group are folded, and   *)
(* the pieces partitioned.                                                  *)
Deciding == Determining(frames)

PiecesOf(g) ==
  LET own == Keep(Deciding, g)
      apps == FoldComponent(SigsOf(own), [i \in DOMAIN own |-> own[i].app])
  IN [i \in DOMAIN own |-> [scope |-> apps[i], outcome |-> own[i].outcome, passage |-> own[i].passage]]

Fold ==
  /\ at = "compose" /\ groups # <<>> /\ pieces = <<>>
  /\ pieces' = PiecesOf(Head(groups))
  /\ UNCHANGED <<at, draft, raws, bad, stats, frames, groups, part, sections, answer>>

ComposePieces ==
  /\ at = "compose" /\ pieces # <<>>
  /\ P!Partition
  /\ UNCHANGED <<at, draft, raws, bad, stats, frames, groups, sections, answer>>

(* compose_pieces(): what is said, of which of the group, as a default or   *)
(* not.                                                                     *)
Said(outcomes, who, default, first) == [says |-> outcomes, of |-> who, default |-> default, first |-> first]
OutcomeOf(i) == pieces[i].outcome

OfRegion(r) ==
  LET base == \A i \in r.inside : P!IsDefault(i) IN
  IF r.status = "assigned" THEN Said({OutcomeOf(P!First(r.governing))}, r.governing, base, P!First(r.inside))
  ELSE Said({OutcomeOf(i) : i \in r.governing}, r.governing, FALSE, P!First(r.inside))

Verbatim(i) == Said({OutcomeOf(i)}, {i}, FALSE, i)

MutantBranches ==
  IF part.op = "too_many" THEN {Said({OutcomeOf(i)}, {i}, P!IsDefault(i), i) : i \in DOMAIN pieces}
  ELSE {OfRegion(r) : r \in {q \in part.regions : q.status = "assigned"}} \cup {Verbatim(i) : i \in part.indeterminate}
Branches ==
  IF part.op = "too_many" THEN {Said({OutcomeOf(i)}, {i}, P!IsDefault(i), i) : i \in DOMAIN pieces}
  ELSE {OfRegion(r) : r \in {q \in part.regions : q.status # "uncovered"}} \cup {Verbatim(i) : i \in part.indeterminate}

(* verbalise_branches(): one default, and whatever is not one.              *)
Verbalised(B) ==
  {b \in B : b.default => \A c \in B : c.default => b.first <= c.first}

State ==
  /\ at = "compose" /\ pieces # <<>> /\ part # NoPart
  /\ sections' = Append(sections, [branches |-> Branches, part |-> part, pieces |-> pieces, group |-> Head(groups)])
  /\ groups' = Tail(groups)
  /\ pieces' = <<>> /\ part' = NoPart
  /\ UNCHANGED <<at, draft, raws, bad, stats, frames, answer>>

------------------------------------------------------------------------------
(* The repair: what only the parse says is added, and what it missed is     *)
(* logged.  Two sources in one statement may be read as saying what either  *)
(* says, or neither.                                                        *)
Same(o, p) == <<o, p>> \in SameValue \/ <<p, o>> \in SameValue
Stated == UNION {sections[k].branches : k \in DOMAIN sections}
Contested == {b \in Stated : Cardinality(b.of) > 1 /\ Cardinality(b.says) > 1}
SaidBy(B, o) == \E b \in B : \E p \in b.says : Same(o, p)

Repair ==
  /\ at = "compose" /\ groups = <<>>
  /\ \E read \in SUBSET {i \in DOMAIN draft : SaidBy(Contested, draft[i].outcome)} :
       LET only == {i \in DOMAIN draft : ~SaidBy(Stated \ Contested, draft[i].outcome) /\ i \notin read} IN
       answer' = [text |-> UNION {Verbalised(sections[k].branches) : k \in DOMAIN sections}
                             \cup {Said({draft[i].outcome}, {}, FALSE, i) : i \in only},
                  hedged |-> {<<frames[i].passage, frames[i].span>> : i \in {j \in DOMAIN frames : Hedged(frames[j])}},
                  parseOnly |-> only,
                  injected |-> {i \in DOMAIN Deciding : \A j \in DOMAIN draft : ~Same(Deciding[i].outcome, draft[j].outcome)},
                  fallback |-> FALSE]
  /\ at' = "done"
  /\ UNCHANGED <<draft, raws, bad, stats, frames, groups, pieces, part, sections>>

(* Without a frame the answer is the parse.                                 *)
Fallback ==
  /\ at = "fallback"
  /\ answer' = [NoAnswer EXCEPT !.fallback = TRUE,
                                !.text = {Said({draft[i].outcome}, {}, draft[i].default, i) : i \in DOMAIN draft}]
  /\ at' = "done"
  /\ UNCHANGED <<draft, raws, bad, stats, frames, groups, pieces, part, sections>>

AnswerInit ==
  /\ at = "extract"
  /\ draft = <<>> /\ raws = <<>> /\ bad = 0
  /\ stats = [raw |-> 0, first |-> 0, recovered |-> 0, asks |-> 0, other |-> 0]
  /\ frames = <<>> /\ groups = <<>> /\ pieces = <<>> /\ part = NoPart
  /\ sections = <<>> /\ answer = NoAnswer

AnswerNext == Extract \/ Reask \/ Group \/ Fold \/ ComposePieces \/ State \/ Repair \/ Fallback

AnswerSpec == AnswerInit /\ [][AnswerNext]_answering

------------------------------------------------------------------------------
(* What must be true of the frames, of what is decided about two of them,   *)
(* and of the answer that is made of them.                                  *)

(* The cases a frame speaks of: its applicability holds, and what happens   *)
(* is what its signature names or something narrower.  It can be told of a  *)
(* frame without free text, whose applicability leaves to the signature     *)
(* what happens.                                                            *)
Meaning(f) ==
  {c \in Extension[f.app] : \A s \in DOMAIN f.sig.typed : c[SigName[s]] \in DescendantsOrSelf[s][f.sig.typed[s]]}

FullyTyped(f) == DOMAIN f.sig.untyped = {} /\ Typed(f.app) /\ \A s \in Slots : SigName[s] \notin Dims(f.app)

(* compare() loses nothing of two applicabilities.                          *)
KeptWhole(f, g) == Once(f.app) /\ Once(g.app) /\ Alike(f.app, g.app)

(* Folding makes the differences of signature within a group differences of *)
(* scope, and neither adds nor loses any: of two frames of one group, one   *)
(* piece lies inside the other's exactly when all that the frame speaks of  *)
(* the other speaks of, and they have no case in common exactly when the    *)
(* frames have none (signature.py:343-412).                                 *)
FoldedAsMeant ==
  at = "done" => \A k \in DOMAIN sections :
    LET frame(i) == Deciding[InTurn(sections[k].group)[i]]
        typed == {i \in DOMAIN sections[k].pieces : FullyTyped(frame(i))}
        piece == [i \in typed |-> Extension[sections[k].pieces[i].scope]]
        meant == [i \in typed |-> Meaning(frame(i))]
    IN \A i, j \in typed :
         /\ piece[i] \subseteq piece[j] <=> meant[i] \subseteq meant[j]
         /\ piece[i] \cap piece[j] = {} <=> meant[i] \cap meant[j] = {}

(* What is decided about two frames is true of the cases they speak of: a   *)
(* conditional pair has its exception strictly inside the passage called    *)
(* the general one, a crossing pair shares cases and neither contains the   *)
(* other, a disjoint or distinct pair shares none; and a conditional pair   *)
(* of two passages is never hidden by another (qnfa.py:96-259).             *)
TrueOf(d, a, b) ==
  LET A == Meaning(a)
      B == Meaning(b)
  IN CASE d.decision = "conditional" ->
            /\ d.general = b.passage => A \subseteq B /\ A # B
            /\ d.general = a.passage => B \subseteq A /\ A # B
       [] d.decision = "same_scope" -> A = B
       [] d.decision = "crossing" -> A \cap B # {} /\ ~(A \subseteq B) /\ ~(B \subseteq A)
       [] d.decision = "disjoint" \/ d = Skip("distinct") -> A \cap B = {}
       [] OTHER -> TRUE

DecisionIsTrue ==
  at = "done" => \A found \in {DetectFrames(frames)} : \A p \in CrossPairs(frames) :
    LET a == frames[p[1]]
        b == frames[p[2]]
    IN /\ FullyTyped(a) /\ FullyTyped(b) /\ KeptWhole(a, b) => TrueOf(found.of[p], a, b)
       /\ found.of[p].decision = "conditional" => Best(frames, found, a.passage, b.passage).decision = "conditional"

(* Nothing a source says is lost on the way to the answer: each frame that  *)
(* determines an outcome is stated, or a more specific one is stated for    *)
(* all its cases, or it holds for nobody; a hedged one is quoted and        *)
(* governs nowhere; and each branch of the parse is stated by a frame or    *)
(* added.  But of a group with too many frames to partition each is stated  *)
(* on its own, and of its defaults only the first is put into words         *)
(* (scopecompose.py:14-22,94-101,162-212, registry.py:287-296).             *)
Partitioned(k) == sections[k].part.op = "partition"
Default(k, i) == sections[k].pieces[i].scope \in Universal
Unspoken(k, i) == ~Partitioned(k) /\ Default(k, i) /\ \E j \in 1..(i - 1) : Default(k, j)

NothingIsLost ==
  at = "done" /\ ~answer.fallback =>
    /\ \A k \in DOMAIN sections : \A i \in DOMAIN sections[k].pieces :
         \/ \E b \in sections[k].branches :
              /\ b \in answer.text /\ i \in b.of
              /\ sections[k].pieces[i].outcome \in b.says \/ SaidBy({b}, sections[k].pieces[i].outcome)
         \/ Unspoken(k, i)
         \/ /\ Partitioned(k)
            /\ \/ i \in sections[k].part.discarded
               \/ /\ i \in DOMAIN sections[k].part.overridden
                  /\ \A j \in sections[k].part.overridden[i] : \E b \in sections[k].branches : j \in b.of
    /\ UNION {sections[k].group : k \in DOMAIN sections} = DOMAIN Deciding
    /\ \A i \in DOMAIN frames : Hedged(frames[i]) =>
         /\ <<frames[i].passage, frames[i].span>> \in answer.hedged
         /\ \A j \in DOMAIN Deciding : ~SameSpan(frames[i], Deciding[j])
    /\ \A i \in DOMAIN draft :
         \/ i \in answer.parseOnly
         \/ \E b \in answer.text : \E o \in b.says : Same(draft[i].outcome, o)
         \/ \E k \in DOMAIN sections : \E j \in DOMAIN sections[k].pieces :
              Unspoken(k, j) /\ Same(draft[i].outcome, sections[k].pieces[j].outcome)

==============================================================================
