------------------------------ MODULE StudyInv ------------------------------
(***************************************************************************)
(* What the making of the benchmark must keep, part by part.               *)
(***************************************************************************)
EXTENDS Study

CONSTANT
  Denials       (* the words that deny what comes next, to who reads both     *)

------------------------------------------------------------------------------
(* The blind passes.                                                        *)

(* What two passes were compared on stays in them as it was shown: once the *)
(* disagreements are on the screen nobody relabels what they are about,     *)
(* though sessions are open, adjudication never looks at the seal, and the  *)
(* seal may come between append()'s look and its write.  The one way out,   *)
(* which `compared` leaves aside (Exposed): a second session of the         *)
(* annotator had the instance still before it when it was shown, and the    *)
(* pass was not sealed by then or that session had looked already.          *)
ComparedStands ==
  \A a \in Annotators : \A i \in DOMAIN compared[a] :
    i \in DOMAIN pass[a] /\ pass[a][i] = compared[a][i]

------------------------------------------------------------------------------
(* The review of what the model proposed.                                   *)

(* A person let a proposal through: this one, unless it came when they were *)
(* past being shown it, and then an older one.                              *)
LetThrough(r, kind, i, version) ==
  \E n \in DOMAIN lines[kind][r] :
    LET line == lines[kind][r][n] IN
    /\ Readable(line) /\ line.item = i /\ line.verdict \in Positive
    /\ line.on = version \/ <<kind, r, i, version>> \in overtaken

Signed(entry, i) ==
  /\ entry.branches # 0 => \A r \in {entry.by, entry.second} \ {Nobody} : LetThrough(r, "branches", i, entry.branches)
  /\ entry.personas # 0 => entry.branches # 0 /\ entry.sound /\ LetThrough(entry.reader, "personas", i, entry.personas)

(* What the corpus carries was let through by the people it names, in the   *)
(* very version it carries: the branches by the first reviewer and, where   *)
(* there is one, the second; the personas by their reader, in a form that   *)
(* passed the checks, and only on an instance that has branches.  The one   *)
(* way out: who had decided on the instance, or had it before them, when it *)
(* was proposed anew is taken to have let the new proposal through.         *)
PersonDecided == \A i \in Range(Instances) : Signed(corpus[i], i)

Lost(r) ==
  {p \in Kinds \X Range(Instances) : p[2] \in given[p[1]][r] /\ p[2] \notin DOMAIN Load(lines[p[1]][r])}

(* A session that is killed within a line costs its reviewer at most one    *)
(* verdict, the one given next: every other line of the file is read again. *)
VerdictsSurvive == \A r \in Reviewers : Cardinality(Lost(r)) <= kills[r]

------------------------------------------------------------------------------
(* The held-out test set.                                                   *)

(* No command that assigns splits puts one document into two of them, the   *)
(* documents that link three or more instances in a chain included, and an  *)
(* incremental run over a grown corpus leaves the instances of dev and test *)
(* where they are, whatever arrived beside them.                            *)
SplitsHold ==
  [][/\ how' \in {"assign", "resplit", "incremental"} /\ split' # split => Spanning(split') = {}
     /\ archived' # archived /\ how' = "incremental" =>
          \A n \in Known : split[n] \in {"dev", "test"} /\ ~Pool[n].authored => split'[n] = split[n]]_heldVars

(* Whatever was answered is what the tag holds, and none of it was written  *)
(* by a model, however often the file was edited, exported again and        *)
(* committed.                                                               *)
AnswersAreFrozen ==
  \A file \in answered : file = tag.test /\ \A row \in file : ~Pool[row[1]].authored

------------------------------------------------------------------------------
(* The evaluation.                                                          *)

(* A validated gold instance can be handed on in the wire format, but for   *)
(* three things its own validators never look at: passage ids given twice,  *)
(* a natural instance whose passages are of one document, and a scope       *)
(* relation on a type that carries none.                                    *)
ProjectsOtherwise ==
  ~record.valid =>
    LET g == accepted[1] IN
    \/ ~Distinct(g.passages)
    \/ ~ProvenanceOk(g)
    \/ g.relation # NotGiven /\ g.type \notin {"conditional", "factual"}

(* The scopes the generator writes down, as Scope compares them.            *)
MockScopes == UNION {{b.branches[k].attributes : k \in DOMAIN b.branches} : b \in UNION {BuildMock(tpl) : tpl \in Range(Templates)}}
MockNames == UNION {{s[k].name : k \in DOMAIN s} : s \in MockScopes}
MockDomain ==
  [n \in MockNames |-> {"else"} \cup UNION {UNION {s[k].allowed : k \in {j \in DOMAIN s : s[j].name = n}} : s \in MockScopes}]
MockScope == INSTANCE Scope WITH Names <- MockNames, Domain <- MockDomain, Scopes <- MockScopes,
                                 Attrs <- [s \in MockScopes |-> s], Universal <- {<< >>}

Meant(b, c) ==
  LET relates == MockScope!Compare(b.attributes, c.attributes) IN
  CASE relates = "disjoint" -> "disjoint"
    [] b.outcome = c.outcome -> "redundant"
    [] relates \in {"subset", "superset"} -> "refinement"
    [] OTHER -> "opposed"

Contrary(b, c, relates) ==
  b.conditioned /\ c.conditioned /\ b.outcome # c.outcome /\ MockScope!Compare(b.attributes, c.attributes) = relates

Exceptions(m, relates) == \E b, c \in Range(m.branches) : Contrary(b, c, relates)

(* The relation and the flags are what the scopes say of the branches, and  *)
(* everybody is put to the branch her card falls under.                     *)
MeansWhatItSays(m) ==
  /\ Len(m.branches) > 1 => m.relation = Meant(m.branches[1], m.branches[2])
  /\ m.nested <=> (Defaults(m) # {} /\ Exceptions(m, "subset"))
  /\ m.crossed <=> (Defaults(m) # {} /\ Exceptions(m, "overlapping"))
  /\ \A p \in Range(m.personas) : \A b \in Range(m.branches) :
       b.conditioned => (p.branch = b.id <=> p.tier \in b.attributes[1].allowed)

SectionSum(section) == MapThenSumSet(LAMBDA c : coverage[c], {c \in DOMAIN coverage : c[1] = section})

(* The mock instances can stand in for real ones: no draw makes a validator *)
(* raise, a retagged one, which no validator saw, can still be handed on in *)
(* the wire format, and the labels, which the generator writes down without *)
(* looking at a scope, are those that comparing the scopes would give; a    *)
(* fixture with every template in it covers every label and flag.           *)
MocksAreSound ==
  /\ mocks < Len(ordered) => \A b \in BuildMock(ordered[mocks + 1]) : GoldOk(b)
  /\ \A m \in Range(mock) :
       /\ \A withGold \in BOOLEAN :
            /\ \A p \in Range(Labelling(m, withGold)) : ConflictPairOk(p)
            /\ RecordOk(m, Labelling(m, withGold))
       /\ MeansWhatItSays(m)
  /\ \A section \in {"conflict_type", "scope_relation", "construction"} : SectionSum(section) = mocks
  /\ mocks = Len(ordered) /\ Range(Templates) \subseteq Range(ordered) =>
       {"conflict_type"} \X ConflictTypes \cup {"scope_relation"} \X {"refinement", "disjoint", "redundant", "opposed", NotGiven}
         \cup {"flags"} \X {"nested", "crossed"} \cup {"explicitness"} \X {"explicit", "implicit"} \subseteq DOMAIN coverage

(* The detector that is reported is never one that gives all it is asked to *)
(* tell apart the same label, while one that collapses onto nothing does    *)
(* better than that on the exceptions and the contradictions together.      *)
OneLabel(d) ==
  \E label \in {"conditional", "factual"} :
    \A k \in DOMAIN Test : Test[k] \in {"conditional", "factual"} => predictions[d][k] = label

ChosenTellsApart ==
  Usable # {} /\ OneLabel(Reported) =>
    \A d \in Usable \ {e \in Usable : Degenerate(e)} :
      As(d, "conditional", "factual") * Gold("factual") + As(d, "factual", "conditional") * Gold("conditional")
        >= Gold("conditional") * Gold("factual")

(* Every outcome a structured baseline's model listed last is stated in its *)
(* answer, as the rule only if it was listed as one; there is one rule at   *)
(* most, and everything else comes with a condition.                        *)
EveryClaimSpoken ==
  spoken # << >> =>
    /\ \A i \in DOMAIN listed :
         listed[i].outcome # "" =>
           \E c \in DOMAIN spoken : spoken[c].outcome = listed[i].outcome /\ (spoken[c].default => listed[i].default)
    /\ \A c \in DOMAIN spoken : spoken[c].default <=> spoken[c].condition = ""
    /\ \A c, d \in DOMAIN spoken : spoken[c].default /\ spoken[d].default => c = d

(* What a text says of an outcome, to somebody who reads the word before it.*)
Denied(text, k) == k > 1 /\ text[k - 1] \in Denials
Tells(text, outcome) == \E k \in DOMAIN text : text[k] = outcome /\ ~Denied(text, k)

(* A person is credited only with an outcome the answer itself gives them,  *)
(* and gives without a hedge: whatever the reader and the entailment model  *)
(* say, the reader named the gold outcome and quoted the answer without a   *)
(* hedge, and a quote that tells the gold outcome was cut from a sentence   *)
(* that tells it and has no hedge.  Three ways out are left, and no other:  *)
(* the entailment model passes a quote that does not tell it; the quote     *)
(* begins right behind the word that denies it; and no sentence is read for *)
(* a quote that runs over the end of one.                                   *)
StrictIsEarned ==
  heard.person \in DOMAIN verdict /\ verdict[heard.person].why = Credited =>
    LET quote == heard.said.quote
        due == GoldOutcome[heard.person]
        across == \A s \in DOMAIN reply : ~Within(quote, reply[s])
        BeginsAt(s, k) ==
          IF across THEN quote[1] = due ELSE IsPrefix(quote, SubSeq(reply[s], k, Len(reply[s])))
    IN /\ heard.said.outcome = due /\ quote # << >> /\ ~HedgedIn(quote)
       /\ Tells(quote, due) =>
            \E s \in DOMAIN reply : \E k \in DOMAIN reply[s] :
              /\ reply[s][k] = due
              /\ Denied(reply[s], k) => BeginsAt(s, k)
              /\ across \/ ~HedgedIn(reply[s])

(* The scores of the detection tell one story (metrics/classification.py):  *)
(* detection and types agree on how many conflicts there were, a row of a   *)
(* confusion sums to its total, what is missed and what is found in excess  *)
(* differ by what was predicted outside the labels, and the tiers add up.   *)
RowsSum(counts, labels) ==
  \A g \in labels :
    Support(counts, g) = SumOver([c \in Columns(counts, labels) |-> CellOf(counts, g, c)], Columns(counts, labels))

Outside(counts, labels) ==
  SumOver([c \in Columns(counts, labels) \ labels |-> SumOver([g \in labels |-> CellOf(counts, g, c)], labels)],
          Columns(counts, labels) \ labels)

MissesBalance(counts, labels) ==
  LET row == [l \in labels |-> PerLabel(counts, l)]
  IN /\ SumOver([l \in labels |-> row[l].tp], labels) = CorrectOf(counts, labels)
     /\ SumOver([l \in labels |-> row[l].tp + row[l].fn], labels) = TotalOf(counts)
     /\ SumOver([l \in labels |-> row[l].fn - row[l].fp], labels) = Outside(counts, labels)

(* The error analysis, a program of its own, finds what the matrices hold:  *)
(* every cell off the diagonal is a kind of error of that size, a relation  *)
(* is wrong in a type that is right as often as the two differ, every kind  *)
(* has its examples, and the rows of the report part what is counted.       *)
ErrorsAddUp ==
  LET misnamed == {m \in ErrorCases : RelationWrong(m)}
      offDiagonal == {c \in DOMAIN types : c[1] # c[2]}
      rows == {RowOf(g) : g \in Range(GoldPairs)}
  IN /\ Cardinality(matched) = TotalOf(types)
     /\ \A c \in offDiagonal : Cardinality(ByKind(<<"type", c[1], c[2]>>)) = types[c]
     /\ Cardinality(ErrorCases) = SumOver(types, offDiagonal) + Cardinality({m \in misnamed : ~TypeWrong(m)})
     /\ Cardinality(misnamed) = TotalOf(relations) - CorrectOf(relations, RelationLabels)
     /\ \A c \in NamedCells : Cardinality(ByKind(<<"relation", c[1], c[2]>>)) <= CellOf(relations, c[1], c[2])
     /\ \A m \in ErrorCases : Cardinality(Shown(2) \cap ByKind(KindOfError(m))) = (IF Cardinality(ByKind(KindOfError(m))) > 1 THEN 2 ELSE 1)
     /\ SumOver([row \in rows |-> Cardinality({m \in matched : RowOf(GoldPairs[m[1]]) = row})], rows) = TotalOf(types)

DetectionAddsUp == passed > 0 =>
  /\ binary.fp + binary.tn = Support(types, "no_conflict")
  /\ binary.tp + binary.fn = TotalOf(types) - Support(types, "no_conflict")
  /\ binary.tp >= CorrectOf(types, TypeLabels \ {"no_conflict"}) + LeakedBothWays(types).conditional + LeakedBothWays(types).factual
  /\ \A c \in DOMAIN types : types[c] = SumOver([t \in DOMAIN byTier |-> CellOf(byTier[t], c[1], c[2])], DOMAIN byTier)
  /\ TotalOf(relations) = Cardinality({m \in matched : GoldPairs[m[1]].relation # NoRelation})
  /\ RowsSum(types, TypeLabels) /\ RowsSum(relations, RelationLabels)
  /\ ErrorsAddUp
  /\ MissesBalance(types, TypeLabels) /\ MissesBalance(relations, RelationLabels)

(* The audit scores the reader as it was calibrated: at the threshold that  *)
(* was chosen its precision is at the bar, no other that is at the bar has  *)
(* a better recall, and where none was chosen none would do; half of the    *)
(* sample is of what is accepted, or all that is; and what two detectors    *)
(* differ on accounts for the difference of what they get right.            *)
AtBar(v) == v.tp + v.fp > 0 /\ v.tp * Bar.den >= Bar.num * (v.tp + v.fp)

ChoicesAddUp ==
  /\ sampled # {} =>
       LET thresholds == {audit[k].entailment : k \in DOMAIN audit} \cup {Preset}
       IN /\ \A t \in thresholds : V2(t).tp + V2(t).fp + V2(t).fn + V2(t).tn = Cardinality(Settled)
          /\ tau >= 0 => AtBar(V2(tau)) /\ \A t \in thresholds : AtBar(V2(t)) => V2(t).fn >= V2(tau).fn
          /\ tau = NoTau => \A t \in thresholds : ~AtBar(V2(t))
          /\ AuditStratum("accepted") \subseteq sampled \/ 2 * Cardinality(sampled \cap AuditStratum("accepted")) >= Cardinality(sampled) - 1
  /\ \A d, e \in BothJudged :
       LET m == McNemar(d, e) IN m.b - m.c = Right(d) - Right(e) /\ m.b + m.c + m.right + m.wrong = Len(Test)

(* The probe and direct extraction are scored on the same branches; what    *)
(* they differ on accounts for the difference of what they recover; and the *)
(* probe is a go only where it recovers more of the unmarked conditions.    *)
RecoveryAddsUp ==
  LET p == recovery["probe"]
      d == recovery["direct"]
      walked(m, kinds) == Cardinality({k \in AllBranches : k[1] <= scored[m] /\ GoldCases[k[1]].branches[k[2]] \in kinds})
  IN /\ \A m \in Range(Methods) :
          LET r == recovery[m] IN
          /\ r.recovered + r.missed + r.distorted = walked(m, {"default", "explicit", "implicit"})
          /\ r.explicit_total + r.implicit_total = walked(m, {"explicit", "implicit"})
          /\ r.recovered = walked(m, {"default"}) + r.explicit_recovered + r.implicit_recovered
          /\ r.hallucinating <= r.instances /\ r.hallucinating <= r.ungrounded
     /\ ruling # Unruled => Only("probe", "direct") - Only("direct", "probe") = p.recovered - d.recovered
     /\ ruling = "go" => p.implicit_total = d.implicit_total /\ p.implicit_recovered > d.implicit_recovered

(* Nothing that is counted is counted twice or dropped: the judgements of   *)
(* an arm are as many as the branches it was scored on, the tiers add up to *)
(* the whole, the branches on which the arms differ account for the         *)
(* difference of their scores, and the detection's scores agree.            *)
CountsAddUp ==
  /\ DetectionAddsUp /\ ChoicesAddUp /\ RecoveryAddsUp
  /\ \A a \in DOMAIN tally : tally[a].preserved + tally[a].suppressed + tally[a].distorted = tally[a].branches
  /\ \A field \in DOMAIN Zero : tally["metrics"][field] = SumOver([t \in DOMAIN tiers |-> tiers[t][field]], DOMAIN tiers)
  /\ apart # Uncompared => apart.pipeline - apart.baseline = tally["pipeline"].preserved - tally["baseline"].preserved

(* The correction is the one that was registered: a hypothesis is rejected  *)
(* exactly when every family it belongs to could be rejected by Bonferroni, *)
(* so no order of the p-values and no tie lets a false one slip through.    *)
HolmIsClosed ==
  \A h \in DOMAIN concluded :
    concluded[h].rejected <=>
      \A S \in {T \in SUBSET Hypotheses : h \in T} :
        \E g \in S : Below(P(Cardinality(S) * tested[g].p.num, tested[g].p.den), Alpha)

------------------------------------------------------------------------------
(* The release.                                                             *)

(* What is put back compares equal to what was annotated, passage by        *)
(* passage, whatever the page says by then; a passage that could not be     *)
(* found when the bundle was made stays withheld and is listed.             *)
RestoredIsOriginal ==
  back.outcome = "restored" =>
    \A n \in DOMAIN instance.passages :
      IF n \in back.unrestorable THEN back.passages[n] = Withheld
      ELSE Flat(back.passages[n]) = Flat(instance.passages[n].text)

Strings == Range(instance.fields) \cup instance.unsearched \cup (Range(bundle.passages) \ {Withheld})

(* A bundle made without permission to quote ships nowhere, in no passage   *)
(* and in no string beside them, QuoteWords words in a row of a passage it  *)
(* withholds; the strings that nobody searches are the only way out.        *)
NothingWithheldShips ==
  bundle.made = "clean" /\ ~tampered =>
    \A n \in DOMAIN bundle.records, shipped \in Strings \ instance.unsearched :
      LET said == Collapse(instance.passages[n].text)
      IN \A first, last \in DOMAIN said :
           IsRun(said, first, last) => Find(SubSeq(said, first, last), Collapse(shipped)) = 0

(* A bundle that was built without an objection can be put back from the    *)
(* very pages it was built from.                                            *)
RestorableWhenUnchanged == back.outcome = "drift" => changes > 0
=============================================================================
