------------------------------ MODULE HeldOut ------------------------------
(***************************************************************************)
(* What keeps the test set out of development: the split of a corpus by    *)
(* connected documents (benchmark/splits.py), by strata (strata.py over    *)
(* relabel_v7.py), and the freeze of the test file before any answer on it *)
(* (prereg/freeze.py, experiments/staging.py).                             *)
(*                                                                         *)
(* The corpus grows while instances are mined.  Freezing is a sequence of  *)
(* commands over files and a repository: export, write the manifest,       *)
(* commit, tag; files can be edited by hand, and a freeze repeated, between*)
(* any two of them.  A runner compares the file it is given with manifest  *)
(* and tag, then loads it; nobody edits the file in between.               *)
(***************************************************************************)
EXTENDS Integers, SequencesExt, FiniteSetsExt, TLC

CONSTANTS
  Pool,         (* the instances that may be mined, in order: what each is *)
  Comparators,  (* the systems H3 may be decided against                   *)
  Freezes,      (* bound: how often the pre-registration is written        *)
  Edits         (* bound: how often somebody edits the test file           *)

VARIABLES
  split,     (* the corpus file: instance -> its split                     *)
  how,       (* history: the command that assigned the splits last         *)
  archived,  (* whether the archive of the old assignment exists           *)
  test,      (* the test file in the working tree: what it holds           *)
  manifest,  (* the manifest in the working tree                           *)
  writing,   (* the comparator of a freeze between its two files           *)
  head,      (* the commit at HEAD: both files                             *)
  tag,       (* the commit tagged prereg-v1                                *)
  answered,  (* history: the test files answers were computed on           *)
  results,   (* history: the comparator results were reported against      *)
  frozen,    (* how many freezes were started                              *)
  edits      (* how many edits were made                                   *)

heldVars == <<split, how, archived, test, manifest, writing, head, tag, answered, results, frozen, edits>>

Absent == "absent"
NoCommit == [test |-> {}, manifest |-> [sha |-> {}, h3 |-> Absent, s1 |-> 0]]
NoManifest == NoCommit.manifest

ASSUME HeldOutAssumption ==
  /\ Pool \in Seq(Range(Pool))
  /\ \A n \in DOMAIN Pool :
       /\ Pool[n].separation \in {"cross_document", "same_guide", "synthetic_split"}
       /\ Pool[n].docs # {} /\ Pool[n].authored \in BOOLEAN /\ Pool[n].contrast \in BOOLEAN
       /\ Pool[n].type = "conditional" => Pool[n].relation # Absent
  /\ Absent \notin Comparators /\ Freezes \in Nat /\ Edits \in Nat

------------------------------------------------------------------------------
(* Strata.                                                                  *)

(* infer_opposition(): an explicit record wins; without a default, two      *)
(* conditioned branches cross unless they apply to the same cases.          *)
Opposition(i) ==
  IF i.opposition # Absent THEN i.opposition
  ELSE IF i.default \/ Len(i.scopes) < 2 THEN "unknown"
  ELSE IF Cardinality(Range(i.scopes)) = 1 THEN "same_scope" ELSE "crossing"

(* relabel()                                                                *)
Relabelled(i) ==
  CASE i.type # "conditional" -> i.type
    [] i.relation = "refinement" -> "conditional_conflict"
    [] i.relation \in {"disjoint", "redundant"} -> "no_conflict"
    [] i.relation = "opposed" /\ Opposition(i) = "unknown" -> "opposed_undecided"
    [] OTHER -> Opposition(i)

(* stratum_of(): text written by a model comes first, whatever its label.   *)
Stratum(i, contrast) ==
  CASE i.authored -> "S5"
    [] ~i.authored /\ i.contrast /\ contrast -> "S4"
    [] ~i.authored /\ ~(i.contrast /\ contrast) /\ Relabelled(i) = "conditional_conflict" ->
         (CASE i.separation = "cross_document" -> "S1"
            [] i.separation = "same_guide" -> "S2"
            [] i.separation = "synthetic_split" -> "S3")
    [] ~i.authored /\ ~(i.contrast /\ contrast) /\ Relabelled(i) = "crossing" -> "S4"
    [] OTHER -> "control"

------------------------------------------------------------------------------
(* Splits.                                                                  *)

Known == DOMAIN split

(* A passage without a document is a document of its own instance.          *)
Docs == [n \in DOMAIN Pool |-> {IF d = Absent THEN <<Absent, n>> ELSE <<d, 0>> : d \in Pool[n].docs}]

(* build_groups(): the connected components over shared documents.          *)
Unconnected(S) == \A n \in S, m \in Known \ S : Docs[n] \cap Docs[m] = {}
MutantGroups == {{m \in Known : Docs[m] = Docs[n]} : n \in Known}
Groups ==
  LET unions == {S \in SUBSET Known : S # {} /\ Unconnected(S)}
  IN {S \in unions : \A T \in unions : T \subseteq S => T = S}

(* Largest first; groups of one size in the order the shuffle left them.    *)
Orders(groups) ==
  {order \in SetToSeqs(groups) :
     \A k \in 1..(Len(order) - 1) : Cardinality(order[k]) >= Cardinality(order[k + 1])}

Share(name, percent) == [split |-> name, percent |-> percent]

(* The split furthest below its quota, the first of them; in hundredths of  *)
(* an instance.                                                             *)
Furthest(ratios, total, have) ==
  LET Lack(k) == ratios[k].percent * total - 100 * have[ratios[k].split]
      best == Max({Lack(k) : k \in DOMAIN ratios})
  IN ratios[Min({k \in DOMAIN ratios : Lack(k) = best})].split

Splits == {"train", "dev", "test"}

(* One group after the other; the placed ones count against the quota.      *)
Placed(before, group, ratios, total) ==
  LET to == Furthest(ratios, total, [s \in Splits |-> Cardinality({m \in DOMAIN before : before[m] = s})])
  IN [n \in DOMAIN before \cup group |-> IF n \in group THEN to ELSE before[n]]

Place(order, ratios, total, kept) ==
  LET upto[k \in 0..Len(order)] == IF k = 0 THEN kept ELSE Placed(upto[k - 1], order[k], ratios, total)
  IN upto[Len(order)]

(* splits.assign()                                                          *)
DefaultRatios == <<Share("train", 60), Share("dev", 20), Share("test", 20)>>

Assign == {Place(order, DefaultRatios, Cardinality(Known), <<>>) : order \in Orders(Groups)}

(* strata.assign_stratified(): a group follows the most protected stratum.  *)
ClassRatios ==
  [S1 |-> <<Share("test", 70), Share("dev", 30)>>,
   S2 |-> <<Share("test", 40), Share("dev", 20), Share("train", 40)>>,
   S3 |-> <<Share("test", 50), Share("dev", 20), Share("train", 30)>>,
   S4 |-> <<Share("test", 50), Share("dev", 25), Share("train", 25)>>,
   control |-> <<Share("test", 40), Share("dev", 25), Share("train", 35)>>,
   S5 |-> <<Share("dev", 35), Share("train", 65)>>]

Priority == <<"S1", "S2", "S3", "S4", "control", "S5">>

Strata == [n \in DOMAIN Pool |-> Stratum(Pool[n], TRUE)]

Class(group) ==
  LET present == {Strata[n] : n \in group}
  IN Priority[Min({k \in DOMAIN Priority : Priority[k] \in present})]

(* An incremental run keeps a group where it is if its class may be there.  *)
Kept(group) == \E n \in group : split[n] \in {r.split : r \in Range(ClassRatios[Class(group)])}

AssignClass(class, incremental) ==
  LET groups  == {g \in Groups : Class(g) = class}
      staying == IF incremental THEN {g \in groups : Kept(g)} ELSE {}
  IN {Place(order, ClassRatios[class], Cardinality(UNION groups), [n \in UNION staying |-> split[n]]) :
        order \in Orders(groups \ staying)}

(* Each class on its own.                                                   *)
ClassOf(n) == Class(CHOOSE g \in Groups : n \in g)
AssignStratified(incremental) ==
  LET class == [n \in Known |-> ClassOf(n)]
      classes == Range(class)
      by == [c \in classes |-> AssignClass(c, incremental)]
  IN {[n \in Known |-> pick[class[n]][n]] : pick \in {p \in [classes -> UNION Range(by)] : \A c \in classes : p[c] \in by[c]}}

(* Documents that span splits already are refused by an incremental run.    *)
Spanning(assignment) ==
  {d \in UNION {Docs[n] : n \in DOMAIN assignment} :
     Cardinality({assignment[n] : n \in {m \in DOMAIN assignment : d \in Docs[m]}}) > 1}

Refused(incremental) == incremental /\ \E g \in Groups : Cardinality({split[n] : n \in g}) > 1

------------------------------------------------------------------------------
(* The corpus.                                                              *)

Frozen == <<test, manifest, writing, head, tag, answered, results, frozen, edits>>

(* A new instance has the default split of the contract.                    *)
Mine ==
  /\ Len(split) < Len(Pool)
  /\ split' = Append(split, "train")
  /\ how' = "mined"
  /\ UNCHANGED <<archived, Frozen>>

(* splits --write                                                           *)
Split ==
  /\ Known # {}
  /\ split' \in Assign /\ how' = "assign"
  /\ UNCHANGED <<archived, Frozen>>

(* strata --resplit --apply: once, because the archive is not overwritten.  *)
Resplit(incremental) ==
  /\ Known # {} /\ ~archived /\ ~Refused(incremental)
  /\ split' \in AssignStratified(incremental)
  /\ how' = IF incremental THEN "incremental" ELSE "resplit"
  /\ archived' = TRUE
  /\ UNCHANGED Frozen

------------------------------------------------------------------------------
(* The freeze.                                                              *)

Corpus == <<split, how, archived>>

(* export_test(): the second component is 1 after an edit by hand.          *)
Export(h3) ==
  /\ frozen < Freezes /\ Known # {} /\ writing = Absent
  /\ test' = {<<n, 0>> : n \in {m \in Known : split[m] = "test" /\ Stratum(Pool[m], FALSE) # "S5"}}
  /\ writing' = h3 /\ frozen' = frozen + 1
  /\ UNCHANGED <<Corpus, manifest, head, tag, answered, results, edits>>

WriteManifest ==
  /\ writing # Absent
  /\ manifest' = [sha |-> test, h3 |-> writing,
                  s1 |-> Cardinality({row \in test : Stratum(Pool[row[1]], FALSE) = "S1"})]
  /\ writing' = Absent
  /\ UNCHANGED <<Corpus, test, head, tag, answered, results, frozen, edits>>

(* The command dies after the export.                                       *)
Interrupted ==
  /\ writing # Absent /\ writing' = Absent
  /\ UNCHANGED <<Corpus, test, manifest, head, tag, answered, results, frozen, edits>>

Edit(row) ==
  /\ edits < Edits /\ row \in test
  /\ test' = (test \ {row}) \cup {<<row[1], 1 - row[2]>>}
  /\ edits' = edits + 1
  /\ UNCHANGED <<Corpus, manifest, writing, head, tag, answered, results, frozen>>

Commit ==
  /\ writing = Absent /\ head # [test |-> test, manifest |-> manifest]
  /\ head' = [test |-> test, manifest |-> manifest]
  /\ UNCHANGED <<Corpus, test, manifest, writing, tag, answered, results, frozen, edits>>

(* create_tag(): nothing of the two files may be uncommitted, and git       *)
(* refuses to move a tag.                                                   *)
Tag ==
  /\ manifest # NoManifest /\ tag = NoCommit
  /\ head = [test |-> test, manifest |-> manifest]
  /\ tag' = head
  /\ UNCHANGED <<Corpus, test, manifest, writing, head, answered, results, frozen, edits>>

(* assert_frozen()                                                          *)
MutantAsserted == manifest # NoManifest /\ manifest.sha = test /\ tag # NoCommit
Asserted ==
  /\ manifest # NoManifest /\ manifest.sha = test
  /\ tag # NoCommit /\ tag.test = test

(* A runner answers the test file; its answers name the file they are of.   *)
Answer ==
  /\ Asserted
  /\ answered' = answered \cup {test}
  /\ UNCHANGED <<Corpus, test, manifest, writing, head, tag, results, frozen, edits>>

(* make_results: the comparator is an argument.                             *)
Report(h3) ==
  /\ Asserted /\ answered # {}
  /\ results' = h3
  /\ UNCHANGED <<Corpus, test, manifest, writing, head, tag, answered, frozen, edits>>

------------------------------------------------------------------------------
HeldInit ==
  /\ split = <<>> /\ how = "mined" /\ archived = FALSE
  /\ test = {} /\ manifest = NoManifest /\ writing = Absent /\ head = NoCommit /\ tag = NoCommit
  /\ answered = {} /\ results = Absent /\ frozen = 0 /\ edits = 0

HeldNext ==
  \/ Mine \/ Split \/ \E incremental \in BOOLEAN : Resplit(incremental)
  \/ \E h3 \in Comparators : Export(h3) \/ Report(h3)
  \/ WriteManifest \/ Interrupted \/ (\E row \in test : Edit(row))
  \/ Commit \/ Tag \/ Answer
=============================================================================
