----------------------------- MODULE HumanLoop -----------------------------
(***************************************************************************)
(* A model proposes branches and personas, people review them, and their   *)
(* verdicts land in the corpus: benchmark/human_loop.py with review.py,    *)
(* preannotate.py and personas.py.                                         *)
(*                                                                         *)
(* Every step is a command over files: the corpus, one file of items per   *)
(* kind, one append-only file of decisions per kind and reviewer, and the  *)
(* file of updated instances that apply-* writes and merge reads.  A review*)
(* session holds the items and the decisions as they were when it started; *)
(* it can be killed within a line, and nothing keeps one person from being *)
(* in several.                                                             *)
(*                                                                         *)
(* A proposal is a version number, its text being of no concern here.      *)
(***************************************************************************)
EXTENDS Integers, SequencesExt, FiniteSetsExt, TLC

CONSTANTS
  Reviewers,    (* the people                                              *)
  Terminals,    (* where they sit: a terminal runs one review at a time    *)
  Instances,    (* the corpus: conditional refinements, in their order     *)
  Versions,     (* bound: how many proposals the model writes              *)
  Verdicts,     (* bound: how many lines the sessions write                *)
  Kills         (* bound: how many sessions die within a line              *)

VARIABLES
  corpus,    (* the newest corpus file: instance -> what it carries        *)
  items,     (* the items file of each kind: instance -> its item          *)
  lines,     (* <kind>_<reviewer>.jsonl                                    *)
  session,   (* the review a terminal runs, and who gives the verdicts     *)
  updates,   (* the file the last apply-* wrote                            *)
  given,     (* history: the instances a reviewer gave a verdict on        *)
  overtaken, (* history: the proposals that came when a reviewer had       *)
             (* already decided on the instance, or had it still to decide *)
             (* on in the form it had before                               *)
  fresh,     (* how many proposals were written                            *)
  kills      (* how many sessions died within a line, by reviewer          *)

loopVars == <<corpus, items, lines, session, updates, given, overtaken, fresh, kills>>

Kinds == {"branches", "personas"}
Nobody == "nobody"
NoItems == [i \in {} |-> 0]

ASSUME HumanLoopAssumption == /\ Reviewers # {} /\ Nobody \notin Reviewers
                              /\ Instances \in Seq(Range(Instances)) /\ IsInjective(Instances)
                              /\ {Versions, Verdicts, Kills} \subseteq Nat

------------------------------------------------------------------------------
(* review.py                                                                *)

Decision(i, verdict, edits, on) == [item |-> i, verdict |-> verdict, edits |-> edits, on |-> on]

(* Half a line, which the next record continues, and a line nobody can read.*)
Half == Decision(Nobody, "half", "none", 0)
Garbled == Decision(Nobody, "garbled", "none", 0)

Readable(line) == line \notin {Half, Garbled}

(* ReviewStore.append()                                                     *)
Appended(file, line) ==
  IF file # <<>> /\ Last(file) = Half THEN Append(Front(file), IF line = Half THEN Half ELSE Garbled)
  ELSE Append(file, line)

(* ReviewStore.load(): a line that cannot be read is passed over, and the   *)
(* latest decision on an item wins.                                         *)
Latest(file, read) ==
  [i \in {file[n].item : n \in read} |-> file[Max({n \in read : file[n].item = i})]]

MutantLoad(file) == Latest(file, {n \in DOMAIN file : \A m \in 1..n : Readable(file[m])})
Load(file) == Latest(file, {n \in DOMAIN file : Readable(file[n])})

Idle == [by |-> Nobody, kind |-> Nobody, todo |-> {}, shown |-> NoItems]

Reviewing(t) == session[t].by # Nobody

(* The bound: no session starts, and none goes on, after the last line.     *)
Room == MapThenSumSet(LAMBDA p : Len(lines[p[1]][p[2]]), Kinds \X Reviewers) < Verdicts

Undecided(kind, r) ==
  {n \in DOMAIN Instances : Instances[n] \in DOMAIN items[kind] \ DOMAIN Load(lines[kind][r])}

(* review() on the undecided items of a file, in their order.               *)
Start(t, r, kind) ==
  /\ ~Reviewing(t) /\ Room
  /\ Undecided(kind, r) # {}
  /\ session' = [session EXCEPT ![t] = [by |-> r, kind |-> kind, todo |-> Undecided(kind, r), shown |-> items[kind]]]
  /\ UNCHANGED <<corpus, items, lines, updates, given, overtaken, fresh, kills>>

(* What a person can say of the next item, after the last of which the      *)
(* session is over, and what the edits come to: words, a condition taken    *)
(* away from an exception, or personas with problems.                       *)
Said == {<<"accept", "none">>, <<"reject", "none">>, <<"skip", "none">>, <<"edit", "words">>, <<"edit", "unsound">>}

Decide(t) ==
  /\ Reviewing(t)
  /\ Room
  /\ LET kind == session[t].kind
         r == session[t].by
         i == Instances[Min(session[t].todo)]
     IN /\ \E say \in Said :
             lines' = [lines EXCEPT ![kind][r] = Appended(@, Decision(i, say[1], say[2], session[t].shown[i].version))]
        /\ given' = [given EXCEPT ![kind][r] = @ \cup {i}]
  /\ LET rest == session[t].todo \ {Min(session[t].todo)}
     IN session' = [session EXCEPT ![t] = IF rest = {} THEN Idle ELSE [@ EXCEPT !.todo = rest]]
  /\ UNCHANGED <<corpus, items, updates, overtaken, fresh, kills>>

(* --limit is reached, or the reviewer quits.                               *)
Stop(t) ==
  /\ Reviewing(t)
  /\ session' = [session EXCEPT ![t] = Idle]
  /\ UNCHANGED <<corpus, items, lines, updates, given, overtaken, fresh, kills>>

DieInLine(t) ==
  /\ Reviewing(t)
  /\ Room /\ MapThenSumSet(LAMBDA p : kills[p], Reviewers) < Kills
  /\ lines' = [lines EXCEPT ![session[t].kind][session[t].by] = Appended(@, Half)]
  /\ session' = [session EXCEPT ![t] = Idle]
  /\ kills' = [kills EXCEPT ![session[t].by] = @ + 1]
  /\ UNCHANGED <<corpus, items, updates, given, overtaken, fresh>>

------------------------------------------------------------------------------
(* human_loop.py: proposing.                                                *)

Needs(kind, i) ==
  IF kind = "branches" THEN corpus[i].branches = 0
  ELSE corpus[i].branches # 0 /\ corpus[i].personas = 0

(* generate_personas(): one repair, kept unless it has more problems.       *)
Repaired(first, retry) == IF first # 0 /\ retry <= first THEN retry ELSE first

(* The reviewer will not be shown what is proposed now: the verdict is in   *)
(* the file, or the session goes on with what it read when it started.      *)
Behind(kind, r, i) ==
  \/ i \in DOMAIN Load(lines[kind][r])
  \/ \E t \in Terminals : /\ session[t].by = r /\ session[t].kind = kind
                          /\ \E n \in session[t].todo : Instances[n] = i

(* propose-*: a new items file, with the instance as the corpus has it.  A  *)
(* proposal that fails is left out of it.                                   *)
Propose(kind) ==
  /\ fresh < Versions
  /\ \E who \in SUBSET {i \in Range(Instances) : Needs(kind, i)}, first, retry \in 0..1 :
       /\ who # {} /\ (kind = "branches" => first = 0 /\ retry = 0)
       /\ items' = [items EXCEPT ![kind] =
            [i \in who |-> [version |-> fresh + 1, base |-> corpus[i], problems |-> Repaired(first, retry)]]]
       /\ overtaken' = overtaken \cup {p \in {kind} \X Reviewers \X who \X {fresh + 1} : Behind(p[1], p[2], p[3])}
  /\ fresh' = fresh + 1
  /\ UNCHANGED <<corpus, lines, session, updates, given, kills>>

------------------------------------------------------------------------------
(* human_loop.py: applying.                                                 *)

Positive == {"accept", "edit"}

(* _gate(): the items the first reviewer decided for, and the second, if    *)
(* there is one, too.                                                       *)
MutantGate(primary, second, withSecond, i) ==
  /\ i \in DOMAIN primary /\ primary[i].verdict \in Positive
  /\ withSecond /\ i \in DOMAIN second => second[i].verdict # "reject"
Gate(primary, second, withSecond, i) ==
  /\ i \in DOMAIN primary /\ primary[i].verdict \in Positive
  /\ withSecond => i \in DOMAIN second /\ second[i].verdict \in Positive

(* apply_edits(), and validate() of the edited personas: an edit that would *)
(* break the structure is refused.                                          *)
Sound(kind, item, d) ==
  IF d.verdict = "edit" THEN d.edits = "words" ELSE kind = "personas" => item.problems = 0

(* The branches go onto the instance of the item, the personas onto the one *)
(* of the corpus, which must have branches by now.                          *)
Updated(kind, i, d, r, second) ==
  LET item == items[kind][i] IN
  IF kind = "branches"
  THEN [item.base EXCEPT !.branches = item.version, !.by = r, !.second = second]
  ELSE [corpus[i] EXCEPT !.personas = item.version, !.sound = d.edits # "unsound" /\ (d.verdict = "edit" \/ item.problems = 0),
                         !.reader = r]

(* A file of no updates is left out: what merge makes of it is the corpus.  *)
Apply(kind, r, second) ==
  /\ second # r
  /\ LET primary == Load(lines[kind][r])
         other == IF second = Nobody THEN NoItems ELSE Load(lines[kind][second])
         applied == {i \in DOMAIN items[kind] :
                       /\ Gate(primary, other, second # Nobody, i)
                       /\ Sound(kind, items[kind][i], primary[i])
                       /\ kind = "personas" => corpus[i].branches # 0}
     IN applied # {} /\ updates' = [i \in applied |-> Updated(kind, i, primary[i], r, second)]
  /\ UNCHANGED <<corpus, items, lines, session, given, overtaken, fresh, kills>>

(* merge(): each updated instance replaces the one of its id, in a new file.*)
Merge ==
  /\ updates # NoItems
  /\ corpus' = [i \in DOMAIN corpus |-> IF i \in DOMAIN updates THEN updates[i] ELSE corpus[i]]
  /\ UNCHANGED <<items, lines, session, updates, given, overtaken, fresh, kills>>

------------------------------------------------------------------------------
LoopInit ==
  /\ corpus = [i \in Range(Instances) |-> [branches |-> 0, by |-> Nobody, second |-> Nobody,
                                           personas |-> 0, sound |-> TRUE, reader |-> Nobody]]
  /\ items = [k \in Kinds |-> NoItems]
  /\ lines = [k \in Kinds |-> [r \in Reviewers |-> <<>>]]
  /\ session = [t \in Terminals |-> Idle]
  /\ updates = NoItems
  /\ given = [k \in Kinds |-> [r \in Reviewers |-> {}]]
  /\ overtaken = {} /\ fresh = 0 /\ kills = [r \in Reviewers |-> 0]

LoopNext ==
  \/ \E t \in Terminals, r \in Reviewers, kind \in Kinds : Start(t, r, kind)
  \/ \E t \in Terminals : Decide(t) \/ Stop(t) \/ DieInLine(t)
  \/ \E kind \in Kinds : Propose(kind)
  \/ \E kind \in Kinds, r \in Reviewers, second \in Reviewers \cup {Nobody} : Apply(kind, r, second)
  \/ Merge
=============================================================================
