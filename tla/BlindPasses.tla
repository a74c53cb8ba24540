---------------------------- MODULE BlindPasses ----------------------------
(***************************************************************************)
(* Two annotators label a batch without seeing each other's labels:        *)
(* benchmark/annotation/store.py, cli.py and agreement.py.                 *)
(*                                                                         *)
(* Each annotator has one pass file, of which load() keeps the last record *)
(* of an instance.  A session is cold, or adjudicates the proposals of a   *)
(* model; it works off the list it made when it began, and nothing keeps   *)
(* an annotator from opening a second one while the first is still open.   *)
(* The comparison of two passes and the assembly of gold are commands of   *)
(* their own, run by anybody while sessions are open.  append() looks      *)
(* whether the pass is sealed and then opens the file, so a seal can fall  *)
(* in between.                                                             *)
(*                                                                         *)
(* A record is reduced to its label and whether it escalates: of where it  *)
(* was begun, its basis, only the session knows.                           *)
(***************************************************************************)
EXTENDS Integers, SequencesExt, FiniteSetsExt, TLC

CONSTANTS
  Annotators,   (* the two people                                          *)
  Desks,        (* the terminals, each of which runs one session at a time *)
  Batch,        (* the ids of the batch, in its order                      *)
  Unasked,      (* the instances of the batch whose query is a placeholder *)
  Types,        (* the conflict types in use, "conditional" among them     *)
  Relations,    (* the scope relations in use                              *)
  Proposals,    (* what the pipeline may propose: a type and a relation    *)
  Sittings      (* bound: how many sessions are begun                      *)

VARIABLES
  pass,      (* pass_<annotator>.jsonl as load() reads it: instance -> record *)
  sealed,    (* the annotators whose pass has a .sealed file               *)
  desk,      (* the session at a desk, and whose it is                     *)
  compared,  (* history: the records a comparison showed, by annotator,    *)
             (* that no open session could write anew any more             *)
  sat,       (* how many sessions were begun                               *)
  gold,      (* the gold file: instance -> label                           *)
  disputed,  (* the instances of the .disputed.json beside it              *)
  deferred   (* the instances of the .deferred.json beside it              *)

passVars == <<pass, sealed, desk, compared, sat, gold, disputed, deferred>>

None == "none"
Empty == [i \in {} |-> None]

ASSUME BlindPassesAssumption ==
  /\ IsFiniteSet(Annotators) /\ Cardinality(Annotators) = 2 /\ None \notin Annotators
  /\ Batch \in Seq(Range(Batch)) /\ IsInjective(Batch)
  /\ "conditional" \in Types /\ None \notin Relations
  /\ Proposals \subseteq [type : Types, relation : Relations \cup {None}] /\ Sittings \in Nat

------------------------------------------------------------------------------
(* A record: what LabelRecord.__post_init__ lets through.                   *)

Valid(r) ==
  /\ r.type = "conditional" => r.relation # None \/ r.escalated
  /\ r.type = "no_conflict" => r.relation = None

Labelled(type, relation, escalated) == [type |-> type, relation |-> relation, escalated |-> escalated]

(* What the type prompt and the relation prompt can lead to.  Figures that  *)
(* disagree make the tool ask again before "opinion", and accept it.        *)
Chosen ==
  {Labelled(t, None, FALSE) : t \in Types \ {"conditional"}}
  \cup {Labelled("conditional", r, FALSE) : r \in Relations}
  \cup {Labelled("conditional", None, TRUE)}

(* Accepting a proposal, escalating it, or changing it.                     *)
Reviewed(p) == {Labelled(p.type, p.relation, FALSE), Labelled(p.type, None, TRUE)} \cup Chosen

------------------------------------------------------------------------------
(* Sessions.                                                                *)

Nothing == Labelled(None, None, FALSE)
Away == [who |-> None, todo |-> {}, basis |-> None, seal |-> FALSE, writing |-> Nothing]

AtDesk(d) == desk[d].who # None

(* The places in the batch that the pass has no record for, which the       *)
(* session then goes through in their order.                                *)
Todo(a) == {n \in DOMAIN Batch : Batch[n] \notin DOMAIN pass[a]}

AtHand(d) == Min(desk[d].todo)

(* cmd_annotate() looks at the seal first; cmd_adjudicate() does not.       *)
Sit(d, a, basis, seal) ==
  /\ sat < Sittings /\ ~AtDesk(d) /\ Todo(a) # {}
  /\ basis = "blank" => a \notin sealed
  /\ basis = "model" => ~seal
  /\ desk' = [desk EXCEPT ![d] = [who |-> a, todo |-> Todo(a), basis |-> basis, seal |-> seal, writing |-> Nothing]]
  /\ sat' = sat + 1
  /\ UNCHANGED <<pass, sealed, compared, gold, disputed, deferred>>

(* The annotator skips the instance, or it has no question and the tool     *)
(* does.                                                                    *)
Skip(d) ==
  /\ AtDesk(d) /\ desk[d].todo # {} /\ desk[d].writing = Nothing
  /\ desk' = [desk EXCEPT ![d].todo = @ \ {AtHand(d)}]
  /\ UNCHANGED <<pass, sealed, compared, sat, gold, disputed, deferred>>

(* append() looks at the record and at the seal.                            *)
MutantTakes(a, r) == Valid(r)
Takes(a, r) == Valid(r) /\ a \notin sealed

(* A judgement: a record that is refused, for what it says or because the   *)
(* pass was sealed meanwhile, is not recorded and the session goes on.      *)
Judge(d) ==
  /\ AtDesk(d) /\ desk[d].todo # {} /\ desk[d].writing = Nothing
  /\ desk[d].basis = "blank" => Batch[AtHand(d)] \notin Unasked
  /\ \E r \in IF desk[d].basis = "blank" THEN Chosen ELSE UNION {Reviewed(p) : p \in Proposals} :
       desk' = IF Takes(desk[d].who, r) THEN [desk EXCEPT ![d].writing = r]
               ELSE [desk EXCEPT ![d].todo = @ \ {AtHand(d)}]
  /\ UNCHANGED <<pass, sealed, compared, sat, gold, disputed, deferred>>

(* The last record of an instance is the one that counts.                   *)
With(records, i, r) == [j \in DOMAIN records \cup {i} |-> IF j = i THEN r ELSE records[j]]

(* append() writes the line, whether the pass has one by now or not.        *)
Write(d) ==
  /\ desk[d].writing # Nothing
  /\ pass' = [pass EXCEPT ![desk[d].who] = With(@, Batch[AtHand(d)], desk[d].writing)]
  /\ desk' = [desk EXCEPT ![d].todo = @ \ {AtHand(d)}, ![d].writing = Nothing]
  /\ UNCHANGED <<sealed, compared, sat, gold, disputed, deferred>>

(* The batch is through, or the annotator quits: --seal seals either way.   *)
Leave(d) ==
  /\ AtDesk(d) /\ desk[d].writing = Nothing
  /\ desk' = [desk EXCEPT ![d] = Away]
  /\ sealed' = IF desk[d].seal THEN sealed \cup {desk[d].who} ELSE sealed
  /\ UNCHANGED <<pass, compared, sat, gold, disputed, deferred>>

(* The terminal is closed: nothing of the session is left but its records.  *)
Killed(d) ==
  /\ AtDesk(d)
  /\ desk' = [desk EXCEPT ![d] = Away]
  /\ UNCHANGED <<pass, sealed, compared, sat, gold, disputed, deferred>>

------------------------------------------------------------------------------
(* Agreement.                                                               *)

Escalated(a) == {i \in DOMAIN pass[a] : pass[a][i].escalated}

(* labels() on one axis: an instance without a label there is left out.     *)
OnAxis(a, axis) == {i \in DOMAIN pass[a] : pass[a][i][axis] # None}

(* The instances scored: both labelled them and neither deferred them.      *)
Shared(a, b, axis) == (OnAxis(a, axis) \cap OnAxis(b, axis)) \ (Escalated(a) \cup Escalated(b))

(* A session of the annotator has the instance still before it, and the     *)
(* pass is open or the session is past its look at the seal.                *)
Exposed(a, i) ==
  \E d \in Desks : \E n \in desk[d].todo :
    /\ desk[d].who = a /\ Batch[n] = i
    /\ a \notin sealed \/ (desk[d].writing # Nothing /\ n = AtHand(d))

(* cmd_agreement(): the cells of both confusions are shown, then both passes*)
(* are sealed if it was asked to.  Nobody shares an instance: not computed. *)
Agreement(seal) ==
  \E a, b \in Annotators :
    /\ a # b
    /\ LET shown(c) == {i \in Shared(a, b, "type") : ~Exposed(c, i)}
       IN compared' = [c \in Annotators |->
                         [i \in DOMAIN compared[c] \cup shown(c) |->
                            IF i \in DOMAIN compared[c] THEN compared[c][i] ELSE pass[c][i]]]
    /\ sealed' = IF seal THEN Annotators ELSE sealed
    /\ UNCHANGED <<pass, desk, sat, gold, disputed, deferred>>

------------------------------------------------------------------------------
(* cmd_build_gold()                                                         *)

Label(r) == [type |-> r.type, relation |-> r.relation]

Both(a, b) == {i \in Range(Batch) : i \in DOMAIN pass[a] \cap DOMAIN pass[b]}

PutOff(a, b) == {i \in Both(a, b) : pass[a][i].escalated \/ pass[b][i].escalated}

Differing(a, b) == {i \in Both(a, b) \ PutOff(a, b) : Label(pass[a][i]) # Label(pass[b][i])}

(* The gold file is always rewritten, the other two only when they have     *)
(* something to say.                                                        *)
BuildGold ==
  \E a, b \in Annotators :
    /\ a # b
    /\ gold' = [i \in Both(a, b) \ (PutOff(a, b) \cup Differing(a, b)) |-> Label(pass[a][i])]
    /\ disputed' = IF Differing(a, b) # {} THEN Differing(a, b) ELSE disputed
    /\ deferred' = IF PutOff(a, b) # {} THEN PutOff(a, b) ELSE deferred
    /\ UNCHANGED <<pass, sealed, desk, compared, sat>>

------------------------------------------------------------------------------
PassesInit ==
  /\ pass = [a \in Annotators |-> Empty] /\ compared = [a \in Annotators |-> Empty]
  /\ sealed = {} /\ sat = 0 /\ desk = [d \in Desks |-> Away]
  /\ gold = Empty /\ disputed = {} /\ deferred = {}

PassesNext ==
  \/ \E d \in Desks :
       \/ \E a \in Annotators, basis \in {"blank", "model"}, seal \in BOOLEAN : Sit(d, a, basis, seal)
       \/ Skip(d) \/ Judge(d) \/ Write(d) \/ Leave(d) \/ Killed(d)
  \/ \E seal \in BOOLEAN : Agreement(seal)
  \/ BuildGold
=============================================================================
