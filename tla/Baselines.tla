----------------------------- MODULE Baselines -----------------------------
(***************************************************************************)
(* The systems ScopeCompose is compared with, on the passages of one       *)
(* instance (baselines/registry.py): B0 answers from all of them, B3 first *)
(* selects between those in conflict (conflictrag_topsis.py), B7c writes   *)
(* down branches and has them verbalised, B8 has them verified in between. *)
(* The long-context baseline parses branches the same way and keeps them   *)
(* (structured_long_context.py).  A model may return any list of items.    *)
(***************************************************************************)
EXTENDS Naturals, SequencesExt, FiniteSetsExt

CONSTANTS
  Context,      (* the date of each passage, 0 when it has none            *)
  Items,        (* what a model can list: [default, condition, outcome,    *)
                (* source], a condition or an outcome "" when it gives none*)
  Closeness,    (* how credible a passage can come out                     *)
  Delta         (* by how much the most credible must win                  *)

VARIABLES
  system,       (* which baseline is answering, "" before one is           *)
  kept,         (* the passages it answers from                            *)
  draft,        (* the branches it has written down                        *)
  listed,       (* the items those were parsed from                        *)
  calls,        (* how many model calls it made                            *)
  spoken,       (* the clauses of its answer                               *)
  failed        (* whether its model call failed                           *)

baseVars == <<system, kept, draft, listed, calls, spoken, failed>>

Passages == DOMAIN Context
Systems == {"B0", "B3", "B7c", "B8", "long_context"}

------------------------------------------------------------------------------
(* Selection.                                                               *)

(* The gold conflict is between the first two passages.  There is no        *)
(* conditional type here: a rule and its exception are a factual conflict.  *)
ConflictTypeOf(type) == IF type \in {"temporal", "opinion"} THEN type ELSE "factual"
InConflict(type) == IF type = "no_conflict" \/ Len(Context) < 2 THEN {} ELSE {1, 2}

(* The newest, all that carry its date; everything when nothing is dated.   *)
ByRecency(group) ==
  LET newest == {p \in group : \A q \in group : Context[q] <= Context[p]}
  IN IF \A p \in group : Context[p] = 0 THEN group ELSE newest

(* The most credible, if it clears the next by more than Delta.             *)
ByCredibility(group, closeness) ==
  LET clear == {p \in group : \A q \in group \ {p} : closeness[p] > closeness[q] + Delta}
  IN IF clear = {} THEN group ELSE clear

Resolved(type, closeness) ==
  LET group == InConflict(type) IN
  CASE group = {} -> {}
    [] ConflictTypeOf(type) = "temporal" -> ByRecency(group)
    [] ConflictTypeOf(type) = "opinion" -> group
    [] OTHER -> ByCredibility(group, closeness)

------------------------------------------------------------------------------
(* Branches.                                                                *)

DefaultBefore(items, i) == \E j \in 1..(i - 1) : items[j].outcome # "" /\ items[j].default

(* A default is unconditional, a second one becomes a conditioned branch,   *)
(* and a branch that cites no passage there is loses its citation.          *)
MutantParsed(items, i) ==
  [default |-> items[i].default,
   condition |-> IF items[i].default THEN "" ELSE IF items[i].condition = "" THEN "unspecified" ELSE items[i].condition,
   outcome |-> items[i].outcome,
   source |-> items[i].source \cap Passages]
Parsed(items, i) ==
  LET default == items[i].default /\ ~DefaultBefore(items, i)
      condition == items[i].condition
  IN [default |-> default,
      condition |-> IF default THEN "" ELSE IF condition = "" THEN "unspecified" ELSE condition,
      outcome |-> items[i].outcome,
      source |-> items[i].source \cap Passages]

(* An item without an outcome claims nothing.                               *)
Claims(items, i) == IF items[i].outcome = "" THEN << >> ELSE <<Parsed(items, i)>>
ParseBranches(items) == FlattenSeq([i \in DOMAIN items |-> Claims(items, i)])

(* The first default plainly, the branches that are not default by their    *)
(* conditions.                                                              *)
Conditioned(branches, k) == IF branches[k].default THEN << >> ELSE <<branches[k]>>
VerbaliseBranches(branches) ==
  LET defaults == {k \in DOMAIN branches : branches[k].default}
  IN (IF defaults = {} THEN << >> ELSE <<branches[Min(defaults)]>>)
     \o FlattenSeq([k \in DOMAIN branches |-> Conditioned(branches, k)])

------------------------------------------------------------------------------
Ask(s) ==
  /\ system = ""
  /\ system' = s /\ kept' = Passages
  /\ UNCHANGED <<draft, listed, calls, spoken, failed>>

(* The passages in conflict give way to the resolved ones.                  *)
Select(type, closeness) ==
  /\ system = "B3" /\ calls = 0
  /\ kept' = (Passages \ InConflict(type)) \cup Resolved(type, closeness)
  /\ calls' = 1
  /\ UNCHANGED <<system, draft, listed, spoken, failed>>

Generate ==
  /\ system = "B0" /\ calls = 0
  /\ calls' = 1
  /\ UNCHANGED <<system, kept, draft, listed, spoken, failed>>

(* The draft, in one call.                                                  *)
Parse(items) ==
  /\ system \in {"B7c", "B8", "long_context"} /\ calls = 0
  /\ calls' = 1 /\ listed' = items /\ draft' = ParseBranches(items)
  /\ UNCHANGED <<system, kept, spoken, failed>>

(* The long-context run notes that a call failed and goes on to the next.   *)
FailInstance ==
  /\ system = "long_context" /\ calls = 0
  /\ calls' = 1 /\ failed' = TRUE
  /\ UNCHANGED <<system, kept, draft, listed, spoken>>

(* A verification that yields nothing never erases the draft; there is none *)
(* when there is nothing to verify.                                         *)
Verify(items) ==
  /\ system = "B8" /\ calls = 1 /\ draft # << >> /\ spoken = << >>
  /\ calls' = 2
  /\ LET fixed == ParseBranches(items) IN
       IF fixed = << >> THEN UNCHANGED <<draft, listed>> ELSE draft' = fixed /\ listed' = items
  /\ UNCHANGED <<system, kept, spoken, failed>>

Verbalise ==
  /\ \/ system = "B7c" /\ calls = 1
     \/ system = "B8" /\ (calls = 2 \/ (calls = 1 /\ draft = << >>))
  /\ spoken = << >> /\ draft # << >>
  /\ spoken' = VerbaliseBranches(draft)
  /\ UNCHANGED <<system, kept, draft, listed, calls, failed>>

Lists == {<< >>} \cup {<<a>> : a \in Items} \cup {<<a, b>> : a, b \in Items}

BaseInit ==
  /\ system = "" /\ kept = {} /\ draft = << >> /\ listed = << >>
  /\ calls = 0 /\ spoken = << >> /\ failed = FALSE

BaseNext ==
  \/ \E s \in Systems : Ask(s)
  \/ \E type \in {"no_conflict", "factual", "temporal", "opinion", "conditional"} :
       \E closeness \in [{1, 2} -> Closeness] : Select(type, closeness)
  \/ Generate
  \/ \E items \in Lists : Parse(items)
  \/ FailInstance
  \/ \E items \in Lists : Verify(items)
  \/ Verbalise
=============================================================================
