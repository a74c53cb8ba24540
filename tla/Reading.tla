------------------------------ MODULE Reading ------------------------------
(***************************************************************************)
(* Case-complete accuracy: a reader model is shown an answer and a person, *)
(* and says which outcome the answer gives that person and where.  Four    *)
(* conditions decide whether the answer is credited: the quote is verbatim,*)
(* an entailment model takes it to state the person's outcome, it is not   *)
(* hedged, and the reader's outcome is the gold one.  The reader and the   *)
(* entailment model are models and may say anything of anything.           *)
(***************************************************************************)
EXTENDS Naturals, Sequences, SequencesExt, FiniteSets

CONSTANTS
  Personas,     (* the people of the instance, in order                    *)
  GoldOutcome,  (* the outcome that holds for each of them                 *)
  DefaultCase,  (* those the general rule covers                           *)
  Replies,      (* the answers a system can give                           *)
  Quotes,       (* the passages a reader can offer as evidence             *)
  Hedges        (* the words that hedge what they stand beside             *)

(* An answer is a sequence of sentences, a sentence a sequence of words: of *)
(* the pieces a quote can be cut from and between.                          *)
ASSUME PersonasAssumption ==
  /\ Personas \in Seq(Range(Personas)) /\ IsInjective(Personas)
  /\ DefaultCase \subseteq Range(Personas)
  /\ Range(Personas) \subseteq DOMAIN GoldOutcome
  /\ \A r \in Replies : r \in Seq(Seq(UNION {Range(s) : s \in Range(r)}))
  /\ \A q \in Quotes : q \in Seq(Range(q))

VARIABLES
  reply,        (* the answer under judgement, << >> when there is none    *)
  asked,        (* whether the system was asked                            *)
  heard,        (* what the reader last said, and of whom                  *)
  verdict,      (* why each person judged so far was not credited          *)
  cca           (* the scores of the corpus                                *)

readVars == <<reply, asked, heard, verdict, cca>>

Undetermined == "NOT_DETERMINED"
Credited == "credited"

GoldOutcomes == {GoldOutcome[p] : p \in Range(Personas)}

------------------------------------------------------------------------------
(* The conditions.  A quote is any run of words of the answer, whatever it  *)
(* is cut from: case, spacing and quotation marks have been forgiven.       *)

Within(quote, text) == \E s \in DOMAIN text : IsPrefix(quote, SubSeq(text, s, Len(text)))

Verbatim(quote) == quote # << >> /\ Within(quote, FlattenSeq(reply))

(* The sentence the quote is from: the first that contains it, or the quote *)
(* itself when it runs over the end of one.                                 *)
Sentence(quote) ==
  LET holding == {s \in DOMAIN reply : Within(quote, reply[s])}
  IN IF holding = {} THEN quote ELSE reply[CHOOSE s \in holding : \A t \in holding : s <= t]

HedgedIn(text) == \E k \in DOMAIN text : text[k] \in Hedges

(* A hedge dropped from the quote still belongs to its sentence.            *)
(* (The operators named Mutant... are not part of the model: each is what   *)
(* the next definition would be with a bug a property is there to catch.)   *)
MutantHedged(quote) == HedgedIn(quote)

Hedged(quote) == HedgedIn(quote) \/ HedgedIn(Sentence(quote))

------------------------------------------------------------------------------
(* What the reader can say: nothing that parses, that the answer settles    *)
(* nothing, or an outcome with a passage for evidence.                      *)
Sayings == {[parsed |-> FALSE, outcome |-> Undetermined, quote |-> << >>]}
           \cup {[parsed |-> TRUE, outcome |-> o, quote |-> q] : o \in GoldOutcomes \cup {Undetermined}, q \in Quotes}

(* The first condition that fails, in the order they are tried.             *)
Failing(p, said, entailed) ==
  CASE ~said.parsed -> "unparseable"
    [] said.outcome = Undetermined -> "not determined"
    [] ~Verbatim(said.quote) -> "not verbatim"
    [] ~entailed -> "not entailed"
    [] Hedged(said.quote) -> "hedged"
    [] said.outcome # GoldOutcome[p] -> "wrong"
    [] OTHER -> Credited

Lenient(p, said) == said.parsed /\ said.outcome = GoldOutcome[p]

(* A person the rule covers is told the outcome of an exception.            *)
OverGeneralised(p, said, why) ==
  /\ p \in DefaultCase
  /\ said.outcome \in {GoldOutcome[e] : e \in Range(Personas) \ DefaultCase} \ {GoldOutcome[p]}
  /\ why \in {Credited, "wrong"}

Judged == DOMAIN verdict
NextPerson == Personas[Cardinality(Judged) + 1]

(* A system's answer to the instance, or none.                              *)
Hear(r) ==
  /\ ~asked
  /\ asked' = TRUE /\ reply' = r
  /\ UNCHANGED <<heard, verdict, cca>>

Unscored == [scored |-> FALSE, refused |-> FALSE]

(* No answer is not a wrong answer: the corpus is not scored.               *)
RefuseGap ==
  /\ asked /\ reply = << >> /\ cca = Unscored
  /\ cca' = [Unscored EXCEPT !.refused = TRUE]
  /\ UNCHANGED <<reply, asked, heard, verdict>>

(* The reader reads the answer for the next person.                         *)
JudgePerson(said) ==
  /\ reply # << >>
  /\ Cardinality(Judged) < Len(Personas)
  /\ \E entailed \in BOOLEAN :
       LET p == NextPerson
           why == Failing(p, said, entailed)
           judgement == [why |-> why, lenient |-> Lenient(p, said), over |-> OverGeneralised(p, said, why)]
       IN /\ heard' = [person |-> p, said |-> said]
          /\ verdict' = [q \in Judged \cup {p} |-> IF q = p THEN judgement ELSE verdict[q]]
  /\ UNCHANGED <<reply, asked, cca>>

HowMany(S, Test(_)) == Cardinality({p \in S : Test(p)})

(* The scores, pooled over the people.                                      *)
Aggregate ==
  /\ reply # << >> /\ cca = Unscored
  /\ Cardinality(Judged) = Len(Personas)
  /\ LET strict(p) == verdict[p].why = Credited
         lenient(p) == verdict[p].lenient
         over(p) == verdict[p].over
     IN cca' = [scored |-> TRUE, all |-> \A p \in Judged : strict(p), lenient |-> \A p \in Judged : lenient(p),
                exception |-> HowMany(Judged \ DefaultCase, strict),
                default |-> HowMany(DefaultCase, strict),
                over |-> HowMany(DefaultCase, over)]
  /\ UNCHANGED <<reply, asked, heard, verdict>>

ReadInit ==
  /\ reply = << >> /\ asked = FALSE /\ verdict = << >> /\ cca = Unscored
  /\ heard = [person |-> "nobody", said |-> [parsed |-> FALSE, outcome |-> Undetermined, quote |-> << >>]]

ReadNext ==
  \/ \E r \in Replies \cup {<< >>} : Hear(r)
  \/ RefuseGap
  \/ \E said \in Sayings : JudgePerson(said)
  \/ Aggregate
=============================================================================
