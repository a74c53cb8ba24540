------------------------------ MODULE Release ------------------------------
(***************************************************************************)
(* The public release of the benchmark: release/bundle.py.                 *)
(*                                                                         *)
(* A passage whose text may not be redistributed is withheld; the bundle   *)
(* says where the text is and, by a hash, what it is, and rehydrate() puts *)
(* it back from documents the user fetches, whatever they say by then.     *)
(*                                                                         *)
(* A text is a sequence of symbols: words, punctuation and white space.  A  *)
(* hash is the text itself.                                                *)
(***************************************************************************)
EXTENDS Integers, SequencesExt, FiniteSetsExt, TLC

CONSTANTS
  Written,      (* Written[s]: what a symbol is compared as, a sequence in  *)
                (* which white space is " "                                 *)
  Openly,       (* the sources that may be redistributed                    *)
  QuoteWords,   (* how long a quoted run may not be, 10 in the code         *)
  Openings,     (* the instances released: passages, and the strings around *)
                (* them that are searched for quotes and that are not       *)
  Pages,        (* what a page may say                                      *)
  Changes       (* bound: how often a page or the bundle changes            *)

VARIABLES
  instance,  (* the instance to release: its passages and its strings      *)
  web,       (* the documents: what the page of the closed source says     *)
  bundle,    (* the files of the release                                   *)
  tampered,  (* whether a file was edited after the manifest was written   *)
  back,      (* what the last rehydrate() came to                          *)
  changes    (* how often something changed                                *)

releaseVars == <<instance, web, bundle, tampered, back, changes>>

Withheld == <<"withheld">>
Unread == [passages |-> <<>>, fields |-> <<>>, unsearched |-> {}]
NoPlace == [start |-> 0, end |-> 0, exact |-> FALSE]
NoBundle == [passages |-> <<>>, records |-> <<>>, made |-> "not"]
NotBack == [outcome |-> "none", passages |-> <<>>, unrestorable |-> {}, elsewhere |-> {}]

Texts == Seq(DOMAIN Written)

ASSUME ReleaseAssumption ==
  /\ \A s \in DOMAIN Written : Written[s] \in Seq(STRING)
  /\ " " \in DOMAIN Written /\ Written[" "] = <<" ">>
  /\ \A opening \in Openings :
       /\ opening.fields \in Seq(Texts) /\ opening.unsearched \subseteq Texts
       /\ opening.passages \in Seq(Range(opening.passages))
       /\ \A p \in Range(opening.passages) : p.text \in Texts
  /\ QuoteWords \in Nat \ {0} /\ Changes \in Nat

------------------------------------------------------------------------------
(* _flat_with_map(): the text as it is compared, and where each symbol of it*)
(* comes from: every symbol written out, then white space collapsed and     *)
(* stripped.                                                                *)
Blank == " "

Collapsible(folded, n) ==
  folded[n].s = Blank /\ (n = 1 \/ folded[n - 1].s = Blank \/ \A m \in n..Len(folded) : folded[m].s = Blank)

Mapped(text) ==
  LET folded == FlattenSeq([n \in DOMAIN text |->
                   [k \in DOMAIN Written[text[n]] |-> [s |-> Written[text[n]][k], at |-> n]]])
      kept == SelectSeq([n \in DOMAIN folded |-> n], LAMBDA n : ~Collapsible(folded, n))
  IN [k \in DOMAIN kept |-> folded[kept[k]]]

(* flatten()                                                                *)
Flat(text) == LET mapped == Mapped(text) IN [n \in DOMAIN mapped |-> mapped[n].s]

(* Where a needle first occurs, 0 if it does not.                           *)
Find(needle, text) ==
  LET starts == {n \in 1..(Len(text) - Len(needle) + 1) : SubSeq(text, n, n + Len(needle) - 1) = needle}
  IN IF starts = {} THEN 0 ELSE Min(starts)

(* locate(): a verbatim slice, or else one that compares equal.             *)
Locate(passage, page) ==
  LET verbatim == Find(passage, page)
      needle == Flat(passage)
      mapped == Mapped(page)
      at == IF needle = <<>> THEN 0 ELSE Find(needle, Flat(page))
  IN CASE verbatim # 0 -> [start |-> verbatim, end |-> verbatim + Len(passage) - 1, exact |-> TRUE]
       [] verbatim = 0 /\ at # 0 -> [start |-> mapped[at].at, end |-> mapped[at + Len(needle) - 1].at, exact |-> FALSE]
       [] OTHER -> NoPlace

(* collapse(): white space only.                                            *)
White(symbol) == Written[symbol] = <<Blank>>

Remains(text, n) ==
  IF ~White(text[n]) THEN <<text[n]>>
  ELSE IF n > 1 /\ ~White(text[n - 1]) /\ (\E m \in n..Len(text) : ~White(text[m])) THEN <<Blank>> ELSE <<>>

Collapse(text) == FlattenSeq([n \in DOMAIN text |-> Remains(text, n)])

(* quoted_spans(): whether QuoteWords words in a row are in another field.  *)
IsRun(text, first, last) ==
  /\ first <= last /\ text[first] # Blank /\ text[last] # Blank
  /\ first = 1 \/ text[first - 1] = Blank
  /\ last = Len(text) \/ text[last + 1] = Blank
  /\ Cardinality({n \in first..last : text[n] = Blank}) = QuoteWords - 1

Joined(others) == Collapse(FlattenSeq([n \in DOMAIN others |-> <<Blank>> \o others[n]]))

MutantQuoted(text, others) == Collapse(text) # <<>> /\ Find(Collapse(text), Joined(others)) # 0
Quoted(text, others) ==
  LET words == Collapse(text) IN
  \E first, last \in DOMAIN words :
    IsRun(words, first, last) /\ Find(SubSeq(words, first, last), Joined(others)) # 0

------------------------------------------------------------------------------
(* redact()                                                                 *)

IsClosed(p) == p.source \notin Openly

Record(p) ==
  LET place == Locate(p.text, web) IN
  [place |-> place, located |-> place # NoPlace,
   sha |-> IF place.exact THEN p.text ELSE Flat(p.text), page |-> web]

Records == [n \in DOMAIN instance.passages |-> Record(instance.passages[n])]

ClosedOnes == {n \in DOMAIN instance.passages : IsClosed(instance.passages[n])}

(* _strings(): the fields that are searched (query, answers, what a branch  *)
(* and a person say) and the passages that are shipped.  The notes of the   *)
(* annotation and the attributes of branches and people are not among them. *)
Others == instance.fields \o [n \in DOMAIN instance.passages |->
                                IF n \in ClosedOnes THEN <<>> ELSE instance.passages[n].text]

(* The instances and the documents are read.                                *)
LoadAll(opening, text) ==
  /\ instance = Unread
  /\ instance' = opening /\ web' = text
  /\ UNCHANGED <<bundle, tampered, back, changes>>

(* build_release(): it stops for a passage that cannot be found and for one *)
(* that is quoted, unless it is told to go on.                              *)
Build(allowQuotes, allowUnlocated) ==
  /\ instance # Unread /\ bundle.made = "not"
  /\ LET lost == {n \in ClosedOnes : ~Records[n].located}
         quoted == {n \in ClosedOnes : Quoted(instance.passages[n].text, Others)}
     IN bundle' = IF (lost # {} /\ ~allowUnlocated) \/ (quoted # {} /\ ~allowQuotes)
                  THEN [NoBundle EXCEPT !.made = "refused"]
                  ELSE [made |-> IF quoted # {} THEN "quoting" ELSE "clean",
                        passages |-> [n \in DOMAIN instance.passages |->
                                        IF n \in ClosedOnes THEN Withheld ELSE instance.passages[n].text],
                        records |-> [n \in ClosedOnes |-> Records[n]]]
  /\ UNCHANGED <<instance, web, tampered, back, changes>>

Built == bundle.made \in {"clean", "quoting"}

(* A page is edited, or a file of the bundle is.                            *)
PageChanges(text) ==
  /\ Built /\ changes < Changes /\ text # web
  /\ web' = text /\ changes' = changes + 1 /\ back' = NotBack
  /\ UNCHANGED <<instance, bundle, tampered>>

Tamper ==
  /\ Built /\ ~tampered /\ changes < Changes
  /\ tampered' = TRUE /\ changes' = changes + 1 /\ back' = NotBack
  /\ bundle' = [bundle EXCEPT !.passages[1] = Append(@, "added")]
  /\ UNCHANGED <<instance, web>>

(* rehydrate(): verify() compares the files with the manifest; then every   *)
(* slice must hash to what was recorded.                                    *)
Slice(place) == SubSeq(web, place.start, IF place.end < Len(web) THEN place.end ELSE Len(web))

MutantUnchanged(record) == Slice(record.place) # <<>>
Unchanged(record) ==
  LET text == Slice(record.place)
  IN record.sha = IF record.place.exact THEN text ELSE Flat(text)

Rehydrate ==
  /\ Built
  /\ LET located == {n \in DOMAIN bundle.records : bundle.records[n].located} IN
     back' =
       IF tampered THEN [NotBack EXCEPT !.outcome = "edited"]
       ELSE IF \E n \in located : ~Unchanged(bundle.records[n]) THEN [NotBack EXCEPT !.outcome = "drift"]
       ELSE [outcome |-> "restored", unrestorable |-> DOMAIN bundle.records \ located,
             elsewhere |-> {n \in located : bundle.records[n].page # web},
             passages |-> [n \in DOMAIN bundle.passages |->
                             IF n \in located THEN Slice(bundle.records[n].place) ELSE bundle.passages[n]]]
  /\ UNCHANGED <<instance, web, bundle, tampered, changes>>

------------------------------------------------------------------------------
ReleaseInit ==
  /\ instance = Unread /\ web = <<>>
  /\ bundle = NoBundle /\ tampered = FALSE /\ back = NotBack /\ changes = 0

ReleaseNext ==
  \/ \E opening \in Openings, text \in Pages : LoadAll(opening, text)
  \/ \E allowQuotes, allowUnlocated \in BOOLEAN : Build(allowQuotes, allowUnlocated)
  \/ \E text \in Pages : PageChanges(text)
  \/ Tamper \/ Rehydrate
=============================================================================
