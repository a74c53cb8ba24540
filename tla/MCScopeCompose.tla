--------------------------- MODULE MCScopeCompose ---------------------------
(* Cards of two tiers; what happens is a withdrawal at a machine or a desk,  *)
(* or anything else, at home or abroad.  Up to four frames, and a partition *)
(* of up to three.                                                          *)
EXTENDS ScopeCompose, TLC

MCParent == [event    |-> [event |-> Top, cash |-> "event", atm |-> "cash", desk |-> "cash"],
             location |-> [location |-> Top, abroad |-> "location"]]
MCWords == [event    |-> [event |-> "event", cash |-> "cash", atm |-> "atm", machine |-> "atm", desk |-> "desk"],
            location |-> [location |-> "location", abroad |-> "abroad"]]
MCSlotOrder == <<"event", "location">>
MCSigName == [event |-> "sig:event", location |-> "sig:location"]

Tiers == {"gold", "platinum", "other tier"}
MCDomain == "tier" :> Tiers @@ "sig:event" :> DOMAIN MCParent.event @@ "sig:location" :> DOMAIN MCParent.location
MCNames == DOMAIN MCDomain

Attr(name, kind, allowed) == [name |-> name, kind |-> kind, allowed |-> allowed]
Own == << <<>>, <<Attr("tier", "categorical", {"gold"})>>, <<Attr("tier", "categorical", {"gold", "platinum"})>>,
         <<Attr("tier", "free_text", {})>> >>
OfEvent == << <<>>, <<Attr("sig:event", "categorical", {"cash", "atm", "desk"})>>,
             <<Attr("sig:event", "categorical", {"atm"})>>, <<Attr("sig:event", "categorical", {"desk"})>> >>
OfPlace == << <<>>, <<Attr("sig:location", "categorical", {"abroad"})>> >>

(* A scope is a number, whose digits tell what it restricts.                 *)
Everyone == 32
MCScopes == 0..32
MCAttrs == [s \in MCScopes |->
  IF s = Everyone THEN <<>> ELSE Own[s \div 8 + 1] \o OfEvent[(s % 8) \div 2 + 1] \o OfPlace[(s % 2) + 1]]
MCUniversal == {Everyone}
MCAppOf == [l \in {MCAttrs[s] : s \in MCScopes \ {Everyone}} |-> CHOOSE s \in MCScopes \ {Everyone} : MCAttrs[s] = l]
Gold == 8
GoldOrPlatinum == 16
Hardship == 24

Outcomes == {"free", "fee", "tomorrow"}
Same1 == {<<o, o>> : o \in Outcomes}
MCCommensurable == ({"free", "fee"} \X {"free", "fee"}) \cup {<<"tomorrow", "tomorrow">>}
MCClear == {<<"free", "fee">>, <<"fee", "free">>}
MCTieBreak == [p \in 1..3 |-> [q \in 1..3 |-> IF p = 1 /\ q = 2 THEN "subsumes" ELSE "uncertain"]]

None == <<>>
Cash == "event" :> "cash"
Atm == "event" :> "atm"
Desk == "event" :> "desk"
Abroad == "location" :> "abroad"
Loan == "event" :> "loan"
Anything == "event" :> "event"

Raw(state, passage, span, decision, app, outcome, hedged) ==
  [state |-> state, passage |-> passage, span |-> span, decision |-> decision, app |-> app, outcome |-> outcome,
   hedged |-> hedged, spanHedged |-> FALSE]
Good(passage, decision, app, outcome) == Raw("good", passage, 1, decision, app, outcome, FALSE)

Decisions == {None, Cash, Atm, Desk, Abroad, Cash @@ Abroad, Loan}
Two == {<<Good(1, d, a, "fee"), Good(2, e, b, o)>> :
          d \in Decisions, e \in Decisions, a \in {Everyone, GoldOrPlatinum}, b \in {Everyone, Gold, Hardship},
          o \in {"fee", "free"}}
Three == {<<Good(1, d, Everyone, "fee"), Good(2, e, a, "free"), Good(3, f, b, o)>> :
            d \in {None, Anything, Cash}, e \in {None, Atm, Abroad, Loan}, f \in {Cash, Desk, Cash @@ Abroad},
            a \in {Everyone, Gold}, b \in {Everyone, Gold, GoldOrPlatinum}, o \in {"free", "tomorrow"}}

(* A group of more than can be partitioned.                                 *)
Four == {<<Good(1, d, Everyone, "fee"), Good(2, None, a, o), Good(3, None, b, "free"),
           Raw("good", 1, 2, None, Everyone, p, FALSE)>> :
           d \in {None, Cash}, a \in {Everyone, Gold}, b \in {Everyone, GoldOrPlatinum, Hardship},
           o \in {"fee", "free"}, p \in {"fee", "free", "tomorrow"}}

(* What a model also does: a list in another order, one span twice, hedging, *)
(* what is quoted from nowhere, and what is no frame at all.                 *)
AFrame == Good(2, None, Everyone, "fee")
Other == Raw("good", 2, 2, "event" :> "machine", Everyone, "free", FALSE)
Maybe == Raw("good", 1, 2, None, Gold, "free", TRUE)
Perhaps == [Good(1, None, Gold, "free") EXCEPT !.spanHedged = TRUE]
Misquote == Raw("span", 1, 3, None, Everyone, "fee", FALSE)
NoFrame == [Misquote EXCEPT !.state = "other"]
Found == Good(1, None, Everyone, "fee")
Sloppy == {<<>>, <<NoFrame>>, <<Misquote>>, <<Misquote, AFrame, Misquote>>, <<Other, AFrame, Other>>, <<Maybe, AFrame>>,
           <<AFrame, Perhaps, Misquote>>, <<Maybe, NoFrame, Other, Found, AFrame>>}
MCRetries == {<<>>, <<Misquote>>, <<Found>>, <<Found, AFrame>>, <<Maybe, Misquote>>}

MCReplies == Two \cup Three \cup Four \cup Sloppy
MCDrafts == {<<>>, <<[outcome |-> "free", default |-> FALSE]>>,
             <<[outcome |-> "fee", default |-> TRUE], [outcome |-> "tomorrow", default |-> FALSE]>>}
=============================================================================
