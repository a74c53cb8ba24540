----------------------------- MODULE MCPipeline -----------------------------
(* Questions about an account fee: with a gold answer and without, with and *)
(* without a conflict, singly and as evaluations.                           *)
EXTENDS Pipeline

MCDomain == [tier |-> {"premium", "other tier"}, age |-> {"minor", "grown"}]
MCNames == DOMAIN MCDomain

Attr(name, allowed) == [name |-> name, kind |-> "categorical", allowed |-> allowed]
MCAttrs == [everyone  |-> <<>>,
            premium   |-> <<Attr("tier", {"premium"})>>,
            young     |-> <<Attr("age", {"minor"})>>,
            youngPrem |-> <<Attr("tier", {"premium"}), Attr("age", {"minor"})>>]
MCScopes == DOMAIN MCAttrs
MCUniversal == {"everyone"}

MCOutcomes == {"fee", "free", "half"}
MCMatch == {<<o, o>> : o \in MCOutcomes}
MCVotes == [o \in MCOutcomes |-> [p \in MCOutcomes |-> IF o = p THEN 3 ELSE -2]]
MCLikeness == [g \in MCOutcomes \cup {"blank"} |-> [p \in MCOutcomes \cup {"blank"} |-> IF g = p THEN 3 ELSE IF g = "half" THEN 1 ELSE 0]]
MCEntailment == [s \in MCScopes |-> [t \in MCScopes |-> 0]]

(* Two passages about the same thing, as a model of contradiction may see   *)
(* them: conflicting, uncertain and agreeing.                               *)
Feature(clash, year, temporal, cues, restricted, shared, signal) ==
  [clash |-> clash, year |-> year, temporal |-> temporal, opinion |-> 0, cues |-> cues,
   restricted |-> restricted, specific |-> restricted, shared |-> shared, signal |-> signal]
Sure == Feature(TRUE, FALSE, 0, 2, 1, 500, 900)
Dated == Feature(FALSE, TRUE, 1, 0, 1, 500, 1000)
Band == Feature(FALSE, FALSE, 0, 1, 1, 400, 400)
Calm == Feature(FALSE, FALSE, 0, 0, 0, 100, 50)

Reply(type, relation, conflict) == [type |-> type, relation |-> relation, conflict |-> conflict]
MCReplies == {Reply("conditional", "refinement", "true"), Reply("conditional", "none", "unset"),
              Reply("temporal", "refinement", "true"), Reply("conditional", "opposed", "false")}

BranchOf(scope, outcome, passage) == [scope |-> scope, outcome |-> outcome, passage |-> passage]
Claim(scope, outcome, passage, whole) == BranchOf(scope, outcome, passage) @@ [whole |-> whole]
Condition(name, scope, outcome) == [condition |-> name, scope |-> scope, outcome |-> outcome]

Waived == Condition("c1", "premium", "free")
Halved == Condition("c2", "youngPrem", "half")
Again  == Condition("c1", "young", "free")
Empty  == Condition("c3", "young", "blank")

Refined ==
  [n |-> 2,
   gold |-> [type |-> "conditional", relation |-> "refinement",
             branches |-> <<BranchOf("everyone", "fee", 1), BranchOf("premium", "free", 2), BranchOf("youngPrem", "half", 2)>>],
   features |-> {Sure, Band, Calm},
   says |-> <<{Claim("everyone", "fee", 1, TRUE), Claim("everyone", "fee", 1, FALSE)},
              {Claim("premium", "free", 2, TRUE), Claim("everyone", "free", 2, TRUE), Claim("everyone", "fee", 2, FALSE)}>>,
   conditions |-> {Waived, Halved, Again, Empty},
   grounded |-> {<<2, Waived>>, <<2, Halved>>, <<1, Again>>, <<2, Empty>>},
   sentence |-> <<"fee", "free">>, rank |-> <<2, 1>>, date |-> <<1, 0>>]

(* The rule is in the second passage, and the first is dated. *)
Turned ==
  [Refined EXCEPT !.gold = [type |-> "factual", relation |-> "none", branches |-> <<>>],
                  !.features = {Dated, Calm},
                  !.says = <<{Claim("premium", "free", 1, TRUE)}, {Claim("everyone", "fee", 2, TRUE)}>>,
                  !.conditions = {Waived, Again}, !.grounded = {<<1, Waived>>, <<2, Again>>},
                  !.sentence = <<"free", "fee">>, !.rank = <<1, 1>>]

Agreed ==
  [Refined EXCEPT !.gold = [type |-> "no_conflict", relation |-> "none", branches |-> <<>>],
                  !.features = {Band, Calm}, !.conditions = {Waived},
                  !.says = <<{Claim("everyone", "fee", 1, TRUE)}, {Claim("everyone", "fee", 2, FALSE)}>>]

Inline ==
  [n |-> 3, gold |-> NoGold, features |-> {Band, Calm},
   says |-> <<{Claim("everyone", "fee", 1, TRUE)}, {Claim("premium", "free", 2, TRUE)}, {Claim("youngPrem", "half", 3, TRUE)}>>,
   conditions |-> {Waived, Halved}, grounded |-> {<<2, Waived>>, <<3, Halved>>},
   sentence |-> <<"fee", "free", "half">>, rank |-> <<1, 1, 2>>, date |-> <<2, 1, 1>>]

Request(kind, mode, policy, generation, questions) ==
  [kind |-> kind, mode |-> mode, policy |-> policy, generation |-> generation, questions |-> questions]

(* The same question when the model that reads it is of few words.          *)
Brief(q) == [q EXCEPT !.conditions = {Waived}, !.features = {Band, Calm}]

MCRequests ==
  {Request("run", m, p, g, <<q>>) : m \in {"offline", "live"}, p \in {"override", "as_run"}, g \in {"template", "llm"},
                                    q \in {Refined, Turned, Agreed}}
  \cup {Request("run", "offline", p, "template", <<Inline>>) : p \in {"override", "as_run"}}
  \cup {Request("run", "live", "override", "template", <<Inline>>)}
  \cup {Request("eval", m, p, "template", b) :
          m \in {"offline", "live"}, p \in {"override", "as_run"},
          b \in {<<Brief(Refined), Agreed>>, <<Brief(Refined), Brief(Turned), Agreed>>}}

=============================================================================
