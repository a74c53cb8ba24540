-------------------------- MODULE LLMClientProofs --------------------------
(***************************************************************************)
(* The safety properties of LLMClient for any threads, tiers, settings,    *)
(* retries and budget: IInv is inductive and implies them.                 *)
(***************************************************************************)
EXTENDS LLMClient, FiniteSetTheorems, TLAPS

USE DEF Bounded

(* The keys of calls are keys. *)
LEMMA KeyType == ASSUME NEW c \in Calls PROVE KeyOf(c) \in Keys
  BY ConfigAssumption DEF KeyOf, Keys, Calls

(* A model that answers is one of the models. *)
LEMMA ModelType == /\ \A t \in Tiers : Own(t) \in Models
                   /\ Fallback \in Models
  BY ConfigAssumption DEF Own, Models

(* Spending keeps the budget typed. *)
LEMMA SpendType ==
  ASSUME budget \in [Bounded -> Nat], NEW b \in Bounded, Spend(b)
  PROVE  budget' \in [Bounded -> Nat]
  BY DEF Spend

(* An answer keeps the types: the new one is an answer, older numbers stay  *)
(* in range.                                                               *)
LEMMA AnsweredType ==
  ASSUME TypeOK, NEW h \in Threads, NEW m \in Models, NEW f \in BOOLEAN, Answered(h, m, f)
  PROVE  /\ answers' \in Seq(Answer)
         /\ Len(answers') = Len(answers) + 1
         /\ \A a \in 1..Len(answers) : answers'[a] = answers[a]
         /\ answers'[Len(answers) + 1] =
              [setting |-> SettingOf[call[h].tier], request |-> call[h].request,
               model |-> m, fell |-> f, by |-> h, cached |-> call[h].cached]
<1> DEFINE new == [setting |-> SettingOf[call[h].tier], request |-> call[h].request,
                   model |-> m, fell |-> f, by |-> h, cached |-> call[h].cached]
<1>1. call[h] \in Calls
  BY DEF TypeOK
<1>2. new \in Answer
  BY <1>1, ConfigAssumption DEF Answer, Calls
<1>3. answers \in Seq(Answer) /\ answers' = Append(answers, new)
  BY DEF TypeOK, Answered
<1> QED
  BY <1>2, <1>3

(* Every reachable state is well typed, given the bounds on the loop that   *)
(* ThreadInv states.                                                        *)
LEMMA TypeStep == TypeOK /\ ThreadInv /\ [Next]_vars => TypeOK'
<1> SUFFICES ASSUME TypeOK, ThreadInv, [Next]_vars PROVE TypeOK'
  OBVIOUS
<1>1. ASSUME NEW h \in Threads, Begin(h) PROVE TypeOK'
  <2>1. budget' \in [Bounded -> Nat]
    BY <1>1, SpendType DEF Begin, TypeOK
  <2>2. PICK c \in Calls : call' = [call EXCEPT ![h] = c] /\ pc' = [pc EXCEPT ![h] = IF c.cached THEN "lookup" ELSE "attempt"]
    BY <1>1 DEF Begin, Goto
  <2>3. /\ call' \in [Threads -> Calls]
        /\ pc' \in [Threads -> {"idle", "lookup", "attempt", "exhausted", "fallback", "put", "hit", "answered", "failed"}]
    BY <2>2 DEF TypeOK
  <2>4. /\ tries' \in [Threads -> 0..MaxRetries] /\ limited' \in [Threads -> 0..MaxRetries]
        /\ held' \in [Threads -> 0..Len(answers)]
    BY <1>1, ConfigAssumption DEF Begin, TypeOK
  <2>5. result' \in [Threads -> [answer : 0..Len(answers), cached : BOOLEAN, fellBack : BOOLEAN]]
    <3>1. NoResult \in [answer : 0..Len(answers), cached : BOOLEAN, fellBack : BOOLEAN]
      BY DEF NoResult, TypeOK
    <3> QED
      BY <1>1, <3>1 DEF Begin, TypeOK
  <2> QED
    BY <1>1, <2>1, <2>3, <2>4, <2>5 DEF Begin, TypeOK, files
<1>2. ASSUME NEW h \in Threads, Lookup(h) PROVE TypeOK'
  <2>1. cache[KeyOf(call[h])] \in 0..Len(answers)
    BY KeyType DEF TypeOK
  <2> QED
    BY <1>2, <2>1 DEF Lookup, Goto, AtHit, TypeOK, files, locals
<1>3. ASSUME NEW h \in Threads, Attempt(h) \/ FallBack(h) PROVE TypeOK'
  <2>1. PICK m \in Models, f \in BOOLEAN : Answered(h, m, f)
    <3>1. call[h].tier \in Tiers
      BY DEF TypeOK, Calls
    <3> QED
      BY <1>3, <3>1, ModelType DEF Attempt, FallBack
  <2>2. answers' \in Seq(Answer) /\ Len(answers') = Len(answers) + 1
    BY <2>1, AnsweredType
  <2>3. UNCHANGED <<files, locals, result, budget>>
    BY <1>3 DEF Attempt, FallBack
  <2>4. held' \in [Threads -> 0..Len(answers')]
    BY <2>1, <2>2 DEF Answered, TypeOK
  <2>5. cache' \in [Keys -> 0..Len(answers')]
    BY <2>2, <2>3 DEF files, TypeOK
  <2>6. result' \in [Threads -> [answer : 0..Len(answers'), cached : BOOLEAN, fellBack : BOOLEAN]]
    <3>1. 0..Len(answers) \subseteq 0..Len(answers')
      BY <2>2 DEF TypeOK
    <3> QED
      BY <2>3, <3>1 DEF TypeOK
  <2>7. pc' \in [Threads -> {"idle", "lookup", "attempt", "exhausted", "fallback", "put", "hit", "answered", "failed"}]
    BY <2>1 DEF Answered, Goto, AtAnswer, TypeOK
  <2> QED
    BY <2>2, <2>3, <2>4, <2>5, <2>6, <2>7 DEF TypeOK, files, locals
<1>4. ASSUME NEW h \in Threads, AttemptFails(h) PROVE TypeOK'
  <2>1. tries[h] \in Nat /\ tries[h] < MaxRetries /\ limited[h] \in Nat /\ limited[h] <= tries[h]
    BY <1>4 DEF AttemptFails, ThreadInv, TypeOK
  <2>2. tries' \in [Threads -> 0..MaxRetries]
    BY <1>4, <2>1, ConfigAssumption DEF AttemptFails, TypeOK
  <2>3. limited' \in [Threads -> 0..MaxRetries]
    <3>1. limited[h] + 1 \in 0..MaxRetries
      BY <2>1, ConfigAssumption
    <3>2. limited \in [Threads -> 0..MaxRetries]
      BY DEF TypeOK
    <3>3. [limited EXCEPT ![h] = @ + 1] \in [Threads -> 0..MaxRetries]
      BY <3>1, <3>2
    <3> QED
      BY <1>4, <3>2, <3>3 DEF AttemptFails
  <2>4. pc' \in [Threads -> {"idle", "lookup", "attempt", "exhausted", "fallback", "put", "hit", "answered", "failed"}]
    BY <1>4 DEF AttemptFails, Goto, AtRetry, TypeOK
  <2> QED
    BY <1>4, <2>2, <2>3, <2>4 DEF AttemptFails, TypeOK, files
<1>5. ASSUME NEW h \in Threads, AttemptTruncated(h) \/ Exhausted(h) \/ FallbackFails(h) PROVE TypeOK'
  <2>1. pc' \in [Threads -> {"idle", "lookup", "attempt", "exhausted", "fallback", "put", "hit", "answered", "failed"}]
    <3>1. CASE AttemptTruncated(h)
      BY <3>1 DEF AttemptTruncated, Goto, TypeOK
    <3>2. CASE Exhausted(h)
      BY <3>2 DEF Exhausted, Goto, TypeOK
    <3>3. CASE FallbackFails(h)
      BY <3>3 DEF FallbackFails, AtFallbackFailure, Goto, TypeOK
    <3> QED
      BY <1>5, <3>1, <3>2, <3>3
  <2>2. UNCHANGED <<answers, files, locals, held, result, budget>>
    BY <1>5 DEF AttemptTruncated, Exhausted, FallbackFails
  <2> QED
    BY <2>1, <2>2 DEF TypeOK, files, locals
<1>6. ASSUME NEW h \in Threads, Put(h) PROVE TypeOK'
  <2>1. cache' \in [Keys -> 0..Len(answers)]
    BY <1>6, KeyType DEF Put, TypeOK
  <2> QED
    BY <1>6, <2>1 DEF Put, Goto, TypeOK, locals
<1>7. ASSUME NEW h \in Threads, Return(h) PROVE TypeOK'
  <2>1. LineOf(h) \in Line
    <3>1. call[h].tier \in Tiers /\ held[h] \in Nat
      BY DEF TypeOK, Calls
    <3>2. (pc[h] = "answered" /\ answers[held[h]].fell) \in BOOLEAN
      OBVIOUS
    <3> QED
      BY <3>1, <3>2 DEF LineOf, Line
  <2>2. lines' \in Seq(Line) /\ torn' \in BOOLEAN
    <3>1. lines \in Seq(Line) /\ Append(lines, LineOf(h)) \in Seq(Line)
      BY <2>1 DEF TypeOK
    <3>2. lines' = IF torn THEN lines ELSE Append(lines, LineOf(h))
      BY <1>7 DEF Return, WriteLine
    <3>3. torn' = FALSE
      BY <1>7 DEF Return, WriteLine
    <3> QED
      BY <3>1, <3>2, <3>3
  <2>3. result' \in [Threads -> [answer : 0..Len(answers), cached : BOOLEAN, fellBack : BOOLEAN]]
    <3>1. NoResult \in [answer : 0..Len(answers), cached : BOOLEAN, fellBack : BOOLEAN]
      BY DEF NoResult, TypeOK
    <3>2. ResultOf(h) \in [answer : 0..Len(answers), cached : BOOLEAN, fellBack : BOOLEAN]
      BY DEF ResultOf, TypeOK
    <3> QED
      BY <1>7, <3>1, <3>2 DEF Return, TypeOK
  <2> QED
    BY <1>7, <2>2, <2>3 DEF Return, Goto, TypeOK, locals
<1>8. ASSUME NEW h \in Threads, Raises(h) PROVE TypeOK'
  <2>1. budget' \in [Bounded -> Nat]
    BY <1>8, SpendType DEF Raises, TypeOK
  <2>2. torn' \in BOOLEAN
    <3>1. torn \in BOOLEAN
      BY DEF TypeOK
    <3> QED
      BY <1>8, <3>1, Zenon DEF Raises
  <2> QED
    BY <1>8, <2>1, <2>2 DEF Raises, Goto, TypeOK, locals
<1>9. CASE Crash
  <2>1. budget' \in [Bounded -> Nat]
    BY <1>9, SpendType DEF Crash, TypeOK
  <2>2. torn' \in BOOLEAN
    BY <1>9 DEF Crash, TypeOK
  <2>3. result' \in [Threads -> [answer : 0..Len(answers), cached : BOOLEAN, fellBack : BOOLEAN]]
    BY <1>9 DEF Crash, NoResult, TypeOK
  <2> QED
    BY <1>9, <2>1, <2>2, <2>3 DEF Crash, TypeOK, locals
<1>10. ASSUME NEW m \in Models, Clear(m) PROVE TypeOK'
  <2>1. budget' \in [Bounded -> Nat]
    BY <1>10, SpendType DEF Clear, TypeOK
  <2>2. cache' \in [Keys -> 0..Len(answers)]
    BY <1>10 DEF Clear, TypeOK
  <2> QED
    BY <1>10, <2>1, <2>2 DEF Clear, TypeOK, locals
<1>11. CASE UNCHANGED vars
  BY <1>11 DEF vars, files, locals, TypeOK
<1> QED
  BY <1>1, <1>2, <1>3, <1>4, <1>5, <1>6, <1>7, <1>8, <1>9, <1>10, <1>11 DEF Next, Complete

(* Only a provider's answer changes the history of answers; it comes from   *)
(* the model of the settings or, at the fallback, from the fallback.        *)
LEMMA AnswerSource ==
  ASSUME TypeOK, NEW h \in Threads, Attempt(h) \/ FallBack(h)
  PROVE  \E m \in Models, f \in BOOLEAN :
           /\ Answered(h, m, f)
           /\ f => pc[h] = "fallback"
           /\ ~f => m = Own(call[h].tier)
<1>1. call[h].tier \in Tiers
  BY DEF TypeOK, Calls
<1>2. CASE Attempt(h)
  BY <1>1, <1>2, ModelType DEF Attempt
<1>3. CASE FallBack(h)
  BY <1>3, ModelType DEF FallBack
<1> QED
  BY <1>2, <1>3

LEMMA OtherSteps ==
  ASSUME [Next]_vars, \A h \in Threads : ~Attempt(h) /\ ~FallBack(h)
  PROVE  UNCHANGED answers
  BY DEF Next, Complete, Begin, Lookup, AttemptFails, AttemptTruncated, Exhausted, FallbackFails,
         Put, Return, Raises, Crash, Clear, vars

(* An answer once given stays what it is. *)
LEMMA Kept ==
  ASSUME TypeOK, [Next]_vars
  PROVE  \A a \in 1..Len(answers) : a \in 1..Len(answers') /\ answers'[a] = answers[a]
<1>1. ASSUME NEW h \in Threads, Attempt(h) \/ FallBack(h)
      PROVE  \A a \in 1..Len(answers) : a \in 1..Len(answers') /\ answers'[a] = answers[a]
  <2>1. PICK m \in Models, f \in BOOLEAN : Answered(h, m, f)
    BY <1>1, AnswerSource
  <2>2. Len(answers) \in Nat
    BY DEF TypeOK
  <2>3. /\ Len(answers') = Len(answers) + 1
        /\ \A a \in 1..Len(answers) : answers'[a] = answers[a]
    BY <2>1, AnsweredType
  <2> QED
    BY <2>2, <2>3
<1>2. CASE \A h \in Threads : ~Attempt(h) /\ ~FallBack(h)
  BY <1>2, OtherSteps
<1> QED
  BY <1>1, <1>2

LEMMA AnswerStep == TypeOK /\ ThreadInv /\ AnswerInv /\ [Next]_vars => AnswerInv'
<1> SUFFICES ASSUME TypeOK, ThreadInv, AnswerInv, [Next]_vars PROVE AnswerInv'
  OBVIOUS
<1>1. ASSUME NEW h \in Threads, Attempt(h) \/ FallBack(h) PROVE AnswerInv'
  <2>1. PICK m \in Models, f \in BOOLEAN :
          /\ Answered(h, m, f)
          /\ f => pc[h] = "fallback"
          /\ ~f => m = Own(call[h].tier)
    BY <1>1, AnswerSource
  <2> DEFINE new == answers'[Len(answers) + 1]
  <2>2. /\ Len(answers') = Len(answers) + 1
        /\ \A a \in 1..Len(answers) : answers'[a] = answers[a]
        /\ new = [setting |-> SettingOf[call[h].tier], request |-> call[h].request,
                  model |-> m, fell |-> f, by |-> h, cached |-> call[h].cached]
    BY <2>1, AnsweredType
  <2>3. /\ ~new.fell => new.model = ModelOf[new.setting]
        /\ new.fell => \E t \in Substitutable : new.setting = SettingOf[t]
    <3>1. new.fell = f /\ new.model = m /\ new.setting = SettingOf[call[h].tier]
      BY <2>2
    <3>2. f => call[h].tier \in Substitutable
      BY <2>1 DEF ThreadInv
    <3> QED
      BY <2>1, <3>1, <3>2 DEF Own
  <2>4. ASSUME NEW a \in 1..Len(answers')
        PROVE  /\ ~answers'[a].fell => answers'[a].model = ModelOf[answers'[a].setting]
               /\ answers'[a].fell => \E t \in Substitutable : answers'[a].setting = SettingOf[t]
    <3>1. a \in 1..Len(answers) \/ a = Len(answers) + 1
      BY <2>2 DEF TypeOK
    <3>2. CASE a \in 1..Len(answers)
      BY <2>2, <3>2 DEF AnswerInv
    <3>3. CASE a = Len(answers) + 1
      BY <2>3, <3>3
    <3> QED
      BY <3>1, <3>2, <3>3
  <2> QED
    BY <2>4 DEF AnswerInv
<1>2. CASE \A h \in Threads : ~Attempt(h) /\ ~FallBack(h)
  BY <1>2, OtherSteps DEF AnswerInv
<1> QED
  BY <1>1, <1>2

(* Who changes the cache: Put stores an answer under its key, Clear only    *)
(* removes.                                                                *)
LEMMA CacheStep == TypeOK /\ ThreadInv /\ CacheInv /\ [Next]_vars => CacheInv'
<1> SUFFICES ASSUME TypeOK, ThreadInv, CacheInv, [Next]_vars,
                    NEW k \in Keys, cache'[k] # 0
             PROVE  answers'[cache'[k]].setting = k.setting /\ answers'[cache'[k]].request = k.request
  BY DEF CacheInv
<1>1. ASSUME cache'[k] = cache[k]
      PROVE  answers'[cache'[k]].setting = k.setting /\ answers'[cache'[k]].request = k.request
  <2>1. cache[k] \in 1..Len(answers)
    BY <1>1 DEF TypeOK
  <2> QED
    BY <1>1, <2>1, Kept DEF CacheInv
<1>2. ASSUME NEW h \in Threads, Put(h)
      PROVE  answers'[cache'[k]].setting = k.setting /\ answers'[cache'[k]].request = k.request
  <2>1. CASE k = KeyOf(call[h])
    <3>1. cache'[k] = held[h] /\ answers' = answers
      BY <1>2, <2>1 DEF Put, TypeOK
    <3>2. Matches(held[h], call[h])
      BY <1>2 DEF Put, ThreadInv
    <3> QED
      BY <2>1, <3>1, <3>2 DEF Matches, KeyOf
  <2>2. CASE k # KeyOf(call[h])
    BY <1>1, <1>2, <2>2 DEF Put, TypeOK
  <2> QED
    BY <2>1, <2>2
<1>3. ASSUME NEW m \in Models, Clear(m)
      PROVE  answers'[cache'[k]].setting = k.setting /\ answers'[cache'[k]].request = k.request
  BY <1>1, <1>3 DEF Clear
<1>4. CASE UNCHANGED cache
  BY <1>1, <1>4
<1>5. (\E h \in Threads : Put(h)) \/ (\E m \in Models : Clear(m)) \/ UNCHANGED cache
  BY DEF Next, Complete, Begin, Lookup, Attempt, AttemptFails, AttemptTruncated, Exhausted,
         FallBack, FallbackFails, Return, Raises, Crash, vars, files
<1> QED
  BY <1>2, <1>3, <1>4, <1>5

(* What an answer was given to does not change, nor does a call in progress. *)
LEMMA StillMatches ==
  ASSUME TypeOK, [Next]_vars, NEW a \in 1..Len(answers), NEW c, Matches(a, c)
  PROVE  answers'[a].setting = SettingOf[c.tier] /\ answers'[a].request = c.request
  BY Kept DEF Matches

(* A thread not named by the step keeps its place, or is thrown out by a    *)
(* crash; what it holds stays.                                             *)
LEMMA Others ==
  ASSUME TypeOK, NEW g \in Threads, NEW h \in Threads, g # h, Begin(h) \/ Complete(h) \/ Raises(h)
  PROVE  /\ pc'[g] = pc[g] /\ call'[g] = call[g] /\ held'[g] = held[g]
         /\ tries'[g] = tries[g] /\ limited'[g] = limited[g] /\ result'[g] = result[g]
<1>1. CASE Begin(h)
  BY <1>1 DEF Begin, Goto, TypeOK
<1>2. CASE Lookup(h)
  BY <1>2 DEF Lookup, Goto, locals, TypeOK
<1>3. CASE Attempt(h)
  BY <1>3 DEF Attempt, Answered, Goto, locals, TypeOK
<1>4. CASE AttemptFails(h)
  BY <1>4 DEF AttemptFails, Goto, locals, TypeOK
<1>5. CASE AttemptTruncated(h)
  BY <1>5 DEF AttemptTruncated, Goto, locals, TypeOK
<1>6. CASE Exhausted(h)
  BY <1>6 DEF Exhausted, Goto, locals, TypeOK
<1>7. CASE FallBack(h)
  BY <1>7 DEF FallBack, Answered, Goto, locals, TypeOK
<1>8. CASE FallbackFails(h)
  BY <1>8 DEF FallbackFails, Goto, locals, TypeOK
<1>9. CASE Put(h)
  BY <1>9 DEF Put, Goto, locals, TypeOK
<1>10. CASE Return(h)
  BY <1>10 DEF Return, Goto, locals, TypeOK
<1>11. CASE Raises(h)
  BY <1>11 DEF Raises, Goto, locals, TypeOK
<1> QED
  BY <1>1, <1>2, <1>3, <1>4, <1>5, <1>6, <1>7, <1>8, <1>9, <1>10, <1>11 DEF Complete

(* ThreadInv, for one thread. *)
Carrying(h) == pc[h] \in {"hit", "put", "answered"} => held[h] # 0 /\ Matches(held[h], call[h])
InLoop(h) ==
  /\ pc[h] = "fallback" => call[h].tier \in Substitutable
  /\ pc[h] \in {"lookup", "attempt"} => tries[h] < MaxRetries
  /\ limited[h] <= tries[h]

LEMMA CarryingStep ==
  ASSUME TypeOK, CacheInv, [Next]_vars, NEW g \in Threads, Carrying(g)
  PROVE  Carrying(g)'
<1> DEFINE Goal == pc'[g] \in {"hit", "put", "answered"} =>
                     /\ held'[g] # 0
                     /\ answers'[held'[g]].setting = SettingOf[call'[g].tier]
                     /\ answers'[held'[g]].request = call'[g].request
<1>0. SUFFICES Goal
  BY DEF Carrying, Matches
<1>1. ASSUME pc'[g] \in {"hit", "put", "answered"} => pc[g] \in {"hit", "put", "answered"},
             UNCHANGED <<held[g], call[g]>>
      PROVE  Goal
  <2> SUFFICES ASSUME pc'[g] \in {"hit", "put", "answered"} PROVE Goal
    OBVIOUS
  <2>1. held[g] # 0 /\ Matches(held[g], call[g])
    BY <1>1 DEF Carrying
  <2>2. held[g] \in 1..Len(answers)
    BY <2>1 DEF TypeOK
  <2> QED
    BY <1>1, <2>1, <2>2, StillMatches
<1>2. ASSUME NEW h \in Threads, Begin(h) \/ Complete(h) \/ Raises(h), h # g PROVE Goal
  BY <1>1, <1>2, Others
<1>3. CASE Begin(g)
  BY <1>3 DEF Begin, Goto, TypeOK
<1>4. CASE Lookup(g)
  <2>1. call' = call /\ answers' = answers /\ held'[g] = cache[KeyOf(call[g])]
    BY <1>4 DEF Lookup, locals, TypeOK
  <2>2. pc'[g] \in {"hit", "put", "answered"} => held'[g] # 0
    BY <1>4, <2>1 DEF Lookup, Goto, TypeOK
  <2>3. KeyOf(call[g]) \in Keys
    BY KeyType DEF TypeOK
  <2> QED
    BY <2>1, <2>2, <2>3 DEF CacheInv, KeyOf
<1>5. CASE Attempt(g) \/ FallBack(g)
  <2>1. PICK m \in Models, f \in BOOLEAN : Answered(g, m, f)
    BY <1>5, AnswerSource
  <2>2. held'[g] = Len(answers) + 1 /\ call' = call
    BY <1>5, <2>1 DEF Answered, Attempt, FallBack, locals, TypeOK
  <2>3. answers'[Len(answers) + 1] =
          [setting |-> SettingOf[call[g].tier], request |-> call[g].request,
           model |-> m, fell |-> f, by |-> g, cached |-> call[g].cached]
    BY <2>1, AnsweredType
  <2>4. Len(answers) + 1 # 0
    BY DEF TypeOK
  <2> QED
    BY <2>2, <2>3, <2>4
<1>6. CASE AttemptFails(g) \/ AttemptTruncated(g) \/ Exhausted(g) \/ FallbackFails(g)
  BY <1>6 DEF AttemptFails, AttemptTruncated, Exhausted, FallbackFails, Goto, AtRetry,
              AtFallbackFailure, TypeOK
<1>7. CASE Put(g)
  BY <1>1, <1>7 DEF Put, Goto, locals, TypeOK
<1>8. CASE Return(g) \/ Raises(g)
  BY <1>8 DEF Return, Raises, Goto, TypeOK
<1>9. CASE Crash
  BY <1>9 DEF Crash
<1>10. ASSUME NEW m \in Models, Clear(m) PROVE Goal
  BY <1>1, <1>10 DEF Clear, locals
<1>11. CASE UNCHANGED vars
  BY <1>1, <1>11 DEF vars, locals
<1> QED
  BY <1>2, <1>3, <1>4, <1>5, <1>6, <1>7, <1>8, <1>9, <1>10, <1>11 DEF Next, Complete

LEMMA InLoopStep ==
  ASSUME TypeOK, [Next]_vars, NEW g \in Threads, InLoop(g)
  PROVE  InLoop(g)'
<1> USE ConfigAssumption
<1> DEFINE Goal == /\ pc'[g] = "fallback" => call'[g].tier \in Substitutable
                   /\ pc'[g] \in {"lookup", "attempt"} => tries'[g] < MaxRetries
                   /\ limited'[g] <= tries'[g]
<1>0. SUFFICES Goal
  BY DEF InLoop
<1>1. ASSUME pc'[g] \in {pc[g], "idle", "failed", "put", "hit", "answered"},
             UNCHANGED <<call[g], tries[g], limited[g]>>
      PROVE  Goal
  BY <1>1 DEF InLoop
<1>2. ASSUME NEW h \in Threads, Begin(h) \/ Complete(h) \/ Raises(h), h # g PROVE Goal
  BY <1>1, <1>2, Others
<1>3. CASE Begin(g)
  <2>1. pc'[g] \in {"lookup", "attempt"} /\ tries'[g] = 0 /\ limited'[g] = 0
    BY <1>3 DEF Begin, Goto, TypeOK
  <2> QED
    BY <2>1
<1>4. CASE Lookup(g)
  <2>1. pc[g] = "lookup" /\ pc'[g] \in {"hit", "attempt"}
    BY <1>4 DEF Lookup, Goto, AtHit, TypeOK
  <2>2. UNCHANGED <<call[g], tries[g], limited[g]>>
    BY <1>4 DEF Lookup, locals
  <2> QED
    BY <2>1, <2>2 DEF InLoop
<1>5. CASE Attempt(g) \/ FallBack(g)
  <2>1. pc'[g] \in {"put", "answered"} /\ UNCHANGED <<call[g], tries[g], limited[g]>>
    BY <1>5 DEF Attempt, FallBack, Answered, AtAnswer, Goto, locals, TypeOK
  <2> QED
    BY <1>1, <2>1
<1>6. CASE AttemptFails(g)
  <2>1. tries[g] \in Nat /\ limited[g] \in Nat /\ tries[g] < MaxRetries /\ limited[g] <= tries[g]
    BY <1>6 DEF AttemptFails, InLoop, TypeOK
  <2>2. /\ tries'[g] = tries[g] + 1
        /\ limited'[g] \in {limited[g], limited[g] + 1}
    BY <1>6 DEF AttemptFails, TypeOK
  <2>3. pc'[g] = IF tries[g] + 1 = MaxRetries THEN "exhausted" ELSE "attempt"
    BY <1>6 DEF AttemptFails, Goto, AtRetry, TypeOK
  <2> QED
    BY <2>1, <2>2, <2>3
<1>7. CASE Exhausted(g)
  <2>1. /\ pc'[g] = IF MayFallBack(g) THEN "fallback" ELSE "failed"
        /\ UNCHANGED <<call[g], tries[g], limited[g]>>
    BY <1>7 DEF Exhausted, Goto, locals, TypeOK
  <2> QED
    BY <2>1 DEF MayFallBack, InLoop
<1>8. CASE AttemptTruncated(g) \/ FallbackFails(g) \/ Put(g) \/ Return(g) \/ Raises(g)
  <2>1. pc'[g] \in {"failed", "answered", "idle"}
    BY <1>8 DEF AttemptTruncated, FallbackFails, AtFallbackFailure, Put, Return, Raises, Goto, TypeOK
  <2>2. UNCHANGED <<call[g], tries[g], limited[g]>>
    BY <1>8 DEF AttemptTruncated, FallbackFails, Put, Return, Raises, locals
  <2> QED
    BY <1>1, <2>1, <2>2
<1>9. CASE Crash
  BY <1>1, <1>9 DEF Crash, locals
<1>10. ASSUME NEW m \in Models, Clear(m) PROVE Goal
  BY <1>1, <1>10 DEF Clear, locals
<1>11. CASE UNCHANGED vars
  BY <1>1, <1>11 DEF vars, locals
<1> QED
  BY <1>2, <1>3, <1>4, <1>5, <1>6, <1>7, <1>8, <1>9, <1>10, <1>11 DEF Next, Complete

LEMMA ThreadStep == TypeOK /\ CacheInv /\ ThreadInv /\ [Next]_vars => ThreadInv'
<1> SUFFICES ASSUME TypeOK, CacheInv, ThreadInv, [Next]_vars, NEW g \in Threads
             PROVE  Carrying(g)' /\ InLoop(g)'
  BY DEF ThreadInv, Carrying, InLoop
<1>1. Carrying(g) /\ InLoop(g)
  BY DEF ThreadInv, Carrying, InLoop
<1> QED
  BY <1>1, CarryingStep, InLoopStep

(* What a call returned answers it, as long as the thread makes no other. *)
LEMMA ResultStep == TypeOK /\ ThreadInv /\ ResultInv /\ [Next]_vars => ResultInv'
<1> SUFFICES ASSUME TypeOK, ThreadInv, ResultInv, [Next]_vars, NEW g \in Threads, result'[g].answer # 0
             PROVE  /\ answers'[result'[g].answer].setting = SettingOf[call'[g].tier]
                    /\ answers'[result'[g].answer].request = call'[g].request
  BY DEF ResultInv, Matches
<1> DEFINE Goal == /\ answers'[result'[g].answer].setting = SettingOf[call'[g].tier]
                   /\ answers'[result'[g].answer].request = call'[g].request
<1>1. ASSUME UNCHANGED <<result[g], call[g]>> PROVE Goal
  <2>1. result[g].answer \in 1..Len(answers) /\ Matches(result[g].answer, call[g])
    BY <1>1 DEF ResultInv, TypeOK
  <2> QED
    BY <1>1, <2>1, StillMatches
<1>2. ASSUME NEW h \in Threads, Begin(h) \/ Complete(h) \/ Raises(h), h # g PROVE Goal
  BY <1>1, <1>2, Others
<1>3. CASE Begin(g)
  <2>1. result'[g] = NoResult
    BY <1>3 DEF Begin, TypeOK
  <2> QED
    BY <2>1 DEF NoResult
<1>4. CASE Return(g)
  <2>1. result'[g] = IF pc[g] = "failed" THEN NoResult ELSE ResultOf(g)
    BY <1>4 DEF Return, TypeOK
  <2>2. result'[g].answer = held[g] /\ pc[g] \in {"hit", "answered"}
    BY <1>4, <2>1 DEF NoResult, ResultOf, Return
  <2>3. Matches(held[g], call[g]) /\ UNCHANGED <<answers, call>>
    BY <1>4, <2>2 DEF ThreadInv, Return, locals
  <2> QED
    BY <2>2, <2>3 DEF Matches
<1>5. CASE Lookup(g) \/ Attempt(g) \/ AttemptFails(g) \/ AttemptTruncated(g) \/ Exhausted(g)
           \/ FallBack(g) \/ FallbackFails(g) \/ Put(g) \/ Raises(g)
  BY <1>1, <1>5 DEF Lookup, Attempt, AttemptFails, AttemptTruncated, Exhausted, FallBack,
                    FallbackFails, Put, Raises, locals
<1>6. CASE Crash
  BY <1>6 DEF Crash, NoResult
<1>7. ASSUME NEW m \in Models, Clear(m) PROVE Goal
  BY <1>1, <1>7 DEF Clear, locals
<1>8. CASE UNCHANGED vars
  BY <1>1, <1>8 DEF vars, locals
<1> QED
  BY <1>2, <1>3, <1>4, <1>5, <1>6, <1>7, <1>8 DEF Next, Complete

LEMMA BudgetStep ==
  ASSUME TypeOK, BudgetInv, [Next]_vars
  PROVE  /\ BudgetInv'
         /\ \A b \in Bounded : budget'[b] <= budget[b]
<1>1. ASSUME NEW b \in Bounded, Spend(b)
      PROVE  \A c \in Bounded : budget'[c] <= budget[c]
  BY <1>1 DEF Spend, TypeOK
<1>2. (\E b \in Bounded : Spend(b)) \/ UNCHANGED budget
  BY DEF Next, Complete, Begin, Lookup, Attempt, AttemptFails, AttemptTruncated, Exhausted,
         FallBack, FallbackFails, Put, Return, Raises, Crash, Clear, vars
<1>3. \A b \in Bounded : budget'[b] <= budget[b]
  <2>1. CASE UNCHANGED budget
    BY <2>1 DEF TypeOK
  <2> QED
    BY <1>1, <1>2, <2>1
<1>4. BudgetInv'
  <2>1. budget' \in [Bounded -> Nat]
    BY <1>2, SpendType DEF TypeOK
  <2> QED
    BY <1>3, <2>1, BudgetAssumption DEF BudgetInv, TypeOK
<1> QED
  BY <1>3, <1>4

(* Busy follows pc. *)
LEMMA BusyFinite == IsFiniteSet(Busy) /\ Cardinality(Busy) \in Nat
<1>1. IsFiniteSet(Busy)
  BY ThreadAssumption, FS_Subset DEF Busy
<1> QED
  BY <1>1, FS_CardinalityType

LEMMA LogStep == TypeOK /\ BudgetInv /\ LogInv /\ [Next]_vars => LogInv'
<1> SUFFICES ASSUME TypeOK, BudgetInv, LogInv, [Next]_vars, Untouched("fail")', Untouched("crash")'
             PROVE  ~torn' /\ Len(lines') + Cardinality(Busy') = Budget["call"] - budget'["call"]
  BY DEF LogInv, Untouched
<1> DEFINE Goal == ~torn' /\ Len(lines') + Cardinality(Busy') = Budget["call"] - budget'["call"]
<1>1. /\ budget["fail"] \in Nat /\ budget["crash"] \in Nat /\ budget["call"] \in Nat
      /\ Budget["fail"] \in Nat /\ Budget["crash"] \in Nat /\ Budget["call"] \in Nat
      /\ budget["fail"] <= Budget["fail"] /\ budget["crash"] <= Budget["crash"]
      /\ budget'["fail"] = Budget["fail"] /\ budget'["crash"] = Budget["crash"]
  BY BudgetAssumption DEF TypeOK, BudgetInv, Untouched
<1>2. budget'["fail"] <= budget["fail"] /\ budget'["crash"] <= budget["crash"]
  BY BudgetStep
<1>3. budget["fail"] = Budget["fail"] /\ budget["crash"] = Budget["crash"]
  BY <1>1, <1>2
<1>4. ~torn /\ Len(lines) + Cardinality(Busy) = Budget["call"] - budget["call"]
  BY <1>3 DEF LogInv, Untouched
<1>5. Len(lines) \in Nat
  BY DEF TypeOK
<1>6. ASSUME UNCHANGED <<lines, torn>>, Busy' = Busy, budget'["call"] = budget["call"] PROVE Goal
  BY <1>4, <1>6
<1>7. ASSUME NEW h \in Threads, Begin(h) PROVE Goal
  <2>1. UNCHANGED <<lines, torn>> /\ budget'["call"] = budget["call"] - 1
    BY <1>7 DEF Begin, Spend, files, TypeOK
  <2>2. Busy' = Busy \cup {h} /\ h \notin Busy
    BY <1>7 DEF Begin, Goto, Busy, TypeOK
  <2>3. Cardinality(Busy') = Cardinality(Busy) + 1
    BY <2>2, BusyFinite, FS_AddElement
  <2>4. ~torn' /\ Len(lines') = Len(lines)
    BY <1>4, <2>1
  <2>5. Cardinality(Busy) \in Nat
    BY BusyFinite
  <2>6. Len(lines) + (Cardinality(Busy) + 1) = Budget["call"] - (budget["call"] - 1)
    <3> DEFINE n == Len(lines)  k == Cardinality(Busy)  B == Budget["call"]  b == budget["call"]
    <3>1. n \in Nat /\ k \in Nat /\ B \in Nat /\ b \in Nat /\ n + k = B - b
      BY <1>1, <1>4, <1>5, <2>5
    <3> HIDE DEF n, k, B, b
    <3>2. n + (k + 1) = B - (b - 1)
      BY <3>1
    <3> QED
      BY <3>2 DEF n, k, B, b
  <2>7. Len(lines') + Cardinality(Busy') = Budget["call"] - budget'["call"]
    BY <2>1, <2>3, <2>4, <2>6
  <2> QED
    BY <2>4, <2>7
<1>8. ASSUME NEW h \in Threads, Return(h) PROVE Goal
  <2>1. ~torn' /\ lines' = Append(lines, LineOf(h)) /\ budget' = budget
    BY <1>4, <1>8 DEF Return, WriteLine
  <2>2. Busy' = Busy \ {h} /\ h \in Busy
    BY <1>8 DEF Return, Goto, Busy, TypeOK
  <2>3. Cardinality(Busy') = Cardinality(Busy) - 1
    BY <2>2, BusyFinite, FS_RemoveElement
  <2>4. Len(lines') = Len(lines) + 1
    BY <2>1 DEF TypeOK
  <2>5. Cardinality(Busy) \in Nat
    BY BusyFinite
  <2>6. (Len(lines) + 1) + (Cardinality(Busy) - 1) = Budget["call"] - budget["call"]
    BY <1>1, <1>4, <1>5, <2>5
  <2>7. Len(lines') + Cardinality(Busy') = Budget["call"] - budget'["call"]
    BY <2>1, <2>3, <2>4, <2>6
  <2> QED
    BY <2>1, <2>7
<1>9. ASSUME NEW h \in Threads,
             Lookup(h) \/ Attempt(h) \/ AttemptFails(h) \/ AttemptTruncated(h) \/ Exhausted(h)
             \/ FallBack(h) \/ FallbackFails(h) \/ Put(h)
      PROVE  Goal
  <2>1. UNCHANGED <<lines, torn, budget>>
    BY <1>9 DEF Lookup, Attempt, AttemptFails, AttemptTruncated, Exhausted, FallBack,
                FallbackFails, Put, files
  <2>2. pc[h] # "idle" /\ \E l : l # "idle" /\ Goto(h, l)
    <3>1. CASE Lookup(h)
      BY <3>1 DEF Lookup, AtHit
    <3>2. CASE Attempt(h) \/ FallBack(h)
      BY <3>2 DEF Attempt, FallBack, Answered, AtAnswer
    <3>3. CASE AttemptFails(h) \/ AttemptTruncated(h) \/ Exhausted(h) \/ FallbackFails(h) \/ Put(h)
      BY <3>3 DEF AttemptFails, AttemptTruncated, Exhausted, FallbackFails, Put, AtRetry,
                  AtFallbackFailure
    <3> QED
      BY <1>9, <3>1, <3>2, <3>3
  <2>3. Busy' = Busy
    BY <2>2 DEF Goto, Busy, TypeOK
  <2> QED
    BY <1>6, <2>1, <2>3
<1>10. ASSUME NEW h \in Threads, Raises(h) PROVE Goal
  BY <1>1, <1>3, <1>10 DEF Raises, Spend, TypeOK
<1>11. CASE Crash
  BY <1>1, <1>3, <1>11 DEF Crash, Spend, TypeOK
<1>12. ASSUME NEW m \in Models, Clear(m) PROVE Goal
  BY <1>6, <1>12 DEF Clear, Spend, Busy, TypeOK
<1>13. CASE UNCHANGED vars
  BY <1>6, <1>13 DEF vars, files, Busy
<1> QED
  BY <1>7, <1>8, <1>9, <1>10, <1>11, <1>12, <1>13 DEF Next, Complete

(* What is unspent after a step was unspent before it, and the step did not *)
(* spend it.                                                                *)
LEMMA UnspentBefore ==
  ASSUME TypeOK, BudgetInv, [Next]_vars, NEW b \in Bounded, Untouched(b)'
  PROVE  Untouched(b) /\ ~Spend(b)
<1>1. budget[b] \in Nat /\ Budget[b] \in Nat /\ budget[b] <= Budget[b] /\ budget'[b] = Budget[b]
  BY BudgetAssumption DEF TypeOK, BudgetInv, Untouched
<1>2. budget'[b] <= budget[b]
  BY BudgetStep
<1>3. budget[b] = Budget[b]
  BY <1>1, <1>2
<1>4. ASSUME Spend(b) PROVE FALSE
  <2>1. budget'[b] = budget[b] - 1
    BY <1>4 DEF Spend, TypeOK
  <2> QED
    BY <1>1, <1>3, <2>1
<1> QED
  BY <1>3, <1>4 DEF Untouched

(* The new number after an answer, and the thread that holds it. *)
LEMMA NewAnswer ==
  ASSUME TypeOK, NEW h \in Threads, Attempt(h) \/ FallBack(h)
  PROVE  /\ Len(answers) \in Nat
         /\ Len(answers') = Len(answers) + 1
         /\ \A a \in 1..Len(answers') : a \in 1..Len(answers) \/ a = Len(answers) + 1
         /\ \A a \in 1..Len(answers) : answers'[a] = answers[a]
         /\ answers'[Len(answers) + 1].by = h
         /\ answers'[Len(answers) + 1].cached = call[h].cached
         /\ answers'[Len(answers) + 1].setting = SettingOf[call[h].tier]
         /\ answers'[Len(answers) + 1].request = call[h].request
         /\ held'[h] = Len(answers) + 1
         /\ pc'[h] = IF call[h].cached THEN "put" ELSE "answered"
         /\ pc[h] \in {"attempt", "fallback"}
         /\ UNCHANGED <<files, call>>
<1>1. PICK m \in Models, f \in BOOLEAN : Answered(h, m, f)
  BY AnswerSource
<1>2. /\ Len(answers') = Len(answers) + 1
      /\ \A a \in 1..Len(answers) : answers'[a] = answers[a]
      /\ answers'[Len(answers) + 1] =
           [setting |-> SettingOf[call[h].tier], request |-> call[h].request,
            model |-> m, fell |-> f, by |-> h, cached |-> call[h].cached]
  BY <1>1, AnsweredType
<1>3. held'[h] = Len(answers) + 1 /\ pc'[h] = IF call[h].cached THEN "put" ELSE "answered"
  BY <1>1 DEF Answered, Goto, AtAnswer, TypeOK
<1>4. pc[h] \in {"attempt", "fallback"} /\ UNCHANGED <<files, call>>
  BY DEF Attempt, FallBack, locals
<1>5. Len(answers) \in Nat
  BY DEF TypeOK
<1> QED
  BY <1>2, <1>3, <1>4, <1>5

(* A substitution that is on record stays there: the thread that holds it   *)
(* keeps it until its line is written, and a line stays.                    *)
LEMMA RecordStep ==
  TypeOK /\ ThreadInv /\ BudgetInv /\ LogInv /\ SubstitutionsOnRecord /\ [Next]_vars
    => SubstitutionsOnRecord'
<1> SUFFICES ASSUME TypeOK, ThreadInv, BudgetInv, LogInv, SubstitutionsOnRecord, [Next]_vars,
                    Untouched("fail")', Untouched("crash")',
                    NEW a \in 1..Len(answers'), answers'[a].fell
             PROVE  \/ \E h \in Threads : held'[h] = a /\ pc'[h] \in {"put", "answered"}
                    \/ \E i \in 1..Len(lines') : lines'[i].answer = a /\ lines'[i].fellBack
  BY DEF SubstitutionsOnRecord, Untouched
<1> DEFINE Goal == \/ \E h \in Threads : held'[h] = a /\ pc'[h] \in {"put", "answered"}
                   \/ \E i \in 1..Len(lines') : lines'[i].answer = a /\ lines'[i].fellBack
<1>1. Untouched("fail") /\ Untouched("crash") /\ ~Spend("fail") /\ ~Spend("crash")
  BY UnspentBefore
<1>2. ~torn
  BY <1>1 DEF LogInv
<1>3. ASSUME NEW h \in Threads, Attempt(h) \/ FallBack(h), a = Len(answers) + 1 PROVE Goal
  BY <1>3, NewAnswer
<1>4. a \in 1..Len(answers) \/ \E h \in Threads : (Attempt(h) \/ FallBack(h)) /\ a = Len(answers) + 1
  <2>1. CASE \E h \in Threads : Attempt(h) \/ FallBack(h)
    BY <2>1, NewAnswer
  <2>2. CASE \A h \in Threads : ~Attempt(h) /\ ~FallBack(h)
    BY <2>2, OtherSteps
  <2> QED
    BY <2>1, <2>2
<1>5. ASSUME a \in 1..Len(answers) PROVE Goal
  <2>1. answers[a].fell
    BY <1>5, Kept
  <2>2. ASSUME NEW i \in 1..Len(lines), lines[i].answer = a, lines[i].fellBack PROVE Goal
    <3>1. i \in 1..Len(lines') /\ lines'[i] = lines[i]
      <4>1. CASE \E h \in Threads : Return(h)
        <5>1. PICK h \in Threads : lines' = Append(lines, LineOf(h))
          BY <1>2, <4>1 DEF Return, WriteLine
        <5> QED
          BY <5>1 DEF TypeOK
      <4>2. CASE UNCHANGED lines
        BY <4>2
      <4>3. (\E h \in Threads : Return(h)) \/ UNCHANGED lines
        BY DEF Next, Complete, Begin, Lookup, Attempt, AttemptFails, AttemptTruncated, Exhausted,
               FallBack, FallbackFails, Put, Raises, Crash, Clear, vars, files
      <4> QED
        BY <4>1, <4>2, <4>3
    <3> QED
      BY <2>2, <3>1
  <2>3. ASSUME NEW g \in Threads, held[g] = a, pc[g] \in {"put", "answered"} PROVE Goal
    <3>1. ASSUME UNCHANGED <<held[g], pc[g]>> PROVE Goal
      BY <2>3, <3>1
    <3>2. ASSUME NEW h \in Threads, h # g, Begin(h) \/ Complete(h) \/ Raises(h) PROVE Goal
      BY <3>1, <3>2, Others
    <3>3. CASE Put(g)
      BY <2>3, <3>3 DEF Put, Goto, TypeOK
    <3>4. CASE Return(g)
      <4>1. lines' = Append(lines, LineOf(g)) /\ pc[g] = "answered"
        BY <1>2, <2>3, <3>4 DEF Return, WriteLine
      <4>2. LineOf(g).answer = a /\ LineOf(g).fellBack
        BY <2>1, <2>3, <4>1 DEF LineOf
      <4>3. Len(lines) + 1 \in 1..Len(lines') /\ lines'[Len(lines) + 1] = LineOf(g)
        BY <4>1 DEF TypeOK
      <4> QED
        BY <4>2, <4>3
    <3>5. CASE \E m \in Models : Clear(m)
      BY <3>1, <3>5 DEF Clear
    <3>6. CASE UNCHANGED vars
      BY <3>1, <3>6 DEF vars
    <3>7. ~Begin(g) /\ ~Lookup(g) /\ ~Attempt(g) /\ ~AttemptFails(g) /\ ~AttemptTruncated(g)
          /\ ~Exhausted(g) /\ ~FallBack(g) /\ ~FallbackFails(g)
      BY <2>3 DEF Begin, Lookup, Attempt, AttemptFails, AttemptTruncated, Exhausted, FallBack,
                  FallbackFails
    <3>8. ~Raises(g) /\ ~Crash
      BY <1>1 DEF Raises, Crash
    <3> QED
      BY <3>2, <3>3, <3>4, <3>5, <3>6, <3>7, <3>8 DEF Next, Complete
  <2> QED
    BY <1>1, <1>5, <2>1, <2>2, <2>3 DEF SubstitutionsOnRecord
<1> QED
  BY <1>3, <1>4, <1>5

(* The two halves of MissInv, for one answer and for one thread. *)
Stored(a) ==
  \/ cache[[setting |-> answers[a].setting, request |-> answers[a].request]] # 0
  \/ pc[answers[a].by] = "put" /\ held[answers[a].by] = a
Unpaid(h) ==
  pc[h] \in {"attempt", "exhausted", "fallback"} /\ call[h].cached =>
    \A a \in 1..Len(answers) : ~PaidBy(a, h, call[h])

LEMMA MissParts ==
  MissInv <=> (Untouched("fail") /\ Untouched("crash") /\ Untouched("clear") =>
                 /\ \A a \in 1..Len(answers) : answers[a].cached => Stored(a)
                 /\ \A h \in Threads : Unpaid(h))
  BY DEF MissInv, Stored, Unpaid

(* What is in the cache stays until somebody clears it, and what waits to   *)
(* be stored is stored.                                                     *)
LEMMA StoredStep ==
  ASSUME TypeOK, ThreadInv, [Next]_vars, ~Spend("fail"), ~Spend("crash"), ~Spend("clear"),
         NEW a \in 1..Len(answers), Stored(a)
  PROVE  Stored(a)'
<1> DEFINE k == [setting |-> answers[a].setting, request |-> answers[a].request]
           g == answers[a].by
<1>1. answers'[a] = answers[a] /\ g \in Threads /\ k \in Keys
  <2>1. answers'[a] = answers[a]
    BY Kept
  <2>2. answers[a] \in Answer
    BY DEF TypeOK
  <2> QED
    BY <2>1, <2>2 DEF Answer, Keys
<1>2. SUFFICES cache'[k] # 0 \/ (pc'[g] = "put" /\ held'[g] = a)
  BY <1>1 DEF Stored
<1>3. ASSUME cache[k] # 0 PROVE cache'[k] # 0
  <2>1. ASSUME NEW h \in Threads, Put(h) PROVE cache'[k] # 0
    <3>1. held[h] # 0
      BY <2>1 DEF Put, ThreadInv
    <3> QED
      BY <1>1, <1>3, <2>1, <3>1 DEF Put, TypeOK
  <2>2. (\E h \in Threads : Put(h)) \/ UNCHANGED cache
    BY DEF Next, Complete, Begin, Lookup, Attempt, AttemptFails, AttemptTruncated, Exhausted,
           FallBack, FallbackFails, Return, Raises, Crash, Clear, vars, files
  <2> QED
    BY <1>3, <2>1, <2>2
<1>4. ASSUME pc[g] = "put", held[g] = a PROVE cache'[k] # 0 \/ (pc'[g] = "put" /\ held'[g] = a)
  <2>1. ASSUME NEW h \in Threads, h # g, Begin(h) \/ Complete(h) \/ Raises(h)
        PROVE  pc'[g] = "put" /\ held'[g] = a
    BY <1>1, <1>4, <2>1, Others
  <2>2. CASE Put(g)
    <3>1. Matches(a, call[g]) /\ a # 0
      BY <1>1, <1>4 DEF ThreadInv
    <3>2. KeyOf(call[g]) = k
      BY <3>1 DEF KeyOf, Matches
    <3> QED
      BY <1>1, <1>4, <2>2, <3>1, <3>2 DEF Put, TypeOK
  <2>3. CASE UNCHANGED vars
    BY <1>4, <2>3 DEF vars
  <2>4. ~Begin(g) /\ ~Lookup(g) /\ ~Attempt(g) /\ ~AttemptFails(g) /\ ~AttemptTruncated(g)
        /\ ~Exhausted(g) /\ ~FallBack(g) /\ ~FallbackFails(g) /\ ~Return(g)
    BY <1>4 DEF Begin, Lookup, Attempt, AttemptFails, AttemptTruncated, Exhausted, FallBack,
                FallbackFails, Return
  <2>5. ~Raises(g) /\ ~Crash /\ \A m \in Models : ~Clear(m)
    BY DEF Raises, Crash, Clear
  <2> QED
    BY <1>1, <2>1, <2>2, <2>3, <2>4, <2>5 DEF Next, Complete
<1> QED
  BY <1>3, <1>4 DEF Stored

(* A thread is past its lookup only after a miss: nothing of its own was in *)
(* the cache, and nothing of its own is added before its next answer.       *)
LEMMA UnpaidStep ==
  ASSUME TypeOK, [Next]_vars, ~Spend("crash"), NEW g \in Threads, Unpaid(g),
         \A a \in 1..Len(answers) : answers[a].cached => Stored(a)
  PROVE  Unpaid(g)'
<1> SUFFICES ASSUME pc'[g] \in {"attempt", "exhausted", "fallback"}, call'[g].cached,
                    NEW a \in 1..Len(answers'),
                    answers'[a].by = g, answers'[a].cached,
                    answers'[a].setting = SettingOf[call'[g].tier],
                    answers'[a].request = call'[g].request
             PROVE  FALSE
  BY DEF Unpaid, PaidBy, Matches
<1>1. a \in 1..Len(answers) /\ answers[a] = answers'[a]
  <2>1. ASSUME NEW h \in Threads, Attempt(h) \/ FallBack(h), a = Len(answers) + 1 PROVE FALSE
    <3>1. answers'[a].by = h
      BY <2>1, NewAnswer
    <3>2. pc'[h] \in {"put", "answered"}
      BY <2>1, NewAnswer
    <3> QED
      BY <3>1, <3>2
  <2>2. CASE \E h \in Threads : Attempt(h) \/ FallBack(h)
    BY <2>1, <2>2, NewAnswer
  <2>3. CASE \A h \in Threads : ~Attempt(h) /\ ~FallBack(h)
    BY <2>3, OtherSteps
  <2> QED
    BY <2>2, <2>3
<1>2. ASSUME UNCHANGED call[g], pc[g] \in {"attempt", "exhausted", "fallback"} PROVE FALSE
  BY <1>1, <1>2 DEF Unpaid, PaidBy, Matches
<1>3. ASSUME NEW h \in Threads, h # g, Begin(h) \/ Complete(h) \/ Raises(h) PROVE FALSE
  BY <1>2, <1>3, Others
<1>4. CASE Begin(g)
  BY <1>4 DEF Begin, Goto, TypeOK
<1>5. CASE Lookup(g)
  <2>1. call' = call /\ pc[g] = "lookup" /\ cache[KeyOf(call[g])] = 0
    BY <1>5 DEF Lookup, Goto, AtHit, locals, TypeOK
  <2>2. KeyOf(call[g]) = [setting |-> answers[a].setting, request |-> answers[a].request]
    BY <1>1, <2>1 DEF KeyOf
  <2> QED
    BY <1>1, <2>1, <2>2 DEF Stored
<1>6. CASE AttemptFails(g) \/ Exhausted(g)
  <2>1. pc[g] \in {"attempt", "exhausted"} /\ UNCHANGED call[g]
    BY <1>6 DEF AttemptFails, Exhausted, locals
  <2> QED
    BY <1>2, <2>1
<1>7. CASE Attempt(g) \/ FallBack(g)
  BY <1>7, NewAnswer
<1>8. CASE AttemptTruncated(g) \/ FallbackFails(g) \/ Put(g) \/ Return(g) \/ Raises(g)
  BY <1>8 DEF AttemptTruncated, FallbackFails, AtFallbackFailure, Put, Return, Raises, Goto, TypeOK
<1>9. CASE \E m \in Models : Clear(m)
  BY <1>2, <1>9 DEF Clear, locals
<1>10. CASE UNCHANGED vars
  BY <1>2, <1>10 DEF vars, locals
<1>11. ~Crash
  BY DEF Crash
<1> QED
  BY <1>3, <1>4, <1>5, <1>6, <1>7, <1>8, <1>9, <1>10, <1>11 DEF Next, Complete

LEMMA MissStep == TypeOK /\ ThreadInv /\ BudgetInv /\ MissInv /\ [Next]_vars => MissInv'
<1> SUFFICES ASSUME TypeOK, ThreadInv, BudgetInv, MissInv, [Next]_vars,
                    Untouched("fail")', Untouched("crash")', Untouched("clear")'
             PROVE  /\ \A a \in 1..Len(answers') : answers'[a].cached => Stored(a)'
                    /\ \A h \in Threads : Unpaid(h)'
  BY DEF MissInv, Stored, Unpaid, Untouched
<1>1. /\ Untouched("fail") /\ Untouched("crash") /\ Untouched("clear")
      /\ ~Spend("fail") /\ ~Spend("crash") /\ ~Spend("clear")
  BY UnspentBefore
<1>2. /\ \A a \in 1..Len(answers) : answers[a].cached => Stored(a)
      /\ \A h \in Threads : Unpaid(h)
  BY <1>1, MissParts
<1>3. ASSUME NEW h \in Threads PROVE Unpaid(h)'
  BY <1>1, <1>2, <1>3, UnpaidStep
<1>4. ASSUME NEW a \in 1..Len(answers'), answers'[a].cached PROVE Stored(a)'
  <2>1. CASE a \in 1..Len(answers)
    <3>1. answers[a].cached
      BY <1>4, <2>1, Kept
    <3> QED
      BY <1>1, <1>2, <2>1, <3>1, StoredStep
  <2>2. ASSUME NEW h \in Threads, Attempt(h) \/ FallBack(h), a = Len(answers) + 1 PROVE Stored(a)'
    <3>1. answers'[a].by = h /\ answers'[a].cached = call[h].cached
      BY <2>2, NewAnswer
    <3>2. held'[h] = a /\ pc'[h] = "put"
      BY <1>4, <2>2, <3>1, NewAnswer
    <3> QED
      BY <3>1, <3>2 DEF Stored
  <2>3. CASE \E h \in Threads : Attempt(h) \/ FallBack(h)
    BY <2>1, <2>2, <2>3, NewAnswer
  <2>4. CASE \A h \in Threads : ~Attempt(h) /\ ~FallBack(h)
    BY <2>1, <2>4, OtherSteps
  <2> QED
    BY <2>3, <2>4
<1> QED
  BY <1>3, <1>4

(* A second answer to the same request would follow a miss. *)
LEMMA PaidStep == TypeOK /\ BudgetInv /\ MissInv /\ PaysOnce /\ [Next]_vars => PaysOnce'
<1> SUFFICES ASSUME TypeOK, BudgetInv, MissInv, PaysOnce, [Next]_vars,
                    Untouched("fail")', Untouched("crash")', Untouched("clear")',
                    NEW a \in 1..Len(answers'), NEW b \in 1..Len(answers'),
                    a < b, answers'[a].by = answers'[b].by,
                    answers'[a].cached, answers'[b].cached,
                    answers'[a].setting = answers'[b].setting,
                    answers'[a].request = answers'[b].request
             PROVE  FALSE
  BY DEF PaysOnce, Untouched
<1>1. /\ Untouched("fail") /\ Untouched("crash") /\ Untouched("clear")
  BY UnspentBefore
<1>2. CASE a \in 1..Len(answers) /\ b \in 1..Len(answers)
  <2>1. answers'[a] = answers[a] /\ answers'[b] = answers[b]
    BY <1>2, Kept
  <2> QED
    BY <1>1, <1>2, <2>1 DEF PaysOnce
<1>3. ASSUME NEW h \in Threads, Attempt(h) \/ FallBack(h), ~(b \in 1..Len(answers)) PROVE FALSE
  <2>1. b = Len(answers) + 1 /\ a \in 1..Len(answers)
    BY <1>3, NewAnswer
  <2>2. /\ answers'[b].setting = SettingOf[call[h].tier] /\ answers'[b].request = call[h].request
        /\ answers'[b].by = h /\ answers'[b].cached = call[h].cached
    BY <1>3, <2>1, NewAnswer
  <2>3. PaidBy(a, h, call[h])
    <3>1. answers'[a] = answers[a]
      BY <2>1, Kept
    <3> QED
      BY <2>2, <3>1 DEF PaidBy, Matches
  <2>4. Unpaid(h)
    BY <1>1, MissParts
  <2>5. pc[h] \in {"attempt", "fallback"}
    BY <1>3, NewAnswer
  <2> QED
    BY <2>1, <2>2, <2>3, <2>4, <2>5 DEF Unpaid
<1>4. CASE \E h \in Threads : Attempt(h) \/ FallBack(h)
  <2>1. CASE b \in 1..Len(answers)
    <3>1. a \in 1..Len(answers)
      BY <1>4, <2>1, NewAnswer
    <3> QED
      BY <1>2, <2>1, <3>1
  <2> QED
    BY <1>3, <1>4, <2>1
<1>5. CASE \A h \in Threads : ~Attempt(h) /\ ~FallBack(h)
  BY <1>2, <1>5, OtherSteps
<1> QED
  BY <1>4, <1>5

LEMMA InitInv == Init => IInv
<1> SUFFICES ASSUME Init PROVE IInv
  OBVIOUS
<1>1. TypeOK
  <2>1. answers = <<>> /\ Len(answers) = 0 /\ lines = <<>> /\ answers \in Seq(Answer) /\ lines \in Seq(Line)
    BY DEF Init
  <2>2. tries \in [Threads -> 0..MaxRetries] /\ limited \in [Threads -> 0..MaxRetries]
    BY ConfigAssumption DEF Init
  <2>3. result \in [Threads -> [answer : 0..Len(answers), cached : BOOLEAN, fellBack : BOOLEAN]]
    BY <2>1 DEF Init, NoResult
  <2>4. cache \in [Keys -> 0..Len(answers)] /\ held \in [Threads -> 0..Len(answers)]
    BY <2>1 DEF Init
  <2>5. call \in [Threads -> Calls] /\ torn \in BOOLEAN
    BY DEF Init
  <2> QED
    BY <2>1, <2>2, <2>3, <2>4, <2>5, BudgetAssumption DEF Init, TypeOK
<1>2. AnswerInv /\ CacheInv /\ ResultInv
  BY DEF Init, AnswerInv, CacheInv, ResultInv, NoResult
<1>3. ThreadInv
  BY ConfigAssumption DEF Init, ThreadInv
<1>4. BudgetInv
  BY BudgetAssumption DEF Init, BudgetInv
<1>5. LogInv
  <2>1. Busy = {} /\ lines = <<>> /\ ~torn /\ budget = Budget
    BY DEF Init, Busy
  <2> QED
    BY <2>1, FS_EmptySet, BudgetAssumption DEF LogInv
<1>6. SubstitutionsOnRecord /\ MissInv /\ PaysOnce
  BY DEF Init, SubstitutionsOnRecord, MissInv, PaysOnce
<1> QED
  BY <1>1, <1>2, <1>3, <1>4, <1>5, <1>6 DEF IInv

(* IInv is an inductive invariant of LLMClient. *)
THEOREM Invariance == Safe => []IInv
<1>1. IInv /\ [Next]_vars => IInv'
  BY TypeStep, AnswerStep, CacheStep, ThreadStep, ResultStep, BudgetStep, LogStep, RecordStep,
     MissStep, PaidStep DEF IInv
<1> QED
  BY InitInv, <1>1, PTL DEF Safe

(* Whatever the threads, the configuration and the failures: what a caller  *)
(* gets, live or cached, was asked for with its own request and settings    *)
(* (client.py:225-245).                                                    *)
THEOREM RightAnswers == Safe => []AnswersTheCall
<1>1. IInv => AnswersTheCall
  BY DEF IInv, ResultInv, Matches, AnswersTheCall, Returned, Given
<1> QED
  BY <1>1, Invariance, PTL

(* A pinned tier is answered by the model it names, also from a cache that  *)
(* holds answers of the fallback: it has no settings in common with a tier  *)
(* that may be substituted (client.py:289-308, settings.py:194-198).        *)
THEOREM Pinning == Safe => []PinnedIsPinned
<1>1. IInv => PinnedIsPinned
  <2> SUFFICES ASSUME IInv, NEW h \in Threads, Returned(h), call[h].tier \in Pinned
               PROVE  Given(h).model = Own(call[h].tier)
    BY DEF PinnedIsPinned
  <2>1. result[h].answer \in 1..Len(answers)
    BY DEF IInv, TypeOK, Returned
  <2>2. Given(h).setting = SettingOf[call[h].tier]
    BY DEF IInv, ResultInv, Matches, Returned, Given
  <2>3. ~Given(h).fell
    BY <2>1, <2>2, ApartAssumption DEF IInv, AnswerInv, Given
  <2> QED
    BY <2>1, <2>2, <2>3 DEF IInv, AnswerInv, Given, Own
<1> QED
  BY <1>1, Invariance, PTL

(* Every call that is over has exactly one line in the cost log, when no    *)
(* access failed and no process died (costlog.py:1-9).                     *)
THEOREM Accounting == Safe => []OneLinePerCall
<1>1. IInv => OneLinePerCall
  BY DEF IInv, LogInv, OneLinePerCall
<1> QED
  BY <1>1, Invariance, PTL

(* An answer that came from the fallback is on its way to the log or there   *)
(* is a line that says so, when no access failed and no process died         *)
(* (client.py:296-306, costlog.py:11-14): a substitution is never silent.    *)
THEOREM Recording == Safe => []SubstitutionsOnRecord
  BY Invariance, PTL DEF IInv

(* A thread that lets the cache keep its answers never pays for one request  *)
(* twice, whichever threads miss at the same time, unless an access failed,  *)
(* a process died or somebody cleared the cache (client.py:233-245).         *)
THEOREM PayingOnce == Safe => []PaysOnce
  BY Invariance, PTL DEF IInv
=============================================================================
