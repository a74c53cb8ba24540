----------------------------- MODULE LLMClient -----------------------------
(***************************************************************************)
(* The one way to a model: LLMClient.complete() with its request cache and *)
(* its cost log (api_budget/client.py, cache.py, costlog.py).              *)
(*                                                                         *)
(* Threads of a process call complete() concurrently; the cache and the    *)
(* log are files that survive the process.  Each access to the cache, to a *)
(* provider or to the log is one step.  A provider's answer is represented *)
(* by its number among all answers ever given, 0 standing for none.        *)
(* Waiting between retries is not modelled, it changes no state.           *)
(***************************************************************************)
EXTENDS Integers, Sequences, FiniteSets

CONSTANTS
  Threads,       (* callers of complete()                                   *)
  Tiers,         (* the tiers of config/models.yaml                         *)
  Requests,      (* what a request says: messages, system, response format  *)
  Settings,      (* provider, model, temperature, max_tokens, effort        *)
  SettingOf,     (* SettingOf[t]: the settings of tier t                    *)
  ModelOf,       (* ModelOf[s]: the model named in settings s               *)
  Substitutable, (* tiers a fallback is configured and allowed for          *)
  Fallback,      (* the model behind settings.models().fallback             *)
  MaxRetries, Trigger,  (* max_retries, fallback.trigger_after_retries      *)
  Budget         (* Budget[b]: how often b may happen in a behaviour        *)

Bounded == {"call",    (* calls of complete()                               *)
            "fail",    (* accesses that raise what complete() does not catch *)
            "crash",   (* processes that die                                *)
            "clear"}   (* cache.clear(model=...)                            *)

Models == {ModelOf[s] : s \in Settings} \cup {Fallback}
Pinned == Tiers \ Substitutable

ASSUME ConfigAssumption ==
  /\ SettingOf \in [Tiers -> Settings]
  /\ Substitutable \subseteq Tiers
  /\ MaxRetries \in Nat \ {0} /\ Trigger \in Nat \ {0}

(* No pinned tier has all its settings in common with one that may be      *)
(* substituted: true of config/models.yaml, where the tiers that share a   *)
(* model differ in max_tokens or reasoning_effort.                         *)
ASSUME ApartAssumption == \A p \in Pinned, t \in Substitutable : SettingOf[p] # SettingOf[t]

ASSUME BudgetAssumption == Budget \in [Bounded -> Nat]
ASSUME ThreadAssumption == IsFiniteSet(Threads)

Calls == [tier : Tiers, request : Requests, cached : BOOLEAN]  (* cached: use_cache *)

(* What a request is cached under: request_key(). *)
Keys == [setting : Settings, request : Requests]

VARIABLES
  answers,  (* history: every answer a provider gave                        *)
  cache,    (* cache[k]: the answer stored under k                          *)
  lines,    (* the readable lines of the cost log                           *)
  torn,     (* the log ends in a half-written line                          *)
  pc,       (* pc[h]: where thread h is in complete()                       *)
  call,     (* call[h]: its arguments                                       *)
  tries,    (* tries[h]: attempts that failed                               *)
  limited,  (* limited[h]: the code's rate_limited                          *)
  held,     (* held[h]: the answer it has got                               *)
  result,   (* result[h]: what its last call returned                       *)
  budget    (* what is left of Budget                                       *)

files   == <<cache, lines, torn>>
locals  == <<call, tries, limited>>
vars    == <<answers, files, pc, locals, held, result, budget>>

------------------------------------------------------------------------------
Spend(b) == budget[b] > 0 /\ budget' = [budget EXCEPT ![b] = @ - 1]

Own(t) == ModelOf[SettingOf[t]]

(* The operators named Mutant... are not part of the model: each is what    *)
(* the definition below it would be with a bug in it that a property of     *)
(* this module finds.                                                       *)

KeyOf(c)       == [setting |-> SettingOf[c.tier], request |-> c.request]

(* The conditions on the substitution of another model. *)
MutantMayFallBack(h) == limited[h] >= Trigger
MayFallBack(h)       == limited[h] >= Trigger /\ call[h].tier \in Substitutable

NoResult == [answer |-> 0, cached |-> FALSE, fellBack |-> FALSE]

(* What complete() returns, from the place it returns from.  A hit says    *)
(* fell_back=False whatever model the stored answer came from.             *)
ResultOf(h) == [answer |-> held[h], cached |-> pc[h] = "hit",
                fellBack |-> pc[h] = "answered" /\ answers[held[h]].fell]

MutantLineOf(h) == [answer |-> held[h], tier |-> call[h].tier, cached |-> pc[h] = "hit", fellBack |-> FALSE]
LineOf(h)       == [answer |-> held[h], tier |-> call[h].tier, cached |-> pc[h] = "hit",
                    fellBack |-> pc[h] = "answered" /\ answers[held[h]].fell]

(* Where a thread is after cache.get found the key, and after an answer.   *)
AtHit(h)       == "hit"

MutantAtAnswer(h, fell) == IF call[h].cached /\ ~fell THEN "put" ELSE "answered"
AtAnswer(h, fell)       == IF call[h].cached THEN "put" ELSE "answered"

(* Where the loop goes after an attempt failed, and complete() after the   *)
(* fallback failed too.                                                    *)
AtRetry(h)       == IF tries[h] + 1 = MaxRetries THEN "exhausted" ELSE "attempt"

MutantAtFallbackFailure(h) == "exhausted"
AtFallbackFailure(h)       == "failed"

Init ==
  /\ answers = <<>>
  /\ cache = [k \in Keys |-> 0] /\ lines = <<>> /\ torn = FALSE
  /\ pc = [h \in Threads |-> "idle"]
  /\ call \in [Threads -> Calls]
  /\ \A g, h \in Threads : call[g] = call[h]
  /\ tries = [h \in Threads |-> 0] /\ limited = [h \in Threads |-> 0]
  /\ held = [h \in Threads |-> 0]
  /\ result = [h \in Threads |-> NoResult]
  /\ budget = Budget

Goto(h, l) == pc' = [pc EXCEPT ![h] = l]

------------------------------------------------------------------------------
(* complete() is called: the tier is resolved, the key computed. *)
Begin(h) ==
  /\ pc[h] = "idle"
  /\ Spend("call")
  /\ \E c \in Calls :
       /\ call' = [call EXCEPT ![h] = c]
       /\ Goto(h, IF c.cached THEN "lookup" ELSE "attempt")
  /\ tries' = [tries EXCEPT ![h] = 0]
  /\ limited' = [limited EXCEPT ![h] = 0]
  /\ held' = [held EXCEPT ![h] = 0]
  /\ result' = [result EXCEPT ![h] = NoResult]
  /\ UNCHANGED <<answers, files>>

(* cache.get(key) *)
Lookup(h) ==
  /\ pc[h] = "lookup"
  /\ held' = [held EXCEPT ![h] = cache[KeyOf(call[h])]]
  /\ Goto(h, IF cache[KeyOf(call[h])] # 0 THEN AtHit(h) ELSE "attempt")
  /\ UNCHANGED <<answers, files, locals, result, budget>>

(* A provider answers the call, from the model the call asked it for. *)
Answered(h, model, fell) ==
  /\ answers' = Append(answers, [setting |-> SettingOf[call[h].tier], request |-> call[h].request,
                                 model |-> model, fell |-> fell, by |-> h, cached |-> call[h].cached])
  /\ held' = [held EXCEPT ![h] = Len(answers) + 1]
  /\ Goto(h, AtAnswer(h, fell))

Attempt(h) ==
  /\ pc[h] = "attempt"
  /\ Answered(h, Own(call[h].tier), FALSE)
  /\ UNCHANGED <<files, locals, result, budget>>

(* RateLimitError: counted, and tried again after a wait; BackendError too, *)
(* without the count.                                                      *)
AttemptFails(h) ==
  /\ pc[h] = "attempt"
  /\ tries' = [tries EXCEPT ![h] = @ + 1]
  /\ limited' \in {limited, [limited EXCEPT ![h] = @ + 1]}
  /\ Goto(h, AtRetry(h))
  /\ UNCHANGED <<answers, files, call, held, result, budget>>

(* TruncatedResponseError: logged and raised, no retry. *)
AttemptTruncated(h) ==
  /\ pc[h] = "attempt"
  /\ Goto(h, "failed")
  /\ UNCHANGED <<answers, files, locals, held, result, budget>>

(* Every attempt failed. *)
Exhausted(h) ==
  /\ pc[h] = "exhausted"
  /\ Goto(h, IF MayFallBack(h) THEN "fallback" ELSE "failed")
  /\ UNCHANGED <<answers, files, locals, held, result, budget>>

FallBack(h) ==
  /\ pc[h] = "fallback"
  /\ Answered(h, Fallback, TRUE)
  /\ UNCHANGED <<files, locals, result, budget>>

FallbackFails(h) ==
  /\ pc[h] = "fallback"
  /\ Goto(h, AtFallbackFailure(h))
  /\ UNCHANGED <<answers, files, locals, held, result, budget>>

(* cache.put: under the key of the call, also when another model answered. *)
Put(h) ==
  /\ pc[h] = "put"
  /\ cache' = [cache EXCEPT ![KeyOf(call[h])] = held[h]]
  /\ Goto(h, "answered")
  /\ UNCHANGED <<answers, lines, torn, locals, held, result, budget>>

(* Appending to the file: after a half-written line the new one continues  *)
(* it, and read() skips both.                                              *)
WriteLine(l) ==
  /\ lines' = IF torn THEN lines ELSE Append(lines, l)
  /\ torn' = FALSE

(* cost_log.log, then complete() returns, or raises if it has no answer. *)
Return(h) ==
  /\ pc[h] \in {"hit", "answered", "failed"}
  /\ WriteLine(LineOf(h))
  /\ result' = [result EXCEPT ![h] = IF pc[h] = "failed" THEN NoResult ELSE ResultOf(h)]
  /\ Goto(h, "idle")
  /\ UNCHANGED <<answers, cache, locals, held, budget>>

(* sqlite3, the file system or the provider's client raises what           *)
(* complete() does not catch: the call ends where it is.                   *)
Raises(h) ==
  /\ pc[h] \in {"lookup", "attempt", "fallback", "put", "hit", "answered", "failed"}
  /\ Spend("fail")
  /\ torn' \in IF pc[h] \in {"hit", "answered", "failed"} THEN {torn, TRUE} ELSE {torn}
  /\ Goto(h, "idle")
  /\ UNCHANGED <<answers, cache, lines, locals, held, result>>

(* The process dies, perhaps while a thread writes its line. *)
Crash ==
  /\ Spend("crash")
  /\ pc' = [h \in Threads |-> "idle"]
  /\ result' = [h \in Threads |-> NoResult]
  /\ torn' \in IF \E h \in Threads : pc[h] \in {"hit", "answered", "failed"}
               THEN {torn, TRUE} ELSE {torn}
  /\ UNCHANGED <<answers, cache, lines, locals, held>>

(* cache.clear(model=m) *)
Clear(m) ==
  /\ Spend("clear")
  /\ cache' = [k \in Keys |-> IF cache[k] # 0 /\ answers[cache[k]].model = m THEN 0 ELSE cache[k]]
  /\ UNCHANGED <<answers, lines, torn, pc, locals, held, result>>

Complete(h) ==
  \/ Lookup(h) \/ Attempt(h) \/ AttemptFails(h) \/ AttemptTruncated(h) \/ Exhausted(h)
  \/ FallBack(h) \/ FallbackFails(h) \/ Put(h) \/ Return(h)

Next ==
  \/ \E h \in Threads : Begin(h) \/ Complete(h) \/ Raises(h)
  \/ Crash
  \/ \E m \in Models : Clear(m)

Safe == Init /\ [][Next]_vars

(* A thread inside complete() goes on: providers answer or time out. *)
Spec == Safe /\ \A h \in Threads : WF_vars(Complete(h))

------------------------------------------------------------------------------
Untouched(b) == budget[b] = Budget[b]

Busy == {h \in Threads : pc[h] # "idle"}

Answer == [setting : Settings, request : Requests, model : Models, fell : BOOLEAN,
           by : Threads, cached : BOOLEAN]

Line == [answer : Nat, tier : Tiers, cached : BOOLEAN, fellBack : BOOLEAN]

(* The types of the variables. *)
TypeOK ==
  /\ answers \in Seq(Answer)
  /\ cache \in [Keys -> 0..Len(answers)]
  /\ lines \in Seq(Line) /\ torn \in BOOLEAN
  /\ pc \in [Threads -> {"idle", "lookup", "attempt", "exhausted", "fallback", "put", "hit",
                         "answered", "failed"}]
  /\ call \in [Threads -> Calls]
  /\ tries \in [Threads -> 0..MaxRetries] /\ limited \in [Threads -> 0..MaxRetries]
  /\ held \in [Threads -> 0..Len(answers)]
  /\ result \in [Threads -> [answer : 0..Len(answers), cached : BOOLEAN, fellBack : BOOLEAN]]
  /\ budget \in [Bounded -> Nat]

(* What complete() returned to h, if it did. *)
Returned(h) == pc[h] = "idle" /\ result[h].answer # 0
Given(h) == answers[result[h].answer]

(* A pinned tier is never answered by another model, not from the cache     *)
(* either: settings.py:194-198, client.py:319-329 and 233-245.              *)
PinnedIsPinned ==
  \A h \in Threads : Returned(h) /\ call[h].tier \in Pinned => Given(h).model = Own(call[h].tier)

(* What a caller gets, live or cached, was asked for with its own request   *)
(* and the settings of its tier (cache.py:8-11: a response generated under  *)
(* different settings is silently wrong).                                   *)
AnswersTheCall ==
  \A h \in Threads : Returned(h) =>
    Given(h).setting = SettingOf[call[h].tier] /\ Given(h).request = call[h].request

(* Every call that is over has left exactly one line in the cost log,       *)
(* whatever way it took, unless an access failed or the process died.       *)
OneLinePerCall ==
  Untouched("fail") /\ Untouched("crash") =>
    Len(lines) + Cardinality(Busy) = Budget["call"] - budget["call"]

(* A substitution is on record: the answer of the fallback is on its way to *)
(* the log or there is a line that says fell_back (costlog.py:11-14).       *)
SubstitutionsOnRecord ==
  Untouched("fail") /\ Untouched("crash") =>
    \A a \in 1..Len(answers) : answers[a].fell =>
      \/ \E h \in Threads : held[h] = a /\ pc[h] \in {"put", "answered"}
      \/ \E i \in 1..Len(lines) : lines[i].answer = a /\ lines[i].fellBack

(* No thread pays twice for one request it lets the cache keep, although    *)
(* threads that miss at the same time each pay (client.py:9: "the second    *)
(* run of any script is free").                                             *)
PaysOnce ==
  Untouched("fail") /\ Untouched("crash") /\ Untouched("clear") =>
    \A a, b \in 1..Len(answers) :
      /\ a < b /\ answers[a].by = answers[b].by
      /\ answers[a].cached /\ answers[b].cached
      => \/ answers[a].setting # answers[b].setting
         \/ answers[a].request # answers[b].request

(* Every call returns or raises: attempts are bounded and so is the         *)
(* fallback.                                                                *)
EveryCallEnds == \A h \in Threads : pc[h] # "idle" ~> pc[h] = "idle"

------------------------------------------------------------------------------
(* The inductive invariant behind the safety properties.                    *)

(* Answer a was given under the settings of c, to the request of c. *)
Matches(a, c) == answers[a].setting = SettingOf[c.tier] /\ answers[a].request = c.request

(* An answer comes from the model its settings name or, if the settings may *)
(* be those of a substitutable tier, from the fallback.                     *)
AnswerInv ==
  \A a \in 1..Len(answers) :
    /\ ~answers[a].fell => answers[a].model = ModelOf[answers[a].setting]
    /\ answers[a].fell => \E t \in Substitutable : answers[a].setting = SettingOf[t]

(* What is stored under a key was given to that key. *)
CacheInv ==
  \A k \in Keys : cache[k] # 0 =>
    answers[cache[k]].setting = k.setting /\ answers[cache[k]].request = k.request

(* What a thread carries to the cache, the log or its caller answers its    *)
(* call; it is at the fallback only with a tier that may have one, and in   *)
(* the loop only with attempts left.                                        *)
ThreadInv ==
  \A h \in Threads :
    /\ pc[h] \in {"hit", "put", "answered"} => held[h] # 0 /\ Matches(held[h], call[h])
    /\ pc[h] = "fallback" => call[h].tier \in Substitutable
    /\ pc[h] \in {"lookup", "attempt"} => tries[h] < MaxRetries
    /\ limited[h] <= tries[h]

ResultInv == \A h \in Threads : result[h].answer # 0 => Matches(result[h].answer, call[h])

BudgetInv == \A b \in Bounded : budget[b] <= Budget[b]

(* Each call that has begun is in progress or has its line. *)
LogInv ==
  Untouched("fail") /\ Untouched("crash") =>
    /\ ~torn
    /\ Len(lines) + Cardinality(Busy) = Budget["call"] - budget["call"]

(* Answer a was paid for by h, to be cached, for what c asks. *)
PaidBy(a, h, c) == answers[a].by = h /\ answers[a].cached /\ Matches(a, c)

(* What was paid for to be cached is in the cache or on its way there, so a *)
(* thread that missed has not paid for its request before.                 *)
MissInv ==
  Untouched("fail") /\ Untouched("crash") /\ Untouched("clear") =>
    /\ \A a \in 1..Len(answers) : answers[a].cached =>
         \/ cache[[setting |-> answers[a].setting, request |-> answers[a].request]] # 0
         \/ pc[answers[a].by] = "put" /\ held[answers[a].by] = a
    /\ \A h \in Threads :
         pc[h] \in {"attempt", "exhausted", "fallback"} /\ call[h].cached =>
           \A a \in 1..Len(answers) : ~PaidBy(a, h, call[h])

IInv == /\ TypeOK /\ AnswerInv /\ CacheInv /\ ThreadInv /\ ResultInv /\ BudgetInv /\ LogInv
        /\ SubstitutionsOnRecord /\ MissInv /\ PaysOnce
==============================================================================
