---------------------------- MODULE ConsoleProofs ----------------------------
(***************************************************************************)
(* The safety properties of Console for any runs and any bounds: a source  *)
(* that was stopped is silent, and a screen that says a run is over shows  *)
(* the whole run.                                                          *)
(***************************************************************************)
EXTENDS Console, WellFoundedInduction, TLAPS

(* A set of numbers has a least one. *)
LEMMA LeastOf ==
  ASSUME NEW S \in SUBSET Nat, S # {}
  PROVE  \E m \in S : \A k \in S : m <= k
<1> DEFINE R == {p \in Nat \X Nat : p[1] < p[2]}
<1>1. IsWellFoundedOn(R, Nat)
  BY NatLessThanWellFounded DEF OpToRel
<1>2. PICK m \in S : \A k \in S : <<k, m>> \notin R
  BY <1>1, WFMin
<1>3. ASSUME NEW k \in S PROVE m <= k
  <2>1. <<k, m>> \in Nat \X Nat /\ ~(<<k, m>>[1] < <<k, m>>[2])
    BY <1>2
  <2> QED
    BY <2>1
<1> QED
  BY <1>3

(* Induction, for a set of numbers up to c. *)
LEMMA Upwards ==
  ASSUME NEW c \in Nat, NEW G, 0 \in G, \A n \in Nat : n < c /\ n \in G => n + 1 \in G
  PROVE  0..c \subseteq G
<1> SUFFICES ASSUME (0..c) \ G # {} PROVE FALSE
  OBVIOUS
<1>0. (0..c) \ G \in SUBSET Nat
  OBVIOUS
<1>1. PICK m \in (0..c) \ G : \A k \in (0..c) \ G : m <= k
  BY <1>0, LeastOf
<1>2. m # 0 /\ m - 1 \in Nat /\ m - 1 < c /\ m - 1 \in G
  BY <1>1
<1>3. (m - 1) + 1 \in G
  BY <1>2
<1> QED
  BY <1>1, <1>3

(* A script is a sequence of at least one event. *)
LEMMA ScriptIs ==
  ASSUME NEW r \in DOMAIN Scripts
  PROVE  Len(Scripts[r]) \in Nat \ {0} /\ DOMAIN Scripts[r] = 1..Len(Scripts[r])
  BY ScriptsAssumption

(* A source of run r: what it has received, shown and holds back fit, and   *)
(* only a source that is not stopped or over has a timer.                   *)
Kinds == {"live", "replay", "stored"}
States == {"open", "closed", "stopped", "over"}

Fields == {"kind", "run", "last", "out", "queue", "timer", "finishing", "state"}
Values == Kinds \cup States \cup DOMAIN Scripts \cup Nat \cup Seq(Nat) \cup BOOLEAN
SourceSet == [Fields -> Values]

Typed(s) ==
  /\ s.kind \in Kinds /\ s.run \in DOMAIN Scripts /\ s.last \in Nat /\ s.out \in Nat
  /\ s.queue \in Seq(Nat) /\ s.timer \in BOOLEAN /\ s.finishing \in BOOLEAN /\ s.state \in States

Active(s) == s.state \in {"open", "closed"}

SourceOK(s) ==
  /\ s \in SourceSet /\ Typed(s)
  /\ s.out <= s.last /\ s.last <= Len(Scripts[s.run])
  /\ Active(s) => s.queue = [i \in 1..(s.last - s.out) |-> s.out + i]
  /\ s.kind # "live" => s.queue = <<>> /\ (Active(s) => s.out = s.last)
  /\ ~s.timer => s.queue = <<>>
  /\ ~Active(s) => s.queue = <<>> /\ ~s.timer

SourcesOK ==
  /\ src \in Seq(SourceSet)
  /\ \A k \in DOMAIN src : SourceOK(src[k])
  /\ running \in Nat

(* Sources are closed under what becomes of their fields. *)
LEMMA Changed ==
  ASSUME NEW s \in SourceSet, NEW f \in Fields, NEW v \in Values
  PROVE  [s EXCEPT ![f] = v] \in SourceSet
  BY DEF SourceSet

LEMMA SourceIsNew ==
  ASSUME NEW kind \in Kinds, NEW r \in DOMAIN Scripts
  PROVE  Source(kind, r) \in SourceSet
<1>1. /\ kind \in Values /\ r \in Values /\ 0 \in Values /\ <<>> \in Values /\ FALSE \in Values
      /\ "open" \in Values
  BY DEF Values, States
<1>2. /\ Source(kind, r).kind = kind /\ Source(kind, r).run = r /\ Source(kind, r).last = 0
      /\ Source(kind, r).out = 0 /\ Source(kind, r).queue = <<>> /\ Source(kind, r).timer = FALSE
      /\ Source(kind, r).finishing = FALSE /\ Source(kind, r).state = "open"
      /\ DOMAIN Source(kind, r) = Fields
  BY DEF Source, Fields
<1>3. Source(kind, r) = [f \in Fields |-> Source(kind, r)[f]]
  BY DEF Source, Fields
<1>4. \A f \in Fields : Source(kind, r)[f] \in Values
  BY <1>1, <1>2 DEF Fields
<1> QED
  BY <1>3, <1>4 DEF SourceSet

LEMMA LiveIsOK ==
  ASSUME NEW r \in DOMAIN Scripts
  PROVE  SourceOK(Source("live", r))
<1>1. Source("live", r) \in SourceSet
  BY SourceIsNew DEF Kinds
<1>2. Typed(Source("live", r))
  BY DEF Source, Typed, Kinds, States
<1>3. [i \in 1..0 |-> 0 + i] = <<>>
  OBVIOUS
<1> QED
  BY <1>1, <1>2, <1>3, ScriptIs DEF SourceOK, Active, Source

LEMMA PlayedIsOK ==
  ASSUME NEW r \in DOMAIN Scripts
  PROVE  SourceOK(Played(r)) /\ Active(Played(r)) /\ Played(r).run = r /\ Played(r).out = 1
<1>1. Played(r) \in SourceSet
  <2>1. Source("replay", r) \in SourceSet
    BY SourceIsNew DEF Kinds
  <2>2. 1 \in Values /\ TRUE \in Values /\ {"last", "out", "timer"} \subseteq Fields
    BY DEF Values, Fields
  <2>3. [[Source("replay", r) EXCEPT !.last = 1] EXCEPT !.out = 1] \in SourceSet
    BY <2>1, <2>2, Changed
  <2>4. [[[Source("replay", r) EXCEPT !.last = 1] EXCEPT !.out = 1] EXCEPT !.timer = TRUE] \in SourceSet
    BY <2>2, <2>3, Changed
  <2> QED
    BY <2>4 DEF Played
<1>2. Typed(Played(r))
  BY DEF Played, Source, Typed, Kinds, States
<1>3. [i \in 1..0 |-> 1 + i] = <<>>
  OBVIOUS
<1> QED
  BY <1>1, <1>2, <1>3, ScriptIs DEF SourceOK, Active, Played, Source

LEMMA StoredIsOK ==
  ASSUME NEW r \in DOMAIN Scripts, NEW upTo \in DOMAIN Scripts[r]
  PROVE  LET s == [Source("stored", r) EXCEPT !.last = upTo, !.out = upTo, !.state = "over"] IN
         SourceOK(s) /\ ~Active(s) /\ s.run = r /\ s.out = upTo
<1> DEFINE s == [Source("stored", r) EXCEPT !.last = upTo, !.out = upTo, !.state = "over"]
<1>1. upTo \in Nat /\ upTo <= Len(Scripts[r])
  BY ScriptIs
<1>2. s \in SourceSet
  <2>1. Source("stored", r) \in SourceSet
    BY SourceIsNew DEF Kinds
  <2>2. upTo \in Values /\ "over" \in Values /\ {"last", "out", "state"} \subseteq Fields
    BY <1>1 DEF Values, States, Fields
  <2>3. [[Source("stored", r) EXCEPT !.last = upTo] EXCEPT !.out = upTo] \in SourceSet
    BY <2>1, <2>2, Changed
  <2>4. [[[Source("stored", r) EXCEPT !.last = upTo] EXCEPT !.out = upTo] EXCEPT !.state = "over"] \in SourceSet
    BY <2>2, <2>3, Changed
  <2> QED
    BY <2>4
<1>3. Typed(s)
  BY <1>1 DEF Source, Typed, Kinds, States
<1>4. s.run = r /\ s.last = upTo /\ s.out = upTo /\ s.queue = <<>> /\ s.timer = FALSE /\ s.state = "over"
  BY DEF Source
<1>5. SourceOK(s) /\ ~Active(s) /\ s.run = r /\ s.out = upTo
  <2> HIDE DEF s
  <2> QED
    BY <1>1, <1>2, <1>3, <1>4 DEF SourceOK, Active
<1> QED
  BY <1>5

LEMMA StoppedIsOK ==
  ASSUME NEW s, SourceOK(s)
  PROVE  SourceOK(Stopped(s)) /\ ~Active(Stopped(s))
         /\ Stopped(s).run = s.run /\ Stopped(s).out = s.out
<1>1. Stopped(s) \in SourceSet
  <2>1. s \in SourceSet
    BY DEF SourceOK
  <2>2. "stopped" \in Values /\ <<>> \in Values /\ FALSE \in Values
    BY DEF Values, States
  <2>3. "state" \in Fields /\ "queue" \in Fields /\ "timer" \in Fields
    BY DEF Fields
  <2>4. [s EXCEPT !.state = "stopped"] \in SourceSet
    BY <2>1, <2>2, <2>3, Changed
  <2>5. [[s EXCEPT !.state = "stopped"] EXCEPT !.queue = <<>>] \in SourceSet
    BY <2>2, <2>3, <2>4, Changed
  <2>6. [[[s EXCEPT !.state = "stopped"] EXCEPT !.queue = <<>>] EXCEPT !.timer = FALSE] \in SourceSet
    BY <2>2, <2>3, <2>5, Changed
  <2> QED
    BY <2>6 DEF Stopped
<1>2. Typed(Stopped(s))
  BY DEF SourceOK, Stopped, SourceSet, Fields, Typed, States
<1> QED
  BY <1>1, <1>2 DEF SourceOK, Stopped, SourceSet, Fields, Active

(* Halting touches the source the button holds, if any. *)
LEMMA HaltedIsOK ==
  ASSUME SourcesOK
  PROVE  /\ Halted \in Seq(SourceSet) /\ DOMAIN Halted = DOMAIN src /\ Len(Halted) = Len(src)
         /\ \A k \in DOMAIN src :
              /\ SourceOK(Halted[k])
              /\ Halted[k].run = src[k].run /\ Halted[k].out = src[k].out
              /\ Active(Halted[k]) => Active(src[k]) /\ k # running
              /\ src[k].state = "stopped" => Halted[k] = src[k]
<1>1. ASSUME NEW k \in DOMAIN src
      PROVE  /\ SourceOK(Halted[k]) /\ Halted[k].run = src[k].run /\ Halted[k].out = src[k].out
             /\ Active(Halted[k]) => Active(src[k]) /\ k # running
             /\ src[k].state = "stopped" => Halted[k] = src[k]
  <2>1. SourceOK(src[k])
    BY DEF SourcesOK
  <2>2. CASE k = running
    <3>1. Halted[k] = Stopped(src[k])
      BY <2>2 DEF Halted
    <3>2. src[k].state = "stopped" => Stopped(src[k]) = src[k]
      <4> SUFFICES ASSUME src[k].state = "stopped" PROVE Stopped(src[k]) = src[k]
      OBVIOUS
    <4>1. src[k].queue = <<>> /\ src[k].timer = FALSE
      BY <2>1 DEF SourceOK, Active, Typed
    <4>2. src[k] \in SourceSet
      BY <2>1 DEF SourceOK
    <4> QED
      BY <4>1, <4>2 DEF SourceSet, Stopped
    <3> QED
      BY <2>1, <2>2, <3>1, <3>2, StoppedIsOK
  <2>3. CASE k # running
    BY <2>1, <2>3 DEF Halted
  <2> QED
    BY <2>2, <2>3
<1>2. DOMAIN Halted = DOMAIN src /\ DOMAIN src = 1..Len(src) /\ Len(src) \in Nat
  BY DEF Halted, SourcesOK
<1>3. \A k \in 1..Len(src) : Halted[k] \in SourceSet
  BY <1>1, <1>2 DEF SourceOK
<1>4. Halted \in Seq(SourceSet) /\ Len(Halted) = Len(src)
  BY <1>2, <1>3 DEF Halted
<1> QED
  BY <1>1, <1>2, <1>4

(* What a step makes of the sources: one more, or one of the active ones    *)
(* goes on, or none; besides, the one the button held may be stopped.       *)
LEMMA OneMoreSource ==
  ASSUME SourcesOK, NEW s, SourceOK(s), src' \in {Append(src, s), Append(Halted, s)}, running' \in Nat
  PROVE  SourcesOK' /\ \A k \in DOMAIN src : src[k].state = "stopped" => src'[k] = src[k]
<1>1. s \in SourceSet
  BY DEF SourceOK
<1>2. CASE src' = Append(src, s)
  BY <1>1, <1>2 DEF SourcesOK
<1>3. CASE src' = Append(Halted, s)
  <2>1. /\ Halted \in Seq(SourceSet) /\ DOMAIN Halted = DOMAIN src /\ Len(Halted) = Len(src)
        /\ \A k \in DOMAIN src : SourceOK(Halted[k]) /\ (src[k].state = "stopped" => Halted[k] = src[k])
    BY HaltedIsOK
  <2>2. src' \in Seq(SourceSet) /\ Len(src') = Len(src) + 1 /\ src'[Len(src) + 1] = s
        /\ \A k \in DOMAIN src : src'[k] = Halted[k]
    BY <1>1, <1>3, <2>1
  <2>3. \A k \in DOMAIN src' : k \in DOMAIN src \/ k = Len(src) + 1
    BY <2>2 DEF SourcesOK
  <2> QED
    BY <2>1, <2>2, <2>3 DEF SourcesOK
<1> QED
  BY <1>2, <1>3

LEMMA SourceGoesOn ==
  ASSUME SourcesOK, NEW k \in DOMAIN src, NEW s, SourceOK(s), Becomes(k, s), src[k].state # "stopped"
  PROVE  SourcesOK' /\ \A j \in DOMAIN src : src[j].state = "stopped" => src'[j] = src[j]
<1>1. src' = [src EXCEPT ![k] = s] /\ s \in SourceSet /\ running' \in Nat
  BY DEF Becomes, OnDone, NoSource, SourceOK, SourcesOK
<1> QED
  BY <1>1 DEF SourcesOK

------------------------------------------------------------------------------
(* What the screen shows.                                                   *)

(* Stage g is open after the first m events of run r: it was started and    *)
(* not closed since.                                                        *)
IsOpen(r, m, g) ==
  \E i \in 1..m : /\ StartsStage(Scripts[r][i]) /\ Scripts[r][i].stage = g
                  /\ \A j \in (i + 1)..m : ~Closes(Scripts[r][j], g)

(* Screen s shows the first m events of source k, a source of run r.        *)
Shows(s, k, r, m) ==
  /\ m \in 0..Len(Scripts[r])
  /\ s.events = [i \in 1..m |-> <<k, i>>]
  /\ s.status \in {"done", "error"} => m = Len(Scripts[r])
  /\ "run" \notin DOMAIN s.stages
  /\ \A g \in DOMAIN s.stages : s.stages[g] = "running" => IsOpen(r, m, g)

LEMMA ShowsNothing ==
  ASSUME NEW k, NEW r \in DOMAIN Scripts
  PROVE  Shows(EmptyState, k, r, 0)
  BY ScriptIs DEF Shows, EmptyState

LEMMA StaysOpen ==
  ASSUME NEW r \in DOMAIN Scripts, NEW m \in Nat, m + 1 <= Len(Scripts[r]), NEW g, IsOpen(r, m, g),
         ~Closes(Scripts[r][m + 1], g)
  PROVE  IsOpen(r, m + 1, g)
<1>1. PICK i \in 1..m : /\ StartsStage(Scripts[r][i]) /\ Scripts[r][i].stage = g
                        /\ \A j \in (i + 1)..m : ~Closes(Scripts[r][j], g)
  BY DEF IsOpen
<1>2. \A j \in (i + 1)..(m + 1) : j \in (i + 1)..m \/ j = m + 1
  OBVIOUS
<1>3. \A j \in (i + 1)..(m + 1) : ~Closes(Scripts[r][j], g)
  BY <1>1, <1>2
<1>4. i \in 1..(m + 1)
  OBVIOUS
<1> QED
  BY <1>1, <1>3, <1>4 DEF IsOpen

LEMMA ShowsNext ==
  ASSUME NEW s, NEW k, NEW r \in DOMAIN Scripts, NEW m, Shows(s, k, r, m), m + 1 <= Len(Scripts[r])
  PROVE  Shows(Apply(s, k, m + 1, Scripts[r][m + 1]), k, r, m + 1)
<1> DEFINE ev == Scripts[r][m + 1]
           t == Apply(s, k, m + 1, ev)
<1>1. m \in Nat /\ m + 1 \in 0..Len(Scripts[r]) /\ m + 1 \in DOMAIN Scripts[r] /\ m # Len(Scripts[r])
  BY ScriptIs DEF Shows
<1>2. t.events = [i \in 1..(m + 1) |-> <<k, i>>]
  <2>1. t.events = Append(s.events, <<k, m + 1>>)
    BY DEF Apply
  <2>2. s.events = [i \in 1..m |-> <<k, i>>]
    BY DEF Shows
  <2>3. Append([i \in 1..m |-> <<k, i>>], <<k, m + 1>>) = [i \in 1..(m + 1) |-> <<k, i>>]
    BY <1>1
  <2> QED
    BY <2>1, <2>2, <2>3
<1>3. t.status \in {"done", "error"} => m + 1 = Len(Scripts[r])
  <2>1. t.status = RunStatus(s.status, ev)
    BY DEF Apply
  <2>2. Ends(ev) => m + 1 = Len(Scripts[r])
    BY <1>1, ScriptsAssumption
  <2>3. s.status \notin {"done", "error"}
    BY <1>1 DEF Shows
  <2> HIDE DEF ev, t
  <2> QED
    BY <2>1, <2>2, <2>3 DEF RunStatus, Ends
<1>4. ASSUME NEW g \in DOMAIN t.stages, t.stages[g] = "running" PROVE IsOpen(r, m + 1, g)
  <2>1. CASE g \in DOMAIN s.stages /\ s.stages[g] = "running" /\ ~Closes(ev, g)
    <3>1. IsOpen(r, m, g)
      BY <2>1 DEF Shows
    <3> QED
      BY <1>1, <2>1, <3>1, StaysOpen
  <2>2. CASE StartsStage(ev) /\ ev.stage = g
    <3>1. m + 1 \in 1..(m + 1) /\ (m + 1 + 1)..(m + 1) = {}
      BY <1>1
    <3> QED
      BY <2>2, <3>1 DEF IsOpen
  <2>3. \/ g \in DOMAIN s.stages /\ s.stages[g] = "running" /\ ~Closes(ev, g)
        \/ StartsStage(ev) /\ ev.stage = g
    <3>1. t.stages = IF ev.stage = "run" THEN s.stages
                     ELSE [h \in DOMAIN s.stages \cup {ev.stage} |->
                             IF h = ev.stage THEN StageStatus(StageOf(s, h), ev.kind) ELSE s.stages[h]]
      BY DEF Apply
    <3>2. CASE ev.stage # "run" /\ g = ev.stage
      <4>1. StageStatus(StageOf(s, g), ev.kind) = "running"
        BY <1>4, <3>1, <3>2
      <4>2. \/ ev.kind = "start"
            \/ StageOf(s, g) = "running" /\ ev.kind \notin {"end", "warn", "error"}
        <5> HIDE DEF ev
        <5> QED
          BY <4>1 DEF StageStatus
      <4> QED
        BY <3>2, <4>2 DEF StartsStage, Closes, StageOf
    <3>3. CASE ev.stage # "run" /\ g # ev.stage
      BY <1>4, <3>1, <3>3 DEF Closes
    <3>4. CASE ev.stage = "run" /\ g # "run"
      BY <1>4, <3>1, <3>4 DEF Closes
    <3>5. CASE ev.stage = "run" /\ g = "run"
      BY <3>1, <3>5 DEF Shows
    <3> QED
      BY <3>2, <3>3, <3>4, <3>5
  <2> QED
    BY <2>1, <2>2, <2>3
<1>5. "run" \notin DOMAIN t.stages
  BY DEF Apply, Shows
<1> QED
  BY <1>1, <1>2, <1>3, <1>4, <1>5 DEF Shows

(* What ApplyAll folds into the screen, one event after the other. *)
Next1(up, s, k, r, ns, i) == IF i = 0 THEN s ELSE Apply(up[i - 1], k, ns[i], Scripts[r][ns[i]])
FoldsTo(up, s, k, r, ns, c) == up = [i \in 0..c |-> Next1(up, s, k, r, ns, i)]

LEMMA FoldExists ==
  ASSUME NEW s, NEW k, NEW r, NEW ns, NEW c \in Nat
  PROVE  \E up : FoldsTo(up, s, k, r, ns, c)
<1> DEFINE G == {n \in Nat : \E up : FoldsTo(up, s, k, r, ns, n)}
<1>1. 0 \in G
  <2> DEFINE up == [i \in 0..0 |-> s]
  <2>1. up = [i \in 0..0 |-> Next1(up, s, k, r, ns, i)]
    BY DEF Next1
  <2> QED
    BY <2>1 DEF FoldsTo
<1>2. ASSUME NEW n \in Nat, n \in G PROVE n + 1 \in G
  <2>1. PICK up : FoldsTo(up, s, k, r, ns, n)
    BY <1>2
  <2> DEFINE more == [i \in 0..(n + 1) |-> IF i = n + 1 THEN Next1(up, s, k, r, ns, i) ELSE up[i]]
  <2>2. ASSUME NEW i \in 0..(n + 1) PROVE more[i] = Next1(more, s, k, r, ns, i)
    <3>1. i # 0 => i - 1 \in 0..n /\ i - 1 \in 0..(n + 1) /\ i - 1 # n + 1
      OBVIOUS
    <3>2. i # 0 => more[i - 1] = up[i - 1]
      BY <3>1
    <3>3. i # n + 1 => i \in 0..n /\ up[i] = Next1(up, s, k, r, ns, i)
      <4>1. i # n + 1 => i \in 0..n
        OBVIOUS
      <4>2. \A j \in 0..n : up[j] = Next1(up, s, k, r, ns, j)
        BY <2>1 DEF FoldsTo
      <4> QED
        BY <4>1, <4>2
    <3>4. more[i] = Next1(up, s, k, r, ns, i)
      BY <3>3
    <3> HIDE DEF more
    <3> QED
      BY <3>2, <3>4 DEF Next1
  <2>3. more = [i \in 0..(n + 1) |-> more[i]]
    OBVIOUS
  <2> HIDE DEF more
  <2>4. FoldsTo(more, s, k, r, ns, n + 1)
    BY <2>2, <2>3 DEF FoldsTo
  <2> QED
    BY <2>4
<1> HIDE DEF G
<1>3. 0..c \subseteq G
  BY <1>1, <1>2, Upwards
<1> QED
  BY <1>3 DEF G

LEMMA ShowsAll ==
  ASSUME NEW s, NEW k, NEW r \in DOMAIN Scripts, NEW m \in Nat, NEW c \in Nat,
         Shows(s, k, r, m), m + c <= Len(Scripts[r]),
         NEW ns, ns = [i \in 1..c |-> m + i]
  PROVE  Shows(ApplyAll(s, k, r, ns), k, r, m + c)
<1>1. Len(ns) = c
  OBVIOUS
<1>2. PICK up : FoldsTo(up, s, k, r, ns, c) /\ ApplyAll(s, k, r, ns) = up[c]
  <2> DEFINE F == CHOOSE up : up = [i \in 0..Len(ns) |->
                    IF i = 0 THEN s ELSE Apply(up[i - 1], k, ns[i], Scripts[r][ns[i]])]
  <2>1. ApplyAll(s, k, r, ns) = F[c]
    BY <1>1 DEF ApplyAll
  <2>2. \E up : up = [i \in 0..Len(ns) |->
                    IF i = 0 THEN s ELSE Apply(up[i - 1], k, ns[i], Scripts[r][ns[i]])]
    <3>1. PICK up : FoldsTo(up, s, k, r, ns, c)
      BY FoldExists
    <3>2. up = [i \in 0..Len(ns) |->
                  IF i = 0 THEN s ELSE Apply(up[i - 1], k, ns[i], Scripts[r][ns[i]])]
      BY <1>1, <3>1 DEF FoldsTo, Next1
    <3> QED
      BY <3>2
  <2>3. F = [i \in 0..Len(ns) |->
                    IF i = 0 THEN s ELSE Apply(F[i - 1], k, ns[i], Scripts[r][ns[i]])]
    BY <2>2
  <2> HIDE DEF F
  <2>4. FoldsTo(F, s, k, r, ns, c)
    BY <1>1, <2>3 DEF FoldsTo, Next1
  <2> QED
    BY <2>1, <2>4
<1>3. \A i \in 0..c : up[i] = Next1(up, s, k, r, ns, i)
  BY <1>2 DEF FoldsTo
<1> DEFINE G == {n \in Nat : n <= c => Shows(up[n], k, r, m + n)}
<1>4. 0 \in G
  <2>1. up[0] = s /\ m + 0 = m
    <3>1. 0 \in 0..c /\ m + 0 = m
      OBVIOUS
    <3>2. up[0] = Next1(up, s, k, r, ns, 0)
      BY <1>3, <3>1
    <3> QED
      BY <3>1, <3>2 DEF Next1
  <2> QED
    BY <2>1
<1>5. ASSUME NEW n \in Nat, n < c /\ n \in G PROVE n + 1 \in G
  <2>1. Shows(up[n], k, r, m + n) /\ (m + n) + 1 <= Len(Scripts[r])
    BY <1>5, ScriptIs
  <2>2. n + 1 \in 0..c /\ n + 1 # 0 /\ (n + 1) - 1 = n /\ n + 1 \in 1..c
    BY <1>5
  <2>3. ns[n + 1] = (m + n) + 1
    BY <2>2
  <2>4. up[n + 1] = Apply(up[n], k, (m + n) + 1, Scripts[r][(m + n) + 1])
    BY <1>3, <2>2, <2>3 DEF Next1
  <2>5. Shows(up[n + 1], k, r, (m + n) + 1)
    BY <2>1, <2>4, ShowsNext
  <2>6. (m + n) + 1 = m + (n + 1)
    OBVIOUS
  <2> QED
    BY <2>5, <2>6
<1> HIDE DEF G
<1>6. 0..c \subseteq G
  BY <1>4, <1>5, Upwards
<1>7. c \in G
  BY <1>6
<1> QED
  BY <1>2, <1>7 DEF G

------------------------------------------------------------------------------
(* A source goes on.                                                        *)

(* Source k becomes s and the screen is as far along as s is. *)
Advances(k, s) ==
  /\ Active(src[k]) /\ Becomes(k, s) /\ SourceOK(s) /\ s.run = src[k].run
  /\ s.state # "stopped" /\ (~Active(s) => s.state = "over")
  /\ Shows(screen, k, src[k].run, src[k].out) => Shows(screen', k, src[k].run, s.out)
  /\ UNCHANGED <<starts, overlapped>>

LEMMA FinishIsOK ==
  ASSUME NEW x, SourceOK(x), x.state = "open"
  PROVE  /\ SourceOK(Finish(x)) /\ Finish(x).run = x.run /\ Finish(x).out = x.out
         /\ Finish(x).state \in {"over", "closed"}
<1> DEFINE s == Finish(x)
<1>1. /\ x \in SourceSet
      /\ "over" \in Values /\ "closed" \in Values /\ TRUE \in Values
      /\ "state" \in Fields /\ "finishing" \in Fields
  BY DEF SourceOK, Values, States, Fields
<1>2. s \in SourceSet
  <2>1. [x EXCEPT !.state = "over"] \in SourceSet
    BY <1>1, Changed
  <2>2. [x EXCEPT !.state = "closed"] \in SourceSet
    BY <1>1, Changed
  <2>3. [[x EXCEPT !.state = "closed"] EXCEPT !.finishing = TRUE] \in SourceSet
    BY <1>1, <2>2, Changed
  <2> QED
    BY <2>1, <2>3 DEF Finish
<1>3. /\ s.kind = x.kind /\ s.run = x.run /\ s.last = x.last /\ s.out = x.out
      /\ s.queue = x.queue /\ s.timer = x.timer
      /\ s.finishing \in {TRUE, x.finishing}
      /\ s.state = IF x.queue = <<>> /\ ~x.timer THEN "over" ELSE "closed"
  BY <1>1 DEF Finish, SourceSet, Fields
<1> HIDE DEF s
<1>4. Typed(s)
  BY <1>3 DEF SourceOK, Typed, States
<1>5. SourceOK(s)
  BY <1>2, <1>3, <1>4 DEF SourceOK, Active
<1>6. SourceOK(s) /\ s.run = x.run /\ s.out = x.out /\ s.state \in {"over", "closed"}
  BY <1>3, <1>5
<1> QED
  BY <1>6 DEF s

LEMMA GivenUpAdvances ==
  ASSUME SourcesOK, NEW k \in DOMAIN src, GivenUp(k)
  PROVE  \E s : Advances(k, s)
<1>1. SourceOK(src[k]) /\ src[k].state = "open"
  BY DEF SourcesOK, GivenUp
<1>2. Becomes(k, Finish(src[k])) /\ screen' = screen /\ UNCHANGED <<starts, overlapped>>
  BY DEF GivenUp
<1> QED
  BY <1>1, <1>2, FinishIsOK DEF Advances, Active

(* What came last went straight through, or waits at the end of the queue. *)
LEMMA PushedIsOK ==
  ASSUME NEW x, SourceOK(x), x.state = "open", x.kind = "live", x.last + 1 <= Len(Scripts[x.run]),
         NEW held \in BOOLEAN
  PROVE  LET s == Pushed([x EXCEPT !.last = x.last + 1], x.last + 1, held) IN
         /\ SourceOK(s) /\ s.state = "open" /\ s.run = x.run
         /\ s.out = x.out \/ (s.out = x.out + 1 /\ x.last = x.out)
<1> DEFINE n == x.last + 1
           seen == [x EXCEPT !.last = n]
           s == Pushed(seen, n, held)
<1>1. /\ x \in SourceSet /\ Typed(x) /\ x.out <= x.last
      /\ x.queue = [i \in 1..(x.last - x.out) |-> x.out + i]
      /\ ~x.timer => x.queue = <<>>
  BY DEF SourceOK, Active
<1>2. x.last \in Nat /\ x.out \in Nat /\ n \in Nat /\ x.queue \in Seq(Nat)
  BY <1>1 DEF Typed
<1>3. /\ {n, x.out + 1} \cup BOOLEAN \cup {Append(x.queue, n), <<n>>} \subseteq Values
      /\ {"last", "queue", "timer", "out"} \subseteq Fields
  <2>1. Append(x.queue, n) \in Seq(Nat) /\ <<n>> \in Seq(Nat)
    BY <1>2
  <2> HIDE DEF n
  <2>2. n \in Nat /\ x.out + 1 \in Nat
    BY <1>2
  <2>3. {n, x.out + 1} \subseteq Nat /\ {Append(x.queue, n), <<n>>} \subseteq Seq(Nat)
    BY <2>1, <2>2
  <2>4. Nat \cup Seq(Nat) \cup BOOLEAN \subseteq Values
    BY Zenon DEF Values
  <2>5. {"last", "queue", "timer", "out"} \subseteq Fields
    BY DEF Fields
  <2> QED
    BY <2>3, <2>4, <2>5, Zenon
<1> HIDE DEF n
<1>4. seen \in SourceSet
  BY <1>1, <1>3, Changed
<1>5. s \in SourceSet
  <2>1. [seen EXCEPT !.queue = Append(x.queue, n)] \in SourceSet /\ [seen EXCEPT !.queue = <<n>>] \in SourceSet
        /\ [seen EXCEPT !.out = x.out + 1] \in SourceSet
    BY <1>3, <1>4, Changed
  <2>2. [[seen EXCEPT !.queue = <<n>>] EXCEPT !.timer = TRUE] \in SourceSet
    BY <1>3, <2>1, Changed
  <2>3. seen.queue = x.queue /\ seen.out = x.out
    BY <1>1 DEF SourceSet, Fields
  <2>4. s \in {[seen EXCEPT !.queue = Append(seen.queue, n)],
               [[seen EXCEPT !.queue = <<n>>] EXCEPT !.timer = TRUE], [seen EXCEPT !.out = seen.out + 1]}
    BY DEF Pushed
  <2> QED
    BY <2>1, <2>2, <2>3, <2>4
<1>6. /\ s.kind = x.kind /\ s.run = x.run /\ s.last = n /\ s.finishing = x.finishing
      /\ s.state = "open"
      /\ \/ x.timer /\ s.timer = x.timer /\ s.out = x.out /\ s.queue = Append(x.queue, n)
         \/ ~x.timer /\ s.timer = TRUE /\ s.out = x.out /\ s.queue = <<n>>
         \/ ~x.timer /\ s.timer = x.timer /\ s.out = x.out + 1 /\ s.queue = x.queue
  BY <1>1 DEF Pushed, SourceSet, Fields
<1>7. ~x.timer => x.last = x.out
  <2> SUFFICES ASSUME ~x.timer, x.last # x.out PROVE FALSE
    OBVIOUS
  <2>1. x.last - x.out \in Nat \ {0} /\ x.queue = <<>>
    BY <1>1, <1>2
  <2>2. Len([i \in 1..(x.last - x.out) |-> x.out + i]) = x.last - x.out
    BY <2>1
  <2> QED
    BY <1>1, <2>1, <2>2
<1>8. s.queue = [i \in 1..(n - s.out) |-> s.out + i]
  <2>1. CASE x.timer
    <3>1. Append([i \in 1..(x.last - x.out) |-> x.out + i], n) = [i \in 1..(n - x.out) |-> x.out + i]
      <4>1. x.last - x.out \in Nat /\ n - x.out = (x.last - x.out) + 1 /\ n = x.out + ((x.last - x.out) + 1)
        BY <1>1, <1>2 DEF n
      <4> QED
        BY <4>1
    <3>2. s.queue = Append(x.queue, n) /\ s.out = x.out
      BY <1>6, <2>1
    <3> HIDE DEF s
    <3> QED
      BY <1>1, <3>1, <3>2
  <2>2. CASE ~x.timer
    <3>1. x.queue = <<>> /\ x.last = x.out /\ n = x.out + 1
      BY <1>1, <1>7, <2>2 DEF n
    <3>2. <<n>> = [i \in 1..1 |-> x.out + i] /\ <<>> = [i \in 1..0 |-> x.out + 1 + i]
      BY <3>1
    <3>3. n - x.out = 1 /\ n - (x.out + 1) = 0
      BY <1>2, <3>1
    <3>4. (s.out = x.out /\ s.queue = <<n>>) \/ (s.out = x.out + 1 /\ s.queue = <<>>)
      BY <1>6, <2>2, <3>1
    <3> HIDE DEF s
    <3> QED
      BY <3>2, <3>3, <3>4
  <2> QED
    BY <2>1, <2>2
<1> HIDE DEF s
<1>9. s.queue \in Seq(Nat) /\ s.timer \in BOOLEAN /\ s.out \in Nat /\ s.out <= n
      /\ (~s.timer => s.queue = <<>>)
  <2>1. Append(x.queue, n) \in Seq(Nat) /\ <<n>> \in Seq(Nat) /\ x.out <= n /\ x.out + 1 \in Nat
    BY <1>1, <1>2 DEF n
  <2>2. ~x.timer => x.out + 1 <= n
    BY <1>2, <1>7 DEF n
  <2> QED
    BY <1>1, <1>2, <1>6, <2>1, <2>2 DEF Typed
<1>10. Typed(s)
  BY <1>1, <1>2, <1>6, <1>9 DEF Typed
<1>11. n <= Len(Scripts[s.run])
  BY <1>6 DEF n
<1>12. SourceOK(s) /\ s.state = "open" /\ s.run = x.run
       /\ (s.out = x.out \/ (s.out = x.out + 1 /\ x.last = x.out))
  BY <1>5, <1>6, <1>7, <1>8, <1>9, <1>10, <1>11 DEF SourceOK, Active
<1> QED
  BY <1>12 DEF s, n

LEMMA ReceiveAdvances ==
  ASSUME SourcesOK, NEW k \in DOMAIN src, NEW n \in 1..Len(Script(k)), n <= src[k].last + 1, Receive(k, n)
  PROVE  \E s : Advances(k, s)
<1> DEFINE x == src[k]
           ev == Script(k)[n]
           seen == [x EXCEPT !.last = n]
<1>1. SourceOK(x) /\ x.state = "open" /\ x.kind = "live" /\ x.last \in Nat /\ x.out \in Nat
  BY DEF SourcesOK, Receive, Live, SourceOK, Typed
<1>2. n = x.last + 1 /\ n <= Len(Scripts[x.run]) /\ x.run \in DOMAIN Scripts
  <2>1. x.run \in DOMAIN Scripts /\ n > x.last
    BY <1>1 DEF SourceOK, Typed, Receive, Fresh
  <2>2. Len(Scripts[x.run]) \in Nat
    BY <2>1, ScriptIs
  <2> QED
    BY <1>1, <2>1, <2>2 DEF Script
<1>3. PICK held \in BOOLEAN :
        LET after == Pushed(seen, n, held) IN
        /\ Becomes(k, IF Ends(ev) THEN Finish(after) ELSE after)
        /\ screen' = IF after.out > x.out THEN Apply(screen, k, n, ev) ELSE screen
  BY DEF Receive
<1> DEFINE after == Pushed(seen, n, held)
           s == IF Ends(ev) THEN Finish(after) ELSE after
<1>4. /\ SourceOK(after) /\ after.state = "open" /\ after.run = x.run
      /\ after.out = x.out \/ (after.out = x.out + 1 /\ x.last = x.out)
  BY <1>1, <1>2, PushedIsOK
<1>5. /\ Becomes(k, s)
      /\ screen' = IF after.out > x.out THEN Apply(screen, k, n, ev) ELSE screen
  BY <1>3
<1> HIDE DEF after
<1>6. SourceOK(s) /\ s.run = x.run /\ s.out = after.out /\ s.state \in {"open", "over", "closed"}
  BY <1>4, FinishIsOK
<1> HIDE DEF s
<1>7. ASSUME Shows(screen, k, x.run, x.out) PROVE Shows(screen', k, x.run, s.out)
  <2>1. CASE after.out = x.out
    BY <1>1, <1>5, <1>6, <1>7, <2>1
  <2>2. CASE after.out = x.out + 1 /\ x.last = x.out
    <3>1. screen' = Apply(screen, k, x.out + 1, Scripts[x.run][x.out + 1])
      BY <1>1, <1>2, <1>5, <2>2 DEF Script
    <3> QED
      BY <1>2, <1>6, <1>7, <2>2, <3>1, ShowsNext
  <2> QED
    BY <1>4, <2>1, <2>2
<1>8. UNCHANGED <<starts, overlapped>>
  BY DEF Receive
<1> QED
  BY <1>1, <1>5, <1>6, <1>7, <1>8 DEF Advances, Active

(* The timer lets the first c of the queue go. *)
LEMMA ReleasedIs ==
  ASSUME NEW k \in DOMAIN src, SourceOK(src[k]), Active(src[k])
  PROVE  \E c \in 0..(src[k].last - src[k].out) :
           Releasable(k) = [i \in 1..c |-> src[k].out + i]
<1> DEFINE x == src[k]
           q == x.queue
           d == x.last - x.out
           later == {i \in DOMAIN q : i > 1 /\ StartsStage(Script(k)[q[i]])}
<1>1. q = [i \in 1..d |-> x.out + i] /\ x.last \in Nat /\ x.out \in Nat /\ d \in Nat
  BY DEF SourceOK, Typed
<1> HIDE DEF d
<1>2. DOMAIN q = 1..d /\ Len(q) = d
  BY <1>1
<1>3. CASE later = {}
  <2>1. Releasable(k) = q
    BY <1>3 DEF Releasable
  <2>2. d \in 0..d
    BY <1>1
  <2> QED
    BY <1>1, <2>1, <2>2 DEF d
<1>4. CASE later # {}
  <2> DEFINE m == CHOOSE i \in later : \A j \in later : i <= j
  <2>1. later \in SUBSET Nat
    BY <1>2
  <2>2. m \in later
    <3> HIDE DEF later
    <3>1. \E i \in later : \A j \in later : i <= j
      BY <1>4, <2>1, LeastOf
    <3> QED
      BY <3>1
  <2>3. Releasable(k) = SubSeq(q, 1, m - 1)
    BY <1>4 DEF Releasable
  <2>4. m \in 1..d /\ m > 1
    BY <1>2, <2>2
  <2> HIDE DEF m, later
  <2>5. m - 1 \in 0..d
    BY <1>1, <2>4
  <2>6. SubSeq(q, 1, m - 1) = [i \in 1..(m - 1) |-> x.out + i]
    <3>1. q \in Seq(Nat)
      BY DEF SourceOK, Typed
    <3>2. \A i \in 1..(m - 1) : i \in 1..d
      BY <1>1, <2>4
    <3>3. SubSeq(q, 1, m - 1) = [i \in 1..(m - 1) |-> q[i]]
      BY <1>1, <1>2, <2>4, <2>5, <3>1
    <3>4. \A i \in 1..(m - 1) : q[i] = x.out + i
      BY <1>1, <3>2
    <3> QED
      BY <3>3, <3>4
  <2> QED
    BY <2>3, <2>5, <2>6 DEF d
<1> QED
  BY <1>3, <1>4

LEMMA TimerAdvances ==
  ASSUME SourcesOK, NEW k \in DOMAIN src, TimerFires(k)
  PROVE  \E s : Advances(k, s)
<1> DEFINE x == src[k]
           q == x.queue
           d == x.last - x.out
<1>1. /\ SourceOK(x) /\ Active(x) /\ x \in SourceSet /\ Typed(x)
      /\ q = [i \in 1..d |-> x.out + i] /\ x.last \in Nat /\ x.out \in Nat /\ d \in Nat
      /\ x.last <= Len(Scripts[x.run]) /\ x.run \in DOMAIN Scripts /\ x.kind = "live"
  BY DEF SourcesOK, SourceOK, Typed, TimerFires, Live
<1>2. PICK c \in 0..d : Releasable(k) = [i \in 1..c |-> x.out + i]
  BY <1>1, ReleasedIs
<1> DEFINE left == SubSeq(q, c + 1, d)
           rest == [[x EXCEPT !.queue = left] EXCEPT !.timer = (left # <<>>)]
           after == [rest EXCEPT !.out = x.out + c]
           over == [[after EXCEPT !.state = "over"] EXCEPT !.finishing = FALSE]
           s == IF left = <<>> /\ after.finishing THEN over ELSE after
<1>3. Len(Releasable(k)) = c /\ Len(q) = d
  BY <1>1, <1>2
<1>4. Becomes(k, s) /\ screen' = ApplyAll(screen, k, x.run, Releasable(k))
      /\ UNCHANGED <<starts, overlapped>>
  BY <1>3, Zenon DEF TimerFires
<1>5. left = [i \in 1..(d - c) |-> x.out + c + i] /\ left \in Seq(Nat)
  <2>1. q \in Seq(Nat) /\ c \in Nat /\ c <= d
    BY <1>1, <1>2 DEF Typed
  <2>2. left = [i \in 1..(d - c) |-> q[c + i]]
    BY <1>1, <1>3, <2>1
  <2>3. \A i \in 1..(d - c) : c + i \in 1..d
    BY <1>1, <2>1
  <2>4. \A i \in 1..(d - c) : q[c + i] = x.out + c + i
    BY <1>1, <2>1, <2>3
  <2>5. left \in Seq(Nat)
    BY <1>1, <1>3, <2>1
  <2> QED
    BY <2>2, <2>4, <2>5
<1> HIDE DEF left
<1>6. /\ left \in Values /\ (left # <<>>) \in Values /\ x.out + c \in Values /\ "over" \in Values
      /\ FALSE \in Values /\ {"queue", "timer", "out", "state", "finishing"} \subseteq Fields
  <2>1. x.out + c \in Nat /\ (left # <<>>) \in BOOLEAN
    BY <1>1, <1>2
  <2>2. Nat \cup Seq(Nat) \cup BOOLEAN \cup States \subseteq Values
    BY Zenon DEF Values
  <2> QED
    BY <1>5, <2>1, <2>2 DEF Fields, States
<1>7. after \in SourceSet /\ over \in SourceSet
  <2>1. rest \in SourceSet
    BY <1>1, <1>6, Changed
  <2> HIDE DEF rest
  <2>2. after \in SourceSet
    BY <1>6, <2>1, Changed
  <2> HIDE DEF after
  <2> QED
    BY <1>6, <2>2, Changed
<1>8. /\ s.kind = x.kind /\ s.run = x.run /\ s.last = x.last /\ s.out = x.out + c /\ s.queue = left
      /\ s.timer = (left # <<>>) /\ s.finishing \in {x.finishing, FALSE}
      /\ s.state = x.state \/ (s.state = "over" /\ left = <<>>)
  BY <1>1 DEF SourceSet, Fields
<1>9. s \in SourceSet
  BY <1>7
<1> HIDE DEF s
<1>10. s.out <= s.last /\ s.out \in Nat
  BY <1>1, <1>2, <1>8
<1>11. s.queue = [i \in 1..(s.last - s.out) |-> s.out + i]
  <2>1. x.last - (x.out + c) = d - c
    BY <1>1, <1>2
  <2> QED
    BY <1>5, <1>8, <2>1
<1>12. Typed(s)
  <2>1. s.timer \in BOOLEAN
    BY <1>8
  <2>2. s.queue \in Seq(Nat)
    BY <1>5, <1>8
  <2>3. s.state \in States
    BY <1>1, <1>8 DEF Typed, States
  <2> QED
    BY <1>1, <1>8, <1>10, <2>1, <2>2, <2>3 DEF Typed
<1>13. SourceOK(s)
  BY <1>1, <1>8, <1>9, <1>10, <1>11, <1>12 DEF SourceOK, Active
<1>14. ASSUME Shows(screen, k, x.run, x.out) PROVE Shows(screen', k, x.run, s.out)
  <2>1. x.out + c <= Len(Scripts[x.run]) /\ c \in Nat
    BY <1>1, <1>2, ScriptIs
  <2> QED
    BY <1>1, <1>2, <1>4, <1>8, <1>14, <2>1, ShowsAll
<1> QED
  BY <1>1, <1>4, <1>8, <1>13, <1>14 DEF Advances, Active

LEMMA ReplayAdvances ==
  ASSUME SourcesOK, NEW k \in DOMAIN src, ReplayStep(k)
  PROVE  \E s : Advances(k, s)
<1> DEFINE x == src[k]
           n == x.last + 1
<1>1. /\ SourceOK(x) /\ Active(x) /\ x \in SourceSet /\ Typed(x)
      /\ x.queue = <<>> /\ x.last \in Nat /\ x.out = x.last
      /\ x.last <= Len(Scripts[x.run]) /\ x.run \in DOMAIN Scripts /\ x.kind = "replay" /\ x.timer
      /\ Len(Scripts[x.run]) \in Nat
  BY ScriptIs DEF SourcesOK, SourceOK, Typed, ReplayStep
<1>2. /\ n \in Values /\ "over" \in Values /\ FALSE \in Values
      /\ {"last", "out", "timer", "state"} \subseteq Fields
  BY <1>1 DEF Values, Fields, States
<1>3. UNCHANGED <<starts, overlapped>>
  BY DEF ReplayStep
<1>4. CASE n > Len(Script(k))
  <2> DEFINE s == [[x EXCEPT !.timer = FALSE] EXCEPT !.state = "over"]
  <2>1. Becomes(k, s) /\ screen' = screen
    BY <1>4 DEF ReplayStep
  <2>2. s \in SourceSet
    <3>1. [x EXCEPT !.timer = FALSE] \in SourceSet
      BY <1>1, <1>2, Changed
    <3> QED
      BY <1>2, <3>1, Changed
  <2>3. /\ s.kind = x.kind /\ s.run = x.run /\ s.last = x.last /\ s.out = x.out /\ s.queue = <<>>
        /\ s.timer = FALSE /\ s.finishing = x.finishing /\ s.state = "over"
    BY <1>1 DEF SourceSet, Fields
  <2> HIDE DEF s
  <2>4. SourceOK(s)
    <3>1. Typed(s)
      BY <1>1, <2>3 DEF Typed, States
    <3> QED
      BY <1>1, <2>2, <2>3, <3>1 DEF SourceOK, Active
  <2> QED
    BY <1>1, <1>3, <2>1, <2>3, <2>4 DEF Advances, Active
<1>5. CASE ~(n > Len(Script(k)))
  <2> DEFINE s == [[x EXCEPT !.last = n] EXCEPT !.out = n]
  <2>1. Becomes(k, s) /\ screen' = Apply(screen, k, n, Scripts[x.run][n])
    BY <1>5 DEF ReplayStep, Script
  <2>2. s \in SourceSet
    <3>1. [x EXCEPT !.last = n] \in SourceSet
      BY <1>1, <1>2, Changed
    <3> QED
      BY <1>2, <3>1, Changed
  <2>3. /\ s.kind = x.kind /\ s.run = x.run /\ s.last = n /\ s.out = n /\ s.queue = <<>>
        /\ s.timer = x.timer /\ s.finishing = x.finishing /\ s.state = x.state
    BY <1>1 DEF SourceSet, Fields
  <2>4. n \in Nat /\ n <= Len(Scripts[x.run]) /\ n - n = 0 /\ n = x.out + 1
    BY <1>1, <1>5 DEF Script
  <2> HIDE DEF s, n
  <2>5. <<>> = [i \in 1..0 |-> n + i]
    OBVIOUS
  <2>6. SourceOK(s)
    <3>1. Typed(s)
      BY <1>1, <2>3, <2>4 DEF Typed
    <3> QED
      BY <1>1, <2>2, <2>3, <2>4, <2>5, <3>1 DEF SourceOK, Active
  <2>7. Shows(screen, k, x.run, x.out) => Shows(screen', k, x.run, s.out)
    BY <1>1, <2>1, <2>3, <2>4, ShowsNext
  <2> QED
    BY <1>1, <1>3, <2>1, <2>3, <2>6, <2>7 DEF Advances, Active
<1> QED
  BY <1>4, <1>5

LEMMA FeedAdvances ==
  ASSUME SourcesOK, NEW k \in DOMAIN src, Feed(k)
  PROVE  \E s : Advances(k, s)
  BY GivenUpAdvances, ReceiveAdvances, TimerAdvances, ReplayAdvances DEF Feed

------------------------------------------------------------------------------
(* A source that was stopped is silent.                                     *)

(* A step adds a source, lets one go on, halts the one the button holds, or *)
(* leaves the sources alone.                                                *)
LEMMA SourcesStep ==
  ASSUME SourcesOK, [ConsoleNext]_consoleVars
  PROVE  SourcesOK' /\ \A k \in DOMAIN src : src[k].state = "stopped" => src'[k] = src[k]
<1>1. Len(src) + 1 \in Nat /\ NoSource \in Nat /\ running \in Nat
  BY DEF SourcesOK, NoSource
<1>2. CASE src' = src /\ running' \in Nat
  BY <1>2 DEF SourcesOK
<1>3. CASE ClickStop
  <2>1. src' = Halted /\ running' \in Nat
    BY <1>1, <1>3 DEF ClickStop, OnDone
  <2> QED
    BY <2>1, HaltedIsOK DEF SourcesOK
<1>4. CASE ClickRunLive
  BY <1>1, <1>2, <1>4 DEF ClickRunLive
<1>5. CASE ClickRunLocal
  <2>1. CASE UNCHANGED src /\ OnDone
    BY <1>1, <1>2, <2>1 DEF OnDone
  <2>2. CASE \E r \in DOMAIN Scripts : src' = Append(src, Played(r)) /\ running' = Len(src) + 1
    <3>1. PICK r \in DOMAIN Scripts : src' = Append(src, Played(r)) /\ running' = Len(src) + 1
      BY <2>2
    <3> QED
      BY <1>1, <3>1, PlayedIsOK, OneMoreSource
  <2> QED
    BY <1>5, <2>1, <2>2 DEF ClickRunLocal
<1>6. CASE OpenRun
  BY <1>1, <1>2, <1>6 DEF OpenRun
<1>7. ASSUME NEW r \in DOMAIN Scripts, StartAnswered(r)
      PROVE  SourcesOK' /\ \A k \in DOMAIN src : src[k].state = "stopped" => src'[k] = src[k]
  <2>1. src' = Append(src, Source("live", r)) /\ running' = Len(src) + 1
    BY <1>7 DEF StartAnswered
  <2> QED
    BY <1>1, <2>1, LiveIsOK, OneMoreSource
<1>8. ASSUME NEW r \in DOMAIN Scripts, PlayArrives(r)
      PROVE  SourcesOK' /\ \A k \in DOMAIN src : src[k].state = "stopped" => src'[k] = src[k]
  <2>1. src' = Append(Halted, Played(r)) /\ running' = Len(src) + 1
    BY <1>8 DEF PlayArrives
  <2> QED
    BY <1>1, <2>1, PlayedIsOK, OneMoreSource
<1>9. ASSUME NEW r \in DOMAIN Scripts, NEW upTo \in DOMAIN Scripts[r], ShowArrives(r, upTo)
      PROVE  SourcesOK' /\ \A k \in DOMAIN src : src[k].state = "stopped" => src'[k] = src[k]
  <2> DEFINE s == [Source("stored", r) EXCEPT !.last = upTo, !.out = upTo, !.state = "over"]
  <2>1. src' = Append(Halted, s) /\ running' \in Nat
    BY <1>1, <1>9 DEF ShowArrives, OnDone
  <2>2. SourceOK(s)
    BY StoredIsOK
  <2> HIDE DEF s
  <2> QED
    BY <2>1, <2>2, OneMoreSource
<1>10. CASE StartRefused
  BY <1>1, <1>2, <1>10 DEF StartRefused, OnDone
<1>11. CASE OpenFailed
  BY <1>1, <1>2, <1>11 DEF OpenFailed
<1>12. ASSUME NEW k \in DOMAIN src, Feed(k)
       PROVE  SourcesOK' /\ \A j \in DOMAIN src : src[j].state = "stopped" => src'[j] = src[j]
  <2>1. PICK s : Advances(k, s)
    BY <1>12, FeedAdvances
  <2> QED
    BY <2>1, SourceGoesOn DEF Advances, Active
<1>13. CASE Probe
  BY <1>1, <1>2, <1>13 DEF Probe
<1>14. CASE UNCHANGED consoleVars
  BY <1>1, <1>2, <1>14 DEF consoleVars
<1> QED
  BY <1>3, <1>4, <1>5, <1>6, <1>7, <1>8, <1>9, <1>10, <1>11, <1>12, <1>13, <1>14
  DEF ConsoleNext, Reader, Answers

LEMMA SourcesInit ==
  ASSUME ConsoleInit
  PROVE  SourcesOK
  BY DEF ConsoleInit, SourcesOK, NoSource

(* StoppedIsSilent, for any runs: a source that was stopped (LiveSource and *)
(* ReplaySource.stop, Pacer.stop in api.ts) has no timer left that could    *)
(* show anything, and no stream that is listened to.                        *)
THEOREM Silence == ConsoleSpec => StoppedIsSilent
<1>1. ConsoleInit => SourcesOK
  BY SourcesInit
<1>2. SourcesOK /\ [ConsoleNext]_consoleVars => SourcesOK'
  BY SourcesStep
<1>3. SourcesOK /\ [ConsoleNext]_consoleVars
      => [\A k \in DOMAIN src : src[k].state = "stopped" => src'[k] = src[k]]_src
  BY SourcesStep
<1> QED
  BY <1>1, <1>2, <1>3, PTL DEF ConsoleSpec, StoppedIsSilent

------------------------------------------------------------------------------
(* A screen that says the run is over shows the whole run.                  *)

(* The screen is empty and nothing was shown yet, or it is as far along as  *)
(* the one source that may still add to it.                                 *)
OnScreen ==
  \/ screen = EmptyState /\ \A k \in DOMAIN src : Active(src[k]) => src[k].out = 0
  \/ \E k \in DOMAIN src :
       /\ Shows(screen, k, src[k].run, src[k].out)
       /\ \A j \in DOMAIN src : Active(src[j]) => j = k

(* The button holds the only source that is active. *)
HeldOnly == \A k \in DOMAIN src : Active(src[k]) => k = running

ScreenOK ==
  /\ starts \in Nat /\ overlapped \in BOOLEAN
  /\ overlapped = FALSE =>
       /\ starts <= 1 /\ HeldOnly /\ OnScreen
       /\ starts = 1 => running = NoSource /\ screen = EmptyState

(* A new source takes a screen that shows what it has shown. *)
LEMMA TakesScreen ==
  ASSUME SourcesOK, HeldOnly, NEW s, SourceOK(s),
         \/ src' = Append(src, s) /\ running = NoSource
         \/ src' = Append(Halted, s),
         Shows(screen', Len(src) + 1, s.run, s.out),
         running' = Len(src) + 1 \/ ~Active(s)
  PROVE  HeldOnly' /\ OnScreen'
<1> DEFINE n == Len(src) + 1
<1>1. s \in SourceSet /\ n \in Nat /\ src \in Seq(SourceSet) /\ DOMAIN src = 1..Len(src) /\ Len(src) \in Nat
  BY DEF SourceOK, SourcesOK
<1>2. /\ DOMAIN src' = DOMAIN src \cup {n} /\ src'[n] = s
      /\ \A k \in DOMAIN src : ~Active(src'[k])
  <2>1. CASE src' = Append(src, s) /\ running = NoSource
    <3>1. \A k \in DOMAIN src : src'[k] = src[k] /\ ~Active(src[k])
      BY <1>1, <2>1 DEF HeldOnly, NoSource
    <3> QED
      BY <1>1, <2>1, <3>1
  <2>2. CASE src' = Append(Halted, s)
    <3>1. /\ Halted \in Seq(SourceSet) /\ DOMAIN Halted = DOMAIN src /\ Len(Halted) = Len(src)
          /\ \A k \in DOMAIN src : Active(Halted[k]) => Active(src[k]) /\ k # running
      BY HaltedIsOK
    <3>2. \A k \in DOMAIN src : ~Active(Halted[k])
      BY <3>1 DEF HeldOnly
    <3>3. \A k \in DOMAIN src : src'[k] = Halted[k]
      BY <1>1, <2>2, <3>1
    <3>4. DOMAIN src' = DOMAIN src \cup {n} /\ src'[n] = s
      BY <1>1, <2>2, <3>1
    <3> QED
      BY <3>2, <3>3, <3>4
  <2> QED
    BY <2>1, <2>2
<1>3. HeldOnly'
  BY <1>2 DEF HeldOnly
<1>4. Shows(screen', n, src'[n].run, src'[n].out) /\ \A j \in DOMAIN src' : Active(src'[j]) => j = n
  BY <1>2
<1>5. n \in DOMAIN src'
  BY <1>2
<1> HIDE DEF n
<1>6. (\E k \in DOMAIN src : /\ Shows(screen, k, src[k].run, src[k].out)
                             /\ \A j \in DOMAIN src : Active(src[j]) => j = k)'
  BY <1>4, <1>5
<1> QED
  BY <1>3, <1>6 DEF OnScreen

LEMMA FirstShown ==
  ASSUME NEW r \in DOMAIN Scripts, NEW k
  PROVE  Shows(ApplyAll(EmptyState, k, r, <<1>>), k, r, 1)
<1>1. <<1>> = [i \in 1..1 |-> 0 + i] /\ 0 + 1 = 1 /\ 0 + 1 <= Len(Scripts[r])
  BY ScriptIs
<1>2. Shows(EmptyState, k, r, 0)
  BY ShowsNothing
<1>3. Shows(ApplyAll(EmptyState, k, r, <<1>>), k, r, 0 + 1)
  BY <1>1, <1>2, ShowsAll
<1> QED
  BY <1>1, <1>3

LEMMA SomeShown ==
  ASSUME NEW r \in DOMAIN Scripts, NEW k, NEW upTo \in DOMAIN Scripts[r]
  PROVE  Shows(ApplyAll(EmptyState, k, r, [n \in 1..upTo |-> n]), k, r, upTo)
<1> DEFINE ns == [n \in 1..upTo |-> n]
<1>1. upTo \in Nat /\ 0 + upTo = upTo /\ 0 + upTo <= Len(Scripts[r])
  BY ScriptIs
<1>2. ns = [i \in 1..upTo |-> 0 + i]
  BY <1>1
<1>3. Shows(EmptyState, k, r, 0)
  BY ShowsNothing
<1> HIDE DEF ns
<1>4. Shows(ApplyAll(EmptyState, k, r, ns), k, r, 0 + upTo)
  BY <1>1, <1>2, <1>3, ShowsAll
<1> QED
  BY <1>1, <1>4 DEF ns

(* A source that goes on takes the screen along. *)
LEMMA ScreenGoesOn ==
  ASSUME SourcesOK, HeldOnly, OnScreen, NEW k \in DOMAIN src, NEW s, Advances(k, s)
  PROVE  HeldOnly' /\ OnScreen'
<1>1. src' = [src EXCEPT ![k] = s] /\ Active(src[k]) /\ k = running
      /\ (running' = running \/ ~Active(s))
      /\ s.run = src[k].run
  BY DEF Advances, Becomes, HeldOnly, Active
<1>2. /\ DOMAIN src' = DOMAIN src /\ src'[k] = s
      /\ \A j \in DOMAIN src : j # k => src'[j] = src[j] /\ ~Active(src[j])
  BY <1>1 DEF HeldOnly
<1>3. HeldOnly'
  BY <1>1, <1>2 DEF HeldOnly
<1>4. Shows(screen, k, src[k].run, src[k].out)
  <2>1. CASE screen = EmptyState /\ \A j \in DOMAIN src : Active(src[j]) => src[j].out = 0
    <3>1. src[k].out = 0 /\ src[k].run \in DOMAIN Scripts
      BY <1>1, <2>1 DEF SourcesOK, SourceOK, Typed
    <3> QED
      BY <2>1, <3>1, ShowsNothing
  <2>2. CASE \E j \in DOMAIN src : /\ Shows(screen, j, src[j].run, src[j].out)
                                   /\ \A i \in DOMAIN src : Active(src[i]) => i = j
    BY <1>1, <2>2
  <2> QED
    BY <2>1, <2>2 DEF OnScreen
<1>5. Shows(screen', k, src'[k].run, src'[k].out) /\ \A j \in DOMAIN src' : Active(src'[j]) => j = k
  <2>1. Shows(screen', k, s.run, s.out)
    BY <1>1, <1>4 DEF Advances
  <2> QED
    BY <1>2, <2>1
<1>6. (\E j \in DOMAIN src : /\ Shows(screen, j, src[j].run, src[j].out)
                             /\ \A i \in DOMAIN src : Active(src[i]) => i = j)'
  BY <1>2, <1>5
<1> QED
  BY <1>3, <1>6 DEF OnScreen

(* Clearing an empty screen, or stopping the run, leaves nothing active.    *)
LEMMA ScreenIsCleared ==
  ASSUME HeldOnly, running = NoSource, src \in Seq(SourceSet), src' = src, screen' = EmptyState
  PROVE  HeldOnly' /\ OnScreen'
<1>1. \A k \in DOMAIN src : ~Active(src[k])
  BY DEF HeldOnly, NoSource
<1> QED
  BY <1>1 DEF HeldOnly, OnScreen

LEMMA ScreenStaysHalted ==
  ASSUME SourcesOK, HeldOnly, OnScreen, src' = Halted, screen' = screen
  PROVE  HeldOnly' /\ OnScreen'
<1>1. /\ DOMAIN Halted = DOMAIN src
      /\ \A k \in DOMAIN src : /\ Halted[k].run = src[k].run /\ Halted[k].out = src[k].out
                               /\ Active(Halted[k]) => Active(src[k]) /\ k # running
  BY HaltedIsOK
<1>2. \A k \in DOMAIN Halted : ~Active(Halted[k])
  <2> SUFFICES ASSUME NEW k \in DOMAIN Halted, Active(Halted[k]) PROVE FALSE
    OBVIOUS
  <2>1. k \in DOMAIN src /\ Active(src[k]) /\ k # running
    BY <1>1, Zenon
  <2> QED
    BY <2>1 DEF HeldOnly
<1>3. \A k \in DOMAIN src' : ~Active(src'[k])
  BY <1>2
<1>4. HeldOnly'
  BY <1>3 DEF HeldOnly
<1>5. CASE screen = EmptyState
  <2>1. screen' = EmptyState /\ \A k \in DOMAIN src' : Active(src'[k]) => src'[k].out = 0
    BY <1>3, <1>5
  <2> QED
    BY <1>4, <2>1 DEF OnScreen
<1>6. CASE \E k \in DOMAIN src : Shows(screen, k, src[k].run, src[k].out)
  <2>1. PICK k \in DOMAIN src : Shows(screen, k, src[k].run, src[k].out)
    BY <1>6
  <2>2. k \in DOMAIN Halted /\ Halted[k].run = src[k].run /\ Halted[k].out = src[k].out
    BY <1>1, Zenon
  <2>3. k \in DOMAIN src' /\ Shows(screen', k, src'[k].run, src'[k].out)
    BY <2>1, <2>2
  <2>4. (\E j \in DOMAIN src : /\ Shows(screen, j, src[j].run, src[j].out)
                               /\ \A i \in DOMAIN src : Active(src[i]) => i = j)'
    BY <1>3, <2>3
  <2> QED
    BY <1>4, <2>4 DEF OnScreen
<1> QED
  BY <1>5, <1>6 DEF OnScreen

LEMMA ScreenInit ==
  ASSUME ConsoleInit
  PROVE  ScreenOK
<1>1. starts = 0 /\ src = <<>> /\ screen = EmptyState /\ overlapped = FALSE /\ DOMAIN src = {}
  BY DEF ConsoleInit
<1>2. HeldOnly /\ OnScreen
  BY <1>1 DEF HeldOnly, OnScreen
<1>3. starts \in Nat /\ starts <= 1 /\ starts # 1
  BY <1>1
<1>4. overlapped \in BOOLEAN
  BY <1>1, Zenon
<1> QED
  BY <1>2, <1>3, <1>4, Zenon DEF ScreenOK

(* What is put on the screen without overlapping found no start awaited. *)
LEMMA NoOverlap ==
  ASSUME ScreenOK, Overlap
  PROVE  overlapped' \in BOOLEAN /\ (overlapped' = FALSE => overlapped = FALSE /\ starts = 0)
<1>1. overlapped \in BOOLEAN /\ starts \in Nat /\ overlapped' = (overlapped \/ starts > 0)
  BY Zenon DEF ScreenOK, Overlap
<1>2. (starts > 0) = TRUE \/ starts = 0
  BY <1>1
<1>3. overlapped' \in BOOLEAN
  BY <1>1, Zenon
<1>4. overlapped = TRUE => overlapped' = TRUE
  BY <1>1, Zenon
<1>5. (starts > 0) = TRUE => overlapped' = TRUE
  BY <1>1, Zenon
<1>6. overlapped = TRUE \/ overlapped = FALSE
  BY <1>1
<1> QED
  BY <1>2, <1>3, <1>4, <1>5, <1>6, Zenon

LEMMA ScreenStep ==
  ASSUME SourcesOK, ScreenOK, [ConsoleNext]_consoleVars
  PROVE  ScreenOK'
<1>1. Len(src) + 1 \in Nat \ {0} /\ NoSource = 0 /\ running \in Nat /\ starts \in Nat
      /\ overlapped \in BOOLEAN /\ src \in Seq(SourceSet)
  BY DEF SourcesOK, ScreenOK, NoSource
<1>2. overlapped = FALSE => /\ starts <= 1 /\ HeldOnly /\ OnScreen
                            /\ starts = 1 => running = NoSource /\ screen = EmptyState
  BY DEF ScreenOK
<1>3. CASE ClickStop
  <2>1. /\ src' = Halted /\ running # NoSource /\ starts' = starts /\ screen' = screen
        /\ overlapped' = overlapped
    BY <1>3 DEF ClickStop
  <2>2. overlapped = FALSE => starts' # 1 /\ HeldOnly' /\ OnScreen'
    BY <1>2, <2>1, ScreenStaysHalted
  <2> QED
    BY <1>1, <1>2, <2>1, <2>2 DEF ScreenOK
<1>4. CASE ClickRunLive
  <2>0. Overlap
    BY <1>4 DEF ClickRunLive
  <2>1. /\ running = NoSource /\ running' = running /\ src' = src /\ screen' = EmptyState
        /\ starts' = starts + 1
    BY <1>4 DEF ClickRunLive
  <2>2. overlapped = FALSE => HeldOnly' /\ OnScreen'
    BY <1>1, <1>2, <2>1, ScreenIsCleared
  <2>3. overlapped' = FALSE => overlapped = FALSE /\ starts = 0
    BY <2>0, <2>1, NoOverlap
  <2>4. starts' \in Nat /\ overlapped' \in BOOLEAN
    BY <1>1, <2>0, <2>1, NoOverlap
  <2> QED
    BY <2>1, <2>2, <2>3, <2>4 DEF ScreenOK
<1>5. CASE ClickRunLocal
  <2>0. Overlap
    BY <1>5 DEF ClickRunLocal
  <2>1. /\ running = NoSource /\ starts' = starts
    BY <1>5 DEF ClickRunLocal
  <2>2. overlapped' = FALSE => overlapped = FALSE /\ starts' = 0
    BY <2>0, <2>1, NoOverlap
  <2>3. overlapped = FALSE => HeldOnly' /\ OnScreen'
    <3> SUFFICES ASSUME overlapped = FALSE PROVE HeldOnly' /\ OnScreen'
      OBVIOUS
    <3>1. CASE screen' = EmptyState /\ src' = src
      BY <1>1, <1>2, <2>1, <3>1, ScreenIsCleared
    <3>2. CASE \E r \in DOMAIN Scripts : /\ src' = Append(src, Played(r))
                                         /\ screen' = ApplyAll(EmptyState, Len(src) + 1, r, <<1>>)
                                         /\ running' = Len(src) + 1
      <4>1. PICK r \in DOMAIN Scripts : /\ src' = Append(src, Played(r))
                                        /\ screen' = ApplyAll(EmptyState, Len(src) + 1, r, <<1>>)
                                        /\ running' = Len(src) + 1
        BY <3>2
      <4>2. SourceOK(Played(r)) /\ Played(r).run = r /\ Played(r).out = 1
        BY PlayedIsOK
      <4>3. Shows(screen', Len(src) + 1, Played(r).run, Played(r).out)
        BY <4>1, <4>2, FirstShown
      <4> QED
        BY <1>2, <2>1, <4>1, <4>2, <4>3, TakesScreen
    <3> QED
      BY <1>5, <3>1, <3>2 DEF ClickRunLocal
  <2>4. starts' \in Nat /\ overlapped' \in BOOLEAN
    BY <1>1, <2>0, <2>1, NoOverlap
  <2> QED
    BY <2>2, <2>3, <2>4 DEF ScreenOK
<1>6. ASSUME UNCHANGED <<starts, src, running, screen, overlapped>> PROVE ScreenOK'
  <2>1. HeldOnly' = HeldOnly /\ OnScreen' = OnScreen
    BY <1>6 DEF HeldOnly, OnScreen
  <2> QED
    BY <1>1, <1>2, <1>6, <2>1 DEF ScreenOK
<1>7. ASSUME NEW r \in DOMAIN Scripts, StartAnswered(r) PROVE ScreenOK'
  <2> DEFINE s == Source("live", r)
  <2>1. /\ starts > 0 /\ starts' = starts - 1 /\ src' = Append(src, s) /\ running' = Len(src) + 1
        /\ screen' = screen /\ overlapped' = overlapped
    BY <1>7 DEF StartAnswered
  <2>2. SourceOK(s) /\ s.run = r /\ s.out = 0
    BY LiveIsOK DEF Source
  <2> HIDE DEF s
  <2>3. overlapped = FALSE => HeldOnly' /\ OnScreen' /\ starts' = 0
    <3> SUFFICES ASSUME overlapped = FALSE PROVE HeldOnly' /\ OnScreen' /\ starts' = 0
      OBVIOUS
    <3>1. starts = 1 /\ running = NoSource /\ screen = EmptyState /\ HeldOnly
      BY <1>1, <1>2, <2>1
    <3>2. Shows(screen', Len(src) + 1, s.run, s.out)
      BY <2>1, <2>2, <3>1, ShowsNothing
    <3>3. HeldOnly' /\ OnScreen'
      BY <2>1, <2>2, <3>1, <3>2, TakesScreen
    <3> QED
      BY <2>1, <3>1, <3>3
  <2>4. starts' \in Nat
    BY <1>1, <2>1
  <2> QED
    BY <1>1, <2>1, <2>3, <2>4 DEF ScreenOK
<1>8. ASSUME NEW r \in DOMAIN Scripts, PlayArrives(r) PROVE ScreenOK'
  <2>0. Overlap
    BY <1>8 DEF PlayArrives
  <2>1. /\ starts' = starts /\ src' = Append(Halted, Played(r)) /\ running' = Len(src) + 1
        /\ screen' = ApplyAll(EmptyState, Len(src) + 1, r, <<1>>)
       
    BY <1>8 DEF PlayArrives
  <2>2. SourceOK(Played(r)) /\ Played(r).run = r /\ Played(r).out = 1
    BY PlayedIsOK
  <2>3. Shows(screen', Len(src) + 1, Played(r).run, Played(r).out)
    BY <2>1, <2>2, FirstShown
  <2>4. overlapped = FALSE => HeldOnly' /\ OnScreen'
    BY <1>2, <2>1, <2>2, <2>3, TakesScreen
  <2>5. overlapped' = FALSE => overlapped = FALSE /\ starts' = 0
    BY <2>0, <2>1, NoOverlap
  <2>6. starts' \in Nat /\ overlapped' \in BOOLEAN
    BY <1>1, <2>0, <2>1, NoOverlap
  <2> QED
    BY <2>4, <2>5, <2>6 DEF ScreenOK
<1>9. ASSUME NEW r \in DOMAIN Scripts, NEW upTo \in DOMAIN Scripts[r], ShowArrives(r, upTo) PROVE ScreenOK'
  <2>0. Overlap
    BY <1>9 DEF ShowArrives
  <2> DEFINE s == [Source("stored", r) EXCEPT !.last = upTo, !.out = upTo, !.state = "over"]
  <2>1. /\ starts' = starts /\ src' = Append(Halted, s)
        /\ screen' = ApplyAll(EmptyState, Len(src) + 1, r, [n \in 1..upTo |-> n])
       
    BY <1>9 DEF ShowArrives
  <2>2. SourceOK(s) /\ ~Active(s) /\ s.run = r /\ s.out = upTo
    BY StoredIsOK
  <2> HIDE DEF s
  <2>3. Shows(screen', Len(src) + 1, s.run, s.out)
    BY <2>1, <2>2, SomeShown
  <2>4. overlapped = FALSE => HeldOnly' /\ OnScreen'
    BY <1>2, <2>1, <2>2, <2>3, TakesScreen
  <2>5. overlapped' = FALSE => overlapped = FALSE /\ starts' = 0
    BY <2>0, <2>1, NoOverlap
  <2>6. starts' \in Nat /\ overlapped' \in BOOLEAN
    BY <1>1, <2>0, <2>1, NoOverlap
  <2> QED
    BY <2>4, <2>5, <2>6 DEF ScreenOK
<1>10. CASE StartRefused
  <2>1. /\ starts > 0 /\ starts' = starts - 1 /\ src' = src /\ running' = NoSource /\ screen' = screen
        /\ overlapped' = overlapped
    BY <1>10 DEF StartRefused, OnDone
  <2>2. overlapped = FALSE => HeldOnly' /\ OnScreen' /\ starts' = 0
    <3> SUFFICES ASSUME overlapped = FALSE PROVE HeldOnly' /\ OnScreen' /\ starts' = 0
      OBVIOUS
    <3>1. starts = 1 /\ running = NoSource /\ screen = EmptyState /\ HeldOnly
      BY <1>1, <1>2, <2>1
    <3> QED
      BY <1>1, <2>1, <3>1, ScreenIsCleared
  <2>3. starts' \in Nat
    BY <1>1, <2>1
  <2> QED
    BY <1>1, <2>1, <2>2, <2>3 DEF ScreenOK
<1>11. ASSUME NEW k \in DOMAIN src, Feed(k) PROVE ScreenOK'
  <2>1. PICK s : Advances(k, s)
    BY <1>11, FeedAdvances
  <2>2. starts' = starts /\ overlapped' = overlapped /\ Active(src[k])
    BY <2>1 DEF Advances
  <2>3. overlapped = FALSE => HeldOnly' /\ OnScreen'
    BY <1>2, <2>1, ScreenGoesOn
  <2>4. overlapped = FALSE => starts # 1
    <3> SUFFICES ASSUME overlapped = FALSE, starts = 1 PROVE FALSE
      OBVIOUS
    <3>1. k = 0 /\ k \in 1..Len(src)
      BY <1>1, <1>2, <2>2 DEF HeldOnly
    <3> QED
      BY <3>1
  <2> QED
    BY <1>1, <1>2, <2>2, <2>3, <2>4 DEF ScreenOK
<1>12. CASE OpenRun \/ OpenFailed \/ Probe \/ UNCHANGED consoleVars
  BY <1>6, <1>12 DEF OpenRun, OpenFailed, Probe, consoleVars
<1> QED
  BY <1>3, <1>4, <1>5, <1>7, <1>8, <1>9, <1>10, <1>11, <1>12 DEF ConsoleNext, Reader, Answers

LEMMA ScreenIsWhole ==
  ASSUME SourcesOK, ScreenOK
  PROVE  OverMeansWhole
<1> SUFFICES ASSUME ~overlapped, screen.status \in {"done", "error"}
             PROVE  /\ Len(screen.events) = Len(Script(screen.events[1][1]))
                    /\ \A g \in DOMAIN screen.stages : screen.stages[g] # "running"
  BY DEF OverMeansWhole
<1>1. overlapped = FALSE
  BY DEF ScreenOK
<1>2. screen # EmptyState
  BY DEF EmptyState
<1>3. PICK k \in DOMAIN src : Shows(screen, k, src[k].run, src[k].out)
  BY <1>1, <1>2 DEF ScreenOK, OnScreen
<1> DEFINE r == src[k].run
           m == src[k].out
<1>4. r \in DOMAIN Scripts /\ m = Len(Scripts[r]) /\ m \in Nat \ {0} /\ DOMAIN Scripts[r] = 1..m
  BY <1>3, ScriptIs DEF SourcesOK, SourceOK, Typed, Shows
<1>5. screen.events = [i \in 1..m |-> <<k, i>>]
  BY <1>3 DEF Shows
<1>6. Script(k) = Scripts[r]
  BY DEF Script
<1> HIDE DEF r, m
<1>7. Len(screen.events) = m /\ screen.events[1][1] = k
  BY <1>4, <1>5
<1>8. ASSUME NEW g \in DOMAIN screen.stages, screen.stages[g] = "running" PROVE FALSE
  <2>1. IsOpen(r, m, g)
    BY <1>3, <1>8 DEF Shows, r, m
  <2>2. PICK i \in 1..m : /\ StartsStage(Scripts[r][i]) /\ Scripts[r][i].stage = g
                          /\ \A j \in (i + 1)..m : ~Closes(Scripts[r][j], g)
    BY <2>1 DEF IsOpen
  <2>3. PICK j \in DOMAIN Scripts[r] : j > i /\ Closes(Scripts[r][j], g)
    BY <1>4, <2>2, ScriptsAssumption
  <2>4. j \in (i + 1)..m
    BY <1>4, <2>3
  <2> QED
    BY <2>2, <2>3, <2>4
<1> QED
  BY <1>4, <1>6, <1>7, <1>8

(* OverMeansWhole, for any runs: unless something was put on the screen     *)
(* while a start was awaited (attach and the buttons of console.ts do not   *)
(* look), a status of done or error stands above the whole run: the pacer   *)
(* holds nothing back any more, and no stage is left spinning.              *)
THEOREM WholeRun == ConsoleSpec => []OverMeansWhole
<1>1. ConsoleInit => SourcesOK /\ ScreenOK
  BY SourcesInit, ScreenInit
<1>2. SourcesOK /\ ScreenOK /\ [ConsoleNext]_consoleVars => (SourcesOK /\ ScreenOK)'
  BY SourcesStep, ScreenStep
<1>3. SourcesOK /\ ScreenOK => OverMeansWhole
  BY ScreenIsWhole
<1> QED
  BY <1>1, <1>2, <1>3, PTL DEF ConsoleSpec
=============================================================================
