---------------------------- MODULE CellSchedule ----------------------------
(***************************************************************************)
(* The unattended schedule of experiment cells: run_schedule() works       *)
(* through its jobs round by round, run_cell() answers the items of one    *)
(* cell and appends a line for each, both throttled by what the cost log   *)
(* says of the last 24 hours (experiments/scheduler.py, run_matrix.py).    *)
(*                                                                         *)
(* The process can die anywhere, even within a line, and is started again  *)
(* by hand; between two runs config/models.yaml may name another model for *)
(* a tier.  An item is its place in the cell; the text of an answer, the   *)
(* heartbeat and the status file are left out.                             *)
(***************************************************************************)
EXTENDS Integers, Sequences, FiniteSets

CONSTANTS
  Cells,      (* system x backbone x population x setting x split          *)
  Order,      (* the jobs of the schedule, a sequence of cells             *)
  Size,       (* Size[c]: how many items c has                             *)
  Models,     (* what a tier may resolve to                                *)
  Metered,    (* those of them with a daily cap                            *)
  FirstModel, (* FirstModel[c]: what c's tier resolves to at first         *)
  Limit,      (* int(daily_cap * (1 - margin))                             *)
  Cost,       (* no item takes more tokens than this                       *)
  MaxErrors, MaxRounds,  (* max_errors, max_rounds                         *)
  Budget      (* Budget[b]: how often b may happen in a behaviour          *)

Bounded == {"error",   (* answers that fail with a BackendError             *)
            "crash",   (* processes that die                                *)
            "config"}  (* edits of a tier's model between two runs          *)

ASSUME JobAssumption ==
  /\ Order \in Seq(Cells)
  /\ \A c \in Cells : \E i \in 1..Len(Order) : Order[i] = c
ASSUME SizeAssumption == Size \in [Cells -> Nat]
ASSUME ModelAssumption == FirstModel \in [Cells -> Models] /\ Metered \subseteq Models
ASSUME BoundAssumption ==
  /\ Limit \in Nat \ {0} /\ Cost \in Nat /\ MaxErrors \in Nat \ {0} /\ MaxRounds \in Nat \ {0}
  /\ Budget \in [Bounded -> Nat]

VARIABLES
  (* the files *)
  file,   (* file[c]: the lines of c's cell file, an item and a model each *)
  torn,   (* torn[c]: the file ends in a half-written line                 *)
  used,   (* used[m]: tokens the cost log has for m in the last 24 hours   *)
  model,  (* model[c]: what c's tier resolves to                           *)
  (* run_schedule *)
  proc,   (* where the process is                                          *)
  died,   (* history: a cell file could not be read                        *)
  rnd, at, progressed,  (* the round, the job in it, and its flag          *)
  state,  (* state[c]: job.state                                           *)
  done,   (* done[c]: job.done                                             *)
  (* run_cell *)
  skip,   (* the items in `done` when the cell was started                 *)
  item,   (* the next item                                                 *)
  quota, spent, errors, (* token_budget, spent, errors                     *)
  budget  (* what is left of Budget                                        *)

files == <<file, torn, used, model>>
jobs  == <<rnd, at, progressed, state, done>>
cell  == <<skip, item, quota, spent, errors>>
vars  == <<files, proc, died, jobs, cell, budget>>

------------------------------------------------------------------------------
Spend(b) == budget[b] > 0 /\ budget' = [budget EXCEPT ![b] = @ - 1]

Job == Order[at]

(* The operators named Mutant... are not part of the model: each is what    *)
(* the definition below it would be with a bug in it that a property of     *)
(* this module finds.                                                       *)

(* The keys of read_done. *)
Answered(c)       == {file[c][i].item : i \in 1..Len(file[c])}

(* check_cell_file raises CellMismatch. *)
Mismatch(c)       == \E i \in 1..Len(file[c]) : file[c][i].model # model[c]

(* budget_for *)
MutantQuotaFor(c) == Limit
QuotaFor(c)       == IF used[model[c]] < Limit THEN Limit - used[model[c]] ELSE 0

Throttled(c) == model[c] \in Metered

(* job.complete, with n items found in the cell's file: a cell without     *)
(* items is never complete.                                                *)
MutantComplete(c, n) == n > 0
Complete(c, n)       == Size[c] > 0 /\ n >= Size[c]

(* What is left of used tokens when n of them are less than a day old. *)
MutantRecent(m, n) == used[m]
Recent(m, n)       == n

LastRound       == rnd = MaxRounds

Init ==
  /\ file = [c \in Cells |-> <<>>] /\ torn = [c \in Cells |-> FALSE]
  /\ used = [m \in Models |-> 0] /\ model = FirstModel
  /\ proc = "off" /\ died = FALSE
  /\ rnd = 0 /\ at = 1 /\ progressed = FALSE
  /\ state = [c \in Cells |-> "pending"] /\ done = [c \in Cells |-> 0]
  /\ skip = {} /\ item = 1 /\ quota = 0 /\ spent = 0 /\ errors = 0
  /\ budget = Budget

------------------------------------------------------------------------------
(* run_schedule *)

(* Every file is validated before it is trusted; a half-written line is    *)
(* one that json.loads cannot read, and nothing catches that.              *)
Start ==
  /\ proc = "off"
  /\ IF \E c \in Cells : torn[c]
     THEN /\ died' = TRUE
          /\ UNCHANGED <<proc, jobs>>
     ELSE /\ proc' = "pick"
          /\ rnd' = 1 /\ at' = 1 /\ progressed' = FALSE
          /\ done' = [c \in Cells |-> IF Mismatch(c) THEN 0 ELSE Cardinality(Answered(c))]
          /\ state' = [c \in Cells |->
                        IF Mismatch(c) THEN "failed"
                        ELSE IF Complete(c, Cardinality(Answered(c))) THEN "done" ELSE "pending"]
          /\ UNCHANGED died
  /\ UNCHANGED <<files, cell, budget>>

Over(c) == Complete(c, done[c]) \/ state[c] = "failed"

(* The end of a round: finished, out of rounds, or the next round, after a *)
(* wait if nothing moved.                                                  *)
RoundEnds ==
  /\ proc = "pick" /\ at > Len(Order)
  /\ IF (\A c \in Cells : Over(c)) \/ LastRound
     THEN proc' = "off" /\ UNCHANGED <<rnd, at, progressed>>
     ELSE rnd' = rnd + 1 /\ at' = 1 /\ progressed' = FALSE /\ UNCHANGED proc
  /\ UNCHANGED <<files, died, state, done, cell, budget>>

SkipJob ==
  /\ proc = "pick" /\ at <= Len(Order)
  /\ Over(Job)
  /\ at' = at + 1
  /\ UNCHANGED <<files, proc, died, rnd, progressed, state, done, cell, budget>>

QuotaSpent ==
  /\ proc = "pick" /\ at <= Len(Order)
  /\ ~Over(Job) /\ Throttled(Job) /\ QuotaFor(Job) = 0
  /\ state' = [state EXCEPT ![Job] = "waiting"]
  /\ at' = at + 1
  /\ UNCHANGED <<files, proc, died, rnd, progressed, done, cell, budget>>

(* run_cell is called: it reads its file again. *)
StartCell ==
  /\ proc = "pick" /\ at <= Len(Order)
  /\ ~Over(Job) /\ (Throttled(Job) => QuotaFor(Job) > 0)
  /\ IF Mismatch(Job)
     THEN /\ state' = [state EXCEPT ![Job] = "failed"]
          /\ proc' = "settle"
          /\ UNCHANGED cell
     ELSE /\ state' = [state EXCEPT ![Job] = "running"]
          /\ proc' = "cell"
          /\ skip' = Answered(Job)
          /\ item' = 1 /\ spent' = 0 /\ errors' = 0
          /\ quota' = QuotaFor(Job)
  /\ UNCHANGED <<files, died, rnd, at, progressed, done, budget>>

(* After run_cell: count what is in the file. *)
Settle ==
  /\ proc = "settle"
  /\ LET n == Cardinality(Answered(Job)) IN
       /\ done' = [done EXCEPT ![Job] = n]
       /\ progressed' = (progressed \/ n > done[Job])
       /\ state' = IF Complete(Job, n) THEN [state EXCEPT ![Job] = "done"] ELSE state
  /\ at' = at + 1
  /\ proc' = "pick"
  /\ UNCHANGED <<files, died, rnd, cell, budget>>

------------------------------------------------------------------------------
(* run_cell *)

SkipItem ==
  /\ proc = "cell" /\ item <= Size[Job]
  /\ item \in skip
  /\ item' = item + 1
  /\ UNCHANGED <<files, proc, died, jobs, skip, quota, spent, errors, budget>>

OutOfTokens == Throttled(Job) /\ spent >= quota

(* Stops early: CellInterrupted. *)
Interrupted ==
  /\ state' = [state EXCEPT ![Job] = "waiting"]
  /\ proc' = "settle"

StopCell ==
  /\ proc = "cell" /\ item <= Size[Job]
  /\ item \notin skip /\ OutOfTokens
  /\ Interrupted
  /\ UNCHANGED <<files, died, rnd, at, progressed, done, cell, budget>>

(* The cost log gets the tokens of the calls that reached the provider. *)
Log(n) == used' = [used EXCEPT ![model[Job]] = @ + n]

(* system.answer: n tokens, some of them perhaps out of the request cache. *)
Answer(n, fresh) ==
  /\ proc = "cell" /\ item <= Size[Job]
  /\ item \notin skip /\ ~OutOfTokens
  /\ Log(fresh)
  /\ spent' = spent + n
  /\ proc' = "write"
  /\ UNCHANGED <<file, torn, model, died, jobs, skip, item, quota, errors, budget>>

(* A BackendError, after calls that may have taken tokens: the item is left *)
(* for another run, or the cell gives up.                                   *)
AnswerFails(fresh) ==
  /\ proc = "cell" /\ item <= Size[Job]
  /\ item \notin skip /\ ~OutOfTokens
  /\ Spend("error")
  /\ Log(fresh)
  /\ errors' = errors + 1
  /\ IF errors + 1 >= MaxErrors
     THEN Interrupted /\ UNCHANGED item
     ELSE item' = item + 1 /\ UNCHANGED <<state, proc>>
  /\ UNCHANGED <<file, torn, model, died, rnd, at, progressed, done, skip, quota, spent>>

Write ==
  /\ proc = "write"
  /\ file' = [file EXCEPT ![Job] = Append(@, [item |-> item, model |-> model[Job]])]
  /\ item' = item + 1
  /\ proc' = "cell"
  /\ UNCHANGED <<torn, used, model, died, jobs, skip, quota, spent, errors, budget>>

(* All items seen; skipped ones make it an interruption. *)
EndCell ==
  /\ proc = "cell" /\ item > Size[Job]
  /\ IF errors > 0 THEN Interrupted ELSE proc' = "settle" /\ UNCHANGED state
  /\ UNCHANGED <<files, died, rnd, at, progressed, done, cell, budget>>

------------------------------------------------------------------------------
(* The process dies; a line it was writing may be there in part.            *)
Crash ==
  /\ proc # "off"
  /\ Spend("crash")
  /\ proc' = "off"
  /\ torn' \in IF proc = "write" THEN {torn, [torn EXCEPT ![Job] = TRUE]} ELSE {torn}
  /\ UNCHANGED <<file, used, model, died, jobs, cell>>

(* settings.models() is read once by a process. *)
Reconfigure(c, m) ==
  /\ proc = "off"
  /\ Spend("config")
  /\ model' = [model EXCEPT ![c] = m]
  /\ UNCHANGED <<file, torn, used, proc, died, jobs, cell>>

(* Time passes: the oldest tokens leave the window of 24 hours. *)
Expire(m) ==
  /\ used[m] > 0
  /\ \E n \in 0..(used[m] - 1) : used' = [used EXCEPT ![m] = Recent(m, n)]
  /\ UNCHANGED <<file, torn, model, proc, died, jobs, cell, budget>>

Schedule ==
  \/ RoundEnds \/ SkipJob \/ QuotaSpent \/ StartCell \/ Settle
  \/ SkipItem \/ StopCell \/ Write \/ EndCell
  \/ \E n \in 0..Cost : \E fresh \in 0..n : Answer(n, fresh)

Next ==
  \/ Start \/ Schedule \/ Crash
  \/ \E n \in 0..Cost : AnswerFails(n)
  \/ \E c \in Cells, m \in Models : Reconfigure(c, m)
  \/ \E m \in Models : Expire(m)

Safe == Init /\ [][Next]_vars

(* The process goes on, an interrupted schedule is run again ("rerun to     *)
(* resume"), and days pass.                                                 *)
Spec ==
  /\ Safe
  /\ WF_vars(Schedule) /\ WF_vars(Start)
  /\ \A m \in Models : WF_vars(Expire(m))

------------------------------------------------------------------------------
Line == [item : Nat, model : Models]

(* The types of the variables. *)
TypeOK ==
  /\ file \in [Cells -> Seq(Line)] /\ torn \in [Cells -> BOOLEAN]
  /\ used \in [Models -> Nat] /\ model \in [Cells -> Models]
  /\ proc \in {"off", "pick", "cell", "write", "settle"} /\ died \in BOOLEAN
  /\ rnd \in 0..MaxRounds /\ at \in 1..(Len(Order) + 1) /\ progressed \in BOOLEAN
  /\ state \in [Cells -> {"pending", "running", "waiting", "done", "failed"}]
  /\ done \in [Cells -> Nat]
  /\ skip \subseteq Nat /\ item \in Nat
  /\ quota \in Nat /\ spent \in Nat /\ errors \in Nat
  /\ budget \in [Bounded -> Nat]

Untouched(b) == budget[b] = Budget[b]

(* A cell never mixes models, over crashes, resumed runs and edits of the   *)
(* configuration (run_matrix.py:9-12, 137-148).                             *)
OneModelPerCell ==
  \A c \in Cells : \A i, j \in 1..Len(file[c]) : file[c][i].model = file[c][j].model

(* No item is answered twice: what a run found is skipped by the next one   *)
(* (run_matrix.py:6-8, scheduler.py:9-11).                                  *)
NoItemTwice ==
  \A c \in Cells : \A i, j \in 1..Len(file[c]) : file[c][i].item = file[c][j].item => i = j

(* A job is reported done only when each item of its cell has an answer of  *)
(* the model the configuration names now (scheduler.py:136-145, 166-169).   *)
DoneIsWhole ==
  \A c \in Cells : proc # "off" /\ state[c] = "done" =>
    /\ \A i \in 1..Size[c] : \E k \in 1..Len(file[c]) : file[c][k].item = i
    /\ \A k \in 1..Len(file[c]) : file[c][k].model = model[c]

(* The schedule keeps every metered model near its daily limit: one item    *)
(* and the failing answers of one cell are all it may overshoot, whatever   *)
(* crashes in between (scheduler.py:6-8, 79-86, run_matrix.py:178-195).     *)
QuotaKept == \A m \in Metered : used[m] < Limit + MaxErrors * Cost

(* With finitely many errors and crashes every cell gets finished, unless a *)
(* line was torn or the configuration changed under it.                     *)
EventuallyDone ==
  <>[](\/ \A c \in Cells : Answered(c) = 1..Size[c]
       \/ \E c \in Cells : torn[c]
       \/ ~Untouched("config"))

------------------------------------------------------------------------------
(* The inductive invariant behind the safety properties.                    *)

InCell == proc \in {"cell", "write"}
AtJob  == proc \in {"cell", "write", "settle"}

(* The process is at a job of the schedule that has not failed, and a cell  *)
(* is given up before it has MaxErrors errors.                              *)
ProcInv ==
  /\ proc # "off" => rnd >= 1
  /\ AtJob => at <= Len(Order) /\ state[Job] # "failed"
  /\ InCell => errors < MaxErrors /\ item >= 1 /\ skip \subseteq 1..Size[Job]
  /\ proc = "write" => item <= Size[Job] /\ item \notin skip

(* The lines of a file are of its cell, from one model, one per item. *)
FileInv ==
  /\ \A c \in Cells : Answered(c) \subseteq 1..Size[c]
  /\ OneModelPerCell
  /\ NoItemTwice

(* What a running process has not rejected is of the configured model. *)
TrustInv == proc # "off" => \A c \in Cells : state[c] # "failed" => ~Mismatch(c)

(* The loop of run_cell: what is in the file was skipped or passed. *)
LoopInv == InCell => \A i \in Answered(Job) : i \in skip \/ i < item

(* A job that is done has as many items as its cell. *)
DoneInv == proc # "off" => \A c \in Cells : state[c] = "done" => Complete(c, Cardinality(Answered(c)))

(* What the cell has taken so far keeps to its quota, up to the tokens of   *)
(* failed answers.                                                          *)
TokenInv ==
  /\ QuotaKept
  /\ InCell /\ Throttled(Job) =>
       used[model[Job]] + quota <= Limit + spent + errors * Cost

IInv == TypeOK /\ ProcInv /\ FileInv /\ TrustInv /\ LoopInv /\ DoneInv /\ TokenInv
==============================================================================
