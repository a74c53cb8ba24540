------------------------- MODULE CellScheduleProofs -------------------------
(***************************************************************************)
(* The safety properties of CellSchedule for any cells, sizes, models,     *)
(* limits and budget: IInv is inductive and implies them.                  *)
(***************************************************************************)
EXTENDS CellSchedule, FiniteSetTheorems, TLAPS

USE DEF Bounded

(* A position in the schedule is the position of a cell. *)
LEMMA JobType == TypeOK /\ at <= Len(Order) => Job \in Cells
  BY JobAssumption DEF TypeOK, Job

(* How many items a file has is a number, at most the size of its cell, and *)
(* a file with that many has them all.                                     *)
LEMMA Counted ==
  ASSUME NEW c \in Cells, Answered(c) \subseteq 1..Size[c]
  PROVE  /\ IsFiniteSet(Answered(c))
         /\ Cardinality(Answered(c)) \in Nat
         /\ Cardinality(Answered(c)) >= Size[c] => Answered(c) = 1..Size[c]
<1>1. Size[c] \in Nat
  BY SizeAssumption
<1>2. IsFiniteSet(1..Size[c]) /\ Cardinality(1..Size[c]) = Size[c]
  <2>1. ASSUME NEW n \in Nat PROVE IsFiniteSet(1..n) /\ Cardinality(1..n) = n
    BY FS_Interval
  <2> QED
    BY <1>1, <2>1
<1>3. /\ IsFiniteSet(Answered(c)) /\ Cardinality(Answered(c)) <= Cardinality(1..Size[c])
      /\ Cardinality(1..Size[c]) = Cardinality(Answered(c)) => 1..Size[c] = Answered(c)
  BY <1>2, FS_Subset
<1>4. Cardinality(Answered(c)) \in Nat
  BY <1>3, FS_CardinalityType
<1> QED
  BY <1>1, <1>2, <1>3, <1>4

(* Steps that leave the files of the cells leave what is answered in them. *)
LEMMA Kept == ASSUME UNCHANGED file, NEW c PROVE Answered(c)' = Answered(c)
  BY DEF Answered

(* Write adds its item to its cell and nothing else. *)
LEMMA Written ==
  ASSUME TypeOK, ProcInv, Write, NEW c \in Cells
  PROVE  Answered(c)' = IF c = Job THEN Answered(c) \union {item} ELSE Answered(c)
<1> DEFINE line == [item |-> item, model |-> model[Job]]
<1>1. Job \in Cells
  BY JobType DEF ProcInv, AtJob, Write
<1>2. file[c] \in Seq(Line) /\ file' = [file EXCEPT ![Job] = Append(@, line)]
  BY DEF TypeOK, Write
<1>3. CASE c # Job
  BY <1>2, <1>3 DEF Answered
<1>4. CASE c = Job
  <2>1. file'[c] = Append(file[c], line)
    BY <1>1, <1>2, <1>4 DEF TypeOK
  <2>2. /\ Len(file'[c]) = Len(file[c]) + 1 /\ Len(file[c]) \in Nat
        /\ \A i \in 1..Len(file[c]) : file'[c][i] = file[c][i]
        /\ file'[c][Len(file[c]) + 1] = line
    BY <2>1, <1>2
  <2>3. Answered(c)' = {file'[c][i].item : i \in 1..(Len(file[c]) + 1)}
    BY <2>2 DEF Answered
  <2>4. ASSUME NEW x \in Answered(c)' PROVE x \in Answered(c) \union {item}
    <3>1. PICK i \in 1..(Len(file[c]) + 1) : x = file'[c][i].item
      BY <2>3
    <3>2. CASE i \in 1..Len(file[c])
      BY <3>1, <3>2, <2>2 DEF Answered
    <3>3. CASE i = Len(file[c]) + 1
      BY <3>1, <3>3, <2>2
    <3> QED
      BY <3>1, <3>2, <3>3, <2>2
  <2>5. ASSUME NEW x \in Answered(c) PROVE x \in Answered(c)'
    <3>1. PICK i \in 1..Len(file[c]) : x = file[c][i].item
      BY DEF Answered
    <3>2. i \in 1..(Len(file[c]) + 1) /\ x = file'[c][i].item
      BY <3>1, <2>2
    <3> QED
      BY <3>2, <2>3
  <2>6. item \in Answered(c)'
    <3>1. Len(file[c]) + 1 \in 1..(Len(file[c]) + 1)
      BY <2>2
    <3> QED
      BY <3>1, <2>2, <2>3
  <2> QED
    BY <2>4, <2>5, <2>6, <1>4
<1> QED
  BY <1>3, <1>4

(* One more failed answer costs one more Cost. *)
LEMMA OneMore ==
  ASSUME NEW e \in Nat, NEW m \in Nat, NEW c \in Nat, e < m
  PROVE  /\ e * c \in Nat /\ m * c \in Nat
         /\ (e + 1) * c = e * c + c
         /\ e * c + c <= m * c
<1>1. PICK d \in Nat : m = e + 1 + d
  <2>1. m - (e + 1) \in Nat /\ m = e + 1 + (m - (e + 1))
    OBVIOUS
  <2> QED
    BY <2>1
<1>2. m * c = e * c + c + d * c /\ (e + 1) * c = e * c + c
  BY <1>1
<1>3. d * c \in Nat /\ e * c \in Nat /\ m * c \in Nat
  BY <1>1
<1> QED
  BY <1>2, <1>3

------------------------------------------------------------------------------
(* Types. *)
LEMMA TypeStep == TypeOK /\ FileInv /\ ProcInv /\ [Next]_vars => TypeOK'
<1> SUFFICES ASSUME TypeOK, FileInv, ProcInv, [Next]_vars PROVE TypeOK'
  OBVIOUS
<1>s. ASSUME NEW b \in Bounded, Spend(b) PROVE budget' \in [Bounded -> Nat]
  BY <1>s DEF Spend, TypeOK
<1>l. ASSUME NEW n \in Nat, Log(n) PROVE used' \in [Models -> Nat]
  <2>1. used \in [Models -> Nat]
    BY DEF TypeOK
  <2>2. CASE model[Job] \in Models
    <3>1. [used EXCEPT ![model[Job]] = @ + n] \in [Models -> Nat]
      BY <2>1, <2>2
    <3> QED
      BY <1>l, <3>1 DEF Log
  <2>3. CASE model[Job] \notin Models
    BY <1>l, <2>1, <2>3 DEF Log
  <2> QED
    BY <2>2, <2>3
<1>c. \A c \in Cells : Cardinality(Answered(c)) \in Nat
  BY Counted DEF FileInv
<1>n. Len(Order) \in Nat /\ at \in 1..(Len(Order) + 1) /\ 1 \in 1..(Len(Order) + 1)
  BY JobAssumption DEF TypeOK
<1>r. MaxRounds \in Nat \ {0} /\ rnd \in 0..MaxRounds /\ 1 \in 0..MaxRounds
  BY BoundAssumption DEF TypeOK
<1>m. ASSUME at <= Len(Order) PROVE at + 1 \in 1..(Len(Order) + 1)
  BY <1>n, <1>m
<1>1. CASE Start
  <2>1. CASE \E c \in Cells : torn[c]
    BY <1>1, <2>1 DEF Start, TypeOK, files, cell, jobs
  <2>2. CASE ~\E c \in Cells : torn[c]
    <3>1. done' \in [Cells -> Nat]
      BY <1>1, <2>2, <1>c DEF Start
    <3>2. state' \in [Cells -> {"pending", "running", "waiting", "done", "failed"}]
      BY <1>1, <2>2 DEF Start
    <3>3. rnd' \in 0..MaxRounds /\ at' \in 1..(Len(Order) + 1)
      BY <1>1, <2>2, <1>n, <1>r DEF Start
    <3> QED
      BY <1>1, <2>2, <3>1, <3>2, <3>3 DEF Start, TypeOK, files, cell
  <2> QED
    BY <2>1, <2>2
<1>2. CASE RoundEnds
  <2>1. rnd' \in 0..MaxRounds
    BY <1>2, <1>r DEF RoundEnds, LastRound
  <2>2. at' \in 1..(Len(Order) + 1) /\ progressed' \in BOOLEAN
    BY <1>2, <1>n DEF RoundEnds, TypeOK
  <2> QED
    BY <1>2, <2>1, <2>2 DEF RoundEnds, TypeOK, files, cell
<1>3. CASE SkipJob \/ QuotaSpent
  <2>1. at' \in 1..(Len(Order) + 1)
    BY <1>3, <1>m DEF SkipJob, QuotaSpent
  <2>2. state' \in [Cells -> {"pending", "running", "waiting", "done", "failed"}]
    BY <1>3 DEF SkipJob, QuotaSpent, TypeOK
  <2> QED
    BY <1>3, <2>1, <2>2 DEF SkipJob, QuotaSpent, TypeOK, files, cell
<1>4. CASE StartCell
  <2>1. Job \in Cells
    BY <1>4, JobType DEF StartCell
  <2>2. QuotaFor(Job) \in Nat
    BY <2>1, BoundAssumption DEF QuotaFor, TypeOK
  <2>3. Answered(Job) \subseteq Nat
    BY <2>1, SizeAssumption DEF FileInv
  <2>4. state' \in [Cells -> {"pending", "running", "waiting", "done", "failed"}]
    BY <1>4 DEF StartCell, TypeOK
  <2>5. skip' \subseteq Nat /\ item' \in Nat /\ quota' \in Nat /\ spent' \in Nat /\ errors' \in Nat
    <3>1. CASE Mismatch(Job)
      BY <1>4, <3>1 DEF StartCell, TypeOK, cell
    <3>2. CASE ~Mismatch(Job)
      BY <1>4, <3>2, <2>2, <2>3 DEF StartCell
    <3> QED
      BY <3>1, <3>2
  <2>6. proc' \in {"off", "pick", "cell", "write", "settle"}
    BY <1>4 DEF StartCell
  <2> QED
    BY <1>4, <2>4, <2>5, <2>6 DEF StartCell, TypeOK, files
<1>5. CASE Settle
  <2>1. Job \in Cells /\ at <= Len(Order)
    BY <1>5, JobType DEF Settle, ProcInv, AtJob
  <2>2. Cardinality(Answered(Job)) \in Nat
    BY <2>1, <1>c
  <2>3. done' \in [Cells -> Nat] /\ progressed' \in BOOLEAN
    BY <1>5, <2>2 DEF Settle, TypeOK
  <2>4. state' \in [Cells -> {"pending", "running", "waiting", "done", "failed"}]
    BY <1>5 DEF Settle, TypeOK
  <2> QED
    BY <1>5, <2>1, <2>3, <2>4, <1>n DEF Settle, TypeOK, files, cell
<1>6. CASE SkipItem \/ StopCell \/ EndCell
  <2>1. state' \in [Cells -> {"pending", "running", "waiting", "done", "failed"}]
    BY <1>6 DEF SkipItem, StopCell, EndCell, Interrupted, TypeOK, jobs
  <2>2. item' \in Nat /\ proc' \in {"off", "pick", "cell", "write", "settle"}
    BY <1>6 DEF SkipItem, StopCell, EndCell, Interrupted, TypeOK, cell
  <2> QED
    BY <1>6, <2>1, <2>2 DEF SkipItem, StopCell, EndCell, Interrupted, TypeOK, files, jobs, cell
<1>7. CASE \E n \in 0..Cost : \E fresh \in 0..n : Answer(n, fresh)
  <2>0. PICK n \in 0..Cost : \E fresh \in 0..n : Answer(n, fresh)
    BY <1>7
  <2>1. PICK fresh \in 0..n : Answer(n, fresh)
    BY <2>0
  <2>2. n \in Nat /\ fresh \in Nat
    BY <2>1, BoundAssumption
  <2>3. used' \in [Models -> Nat]
    BY <2>1, <2>2, <1>l DEF Answer
  <2>4. spent' \in Nat
    BY <2>1, <2>2 DEF Answer, TypeOK
  <2> QED
    BY <2>1, <2>3, <2>4 DEF Answer, TypeOK, jobs
<1>8. CASE \E n \in 0..Cost : AnswerFails(n)
  <2>1. budget' \in [Bounded -> Nat]
    BY <1>8, <1>s DEF AnswerFails
  <2>2. PICK n \in 0..Cost : AnswerFails(n)
    BY <1>8
  <2>3. used' \in [Models -> Nat]
    BY <2>2, <1>l, BoundAssumption DEF AnswerFails
  <2>4. errors' \in Nat /\ item' \in Nat
    BY <2>2 DEF AnswerFails, TypeOK
  <2>5. /\ state' \in [Cells -> {"pending", "running", "waiting", "done", "failed"}]
        /\ proc' \in {"off", "pick", "cell", "write", "settle"}
    BY <2>2 DEF AnswerFails, Interrupted, TypeOK
  <2> QED
    BY <2>1, <2>2, <2>3, <2>4, <2>5 DEF AnswerFails, TypeOK
<1>9. CASE Write
  <2>1. Job \in Cells
    BY <1>9, JobType DEF Write, ProcInv, AtJob
  <2>2. [item |-> item, model |-> model[Job]] \in Line
    BY <2>1 DEF TypeOK, Line
  <2>3. file' \in [Cells -> Seq(Line)]
    <3>1. Append(file[Job], [item |-> item, model |-> model[Job]]) \in Seq(Line)
      BY <2>1, <2>2 DEF TypeOK
    <3> QED
      BY <1>9, <3>1 DEF Write, TypeOK
  <2> QED
    BY <1>9, <2>3 DEF Write, TypeOK, jobs
<1>10. CASE Crash
  <2>1. budget' \in [Bounded -> Nat]
    BY <1>10, <1>s DEF Crash
  <2>2. torn' \in [Cells -> BOOLEAN]
    BY <1>10 DEF Crash, TypeOK
  <2> QED
    BY <1>10, <2>1, <2>2 DEF Crash, TypeOK, jobs, cell
<1>11. CASE \E c \in Cells, m \in Models : Reconfigure(c, m)
  <2>1. budget' \in [Bounded -> Nat]
    BY <1>11, <1>s DEF Reconfigure
  <2>2. model' \in [Cells -> Models]
    BY <1>11 DEF Reconfigure, TypeOK
  <2> QED
    BY <1>11, <2>1, <2>2 DEF Reconfigure, TypeOK, jobs, cell
<1>12. CASE \E m \in Models : Expire(m)
  <2>1. used' \in [Models -> Nat]
    BY <1>12 DEF Expire, Recent, TypeOK
  <2> QED
    BY <1>12, <2>1 DEF Expire, TypeOK, jobs, cell
<1>13. CASE UNCHANGED vars
  BY <1>13 DEF vars, TypeOK, files, jobs, cell
<1> QED
  BY <1>1, <1>2, <1>3, <1>4, <1>5, <1>6, <1>7, <1>8, <1>9, <1>10, <1>11, <1>12, <1>13 DEF Next, Schedule

------------------------------------------------------------------------------
(* run_cell is only called for a job whose file was not rejected. *)
LEMMA NotRejected ==
  ASSUME TypeOK, TrustInv, StartCell
  PROVE  Job \in Cells /\ state[Job] # "failed" /\ ~Mismatch(Job)
  BY JobType DEF TrustInv, StartCell, Over

LEMMA ProcStep == TypeOK /\ ProcInv /\ FileInv /\ TrustInv /\ [Next]_vars => ProcInv'
<1> SUFFICES ASSUME TypeOK, ProcInv, FileInv, TrustInv, [Next]_vars PROVE ProcInv'
  OBVIOUS
<1>1. CASE Start
  BY <1>1 DEF Start, ProcInv, AtJob, InCell, files, cell, jobs
<1>2. CASE RoundEnds
  BY <1>2 DEF RoundEnds, ProcInv, AtJob, InCell, TypeOK
<1>3. CASE SkipJob \/ QuotaSpent
  BY <1>3 DEF SkipJob, QuotaSpent, ProcInv, AtJob, InCell
<1>4. CASE StartCell
  <2>1. Job \in Cells /\ state[Job] # "failed" /\ ~Mismatch(Job)
    BY <1>4, NotRejected
  <2>2. proc' = "cell" /\ state'[Job] = "running" /\ rnd' = rnd /\ rnd >= 1
    BY <1>4, <2>1 DEF StartCell, TypeOK, ProcInv
  <2>3. at' = at /\ at <= Len(Order) /\ Job' = Job
    BY <1>4 DEF StartCell, Job
  <2>4. errors' < MaxErrors /\ item' >= 1
    BY <1>4, <2>1, BoundAssumption DEF StartCell
  <2>5. skip' \subseteq 1..Size[Job]
    BY <1>4, <2>1 DEF StartCell, FileInv
  <2> QED
    BY <2>2, <2>3, <2>4, <2>5 DEF ProcInv, AtJob, InCell
<1>5. CASE Settle
  BY <1>5 DEF Settle, ProcInv, AtJob, InCell
<1>6. CASE SkipItem \/ StopCell \/ EndCell
  <2>1. Job' = Job /\ at' = at /\ rnd' = rnd /\ skip' = skip /\ errors' = errors
    BY <1>6 DEF SkipItem, StopCell, EndCell, Interrupted, Job, jobs, cell
  <2>2. Job \in Cells /\ at <= Len(Order) /\ state[Job] # "failed"
    BY <1>6, JobType DEF SkipItem, StopCell, EndCell, ProcInv, AtJob
  <2>3. state'[Job] # "failed"
    BY <1>6, <2>2 DEF SkipItem, StopCell, EndCell, Interrupted, TypeOK, jobs
  <2>4. proc' # "write" /\ (proc' = "cell" => item' >= 1)
    BY <1>6 DEF SkipItem, StopCell, EndCell, Interrupted, ProcInv, InCell, TypeOK
  <2>5. proc # "off" /\ InCell
    BY <1>6 DEF SkipItem, StopCell, EndCell, InCell
  <2> QED
    BY <2>1, <2>2, <2>3, <2>4, <2>5 DEF ProcInv, AtJob, InCell
<1>7. CASE \E n \in 0..Cost : \E fresh \in 0..n : Answer(n, fresh)
  BY <1>7 DEF Answer, ProcInv, AtJob, InCell, Job, jobs
<1>8. CASE \E n \in 0..Cost : AnswerFails(n)
  <2>1. Job' = Job /\ at' = at /\ rnd' = rnd /\ skip' = skip
    BY <1>8 DEF AnswerFails, Job
  <2>2. Job \in Cells /\ at <= Len(Order) /\ state[Job] # "failed" /\ item >= 1
    BY <1>8, JobType DEF AnswerFails, ProcInv, AtJob, InCell
  <2>3. state'[Job] # "failed" /\ proc' # "write" /\ proc # "off" /\ InCell
    BY <1>8, <2>2 DEF AnswerFails, Interrupted, TypeOK, InCell
  <2>4. proc' = "cell" => errors' < MaxErrors /\ item' >= 1
    BY <1>8, <2>2, BoundAssumption DEF AnswerFails, Interrupted, TypeOK
  <2> QED
    BY <2>1, <2>2, <2>3, <2>4 DEF ProcInv, AtJob, InCell
<1>9. CASE Write
  BY <1>9 DEF Write, ProcInv, AtJob, InCell, TypeOK, Job, jobs
<1>10. CASE Crash
  BY <1>10 DEF Crash, ProcInv, AtJob, InCell
<1>11. CASE \E c \in Cells, m \in Models : Reconfigure(c, m)
  BY <1>11 DEF Reconfigure, ProcInv, AtJob, InCell
<1>12. CASE \E m \in Models : Expire(m)
  BY <1>12 DEF Expire, ProcInv, AtJob, InCell, Job, jobs, cell
<1>13. CASE UNCHANGED vars
  BY <1>13 DEF vars, ProcInv, AtJob, InCell, Job, jobs, cell
<1> QED
  BY <1>1, <1>2, <1>3, <1>4, <1>5, <1>6, <1>7, <1>8, <1>9, <1>10, <1>11, <1>12, <1>13 DEF Next, Schedule

(* Only Write touches a file. *)
LEMMA OnlyWrites == [Next]_vars /\ ~Write => UNCHANGED file
  BY DEF Next, Schedule, Start, RoundEnds, SkipJob, QuotaSpent, StartCell, Settle, SkipItem, StopCell,
         EndCell, Answer, AnswerFails, Crash, Reconfigure, Expire, vars, files

LEMMA FileStep == TypeOK /\ ProcInv /\ FileInv /\ TrustInv /\ LoopInv /\ [Next]_vars => FileInv'
<1> SUFFICES ASSUME TypeOK, ProcInv, FileInv, TrustInv, LoopInv, [Next]_vars PROVE FileInv'
  OBVIOUS
<1>1. CASE ~Write
  BY <1>1, OnlyWrites DEF FileInv, OneModelPerCell, NoItemTwice, Answered
<1>2. CASE Write
  <2> DEFINE line == [item |-> item, model |-> model[Job]]
  <2>1. Job \in Cells /\ InCell /\ state[Job] # "failed" /\ proc # "off"
    BY <1>2, JobType DEF ProcInv, AtJob, InCell, Write
  <2>2. item \in 1..Size[Job] /\ item \notin Answered(Job)
    <3>1. item \in Nat /\ item >= 1 /\ item <= Size[Job] /\ item \notin skip /\ Size[Job] \in Nat
      BY <1>2, <2>1, SizeAssumption DEF Write, ProcInv, InCell, TypeOK
    <3>2. \A i \in Answered(Job) : i \in skip \/ i < item
      BY <2>1 DEF LoopInv
    <3> QED
      BY <3>1, <3>2
  <2>3. \A c \in Cells : Answered(c)' \subseteq 1..Size[c]
    BY <1>2, <2>2, Written DEF FileInv
  <2>4. \A c \in Cells : c # Job => file'[c] = file[c]
    BY <1>2 DEF Write, TypeOK
  <2>5. /\ file'[Job] = Append(file[Job], line) /\ file[Job] \in Seq(Line)
    BY <1>2, <2>1 DEF Write, TypeOK
  <2>6. /\ Len(file'[Job]) = Len(file[Job]) + 1 /\ Len(file[Job]) \in Nat
        /\ \A i \in 1..Len(file[Job]) : file'[Job][i] = file[Job][i]
        /\ file'[Job][Len(file[Job]) + 1] = line
    BY <2>5
  <2>7. \A i \in 1..Len(file'[Job]) : file'[Job][i].model = model[Job]
    <3>1. \A i \in 1..Len(file[Job]) : file[Job][i].model = model[Job]
      BY <2>1 DEF TrustInv, Mismatch
    <3> TAKE i \in 1..Len(file'[Job])
    <3>2. CASE i \in 1..Len(file[Job])
      BY <3>1, <3>2, <2>6
    <3>3. CASE i = Len(file[Job]) + 1
      BY <3>3, <2>6
    <3> QED
      BY <3>2, <3>3, <2>6
  <2>8. OneModelPerCell'
    <3> SUFFICES ASSUME NEW c \in Cells, NEW i \in 1..Len(file'[c]), NEW j \in 1..Len(file'[c])
                 PROVE  file'[c][i].model = file'[c][j].model
      BY DEF OneModelPerCell
    <3>1. CASE c = Job
      BY <3>1, <2>7
    <3>2. CASE c # Job
      BY <3>2, <2>4 DEF FileInv, OneModelPerCell
    <3> QED
      BY <3>1, <3>2
  <2>9. \A i \in 1..Len(file[Job]) : file[Job][i].item # item
    BY <2>2 DEF Answered
  <2>10. NoItemTwice'
    <3> SUFFICES ASSUME NEW c \in Cells, NEW i \in 1..Len(file'[c]), NEW j \in 1..Len(file'[c]),
                        file'[c][i].item = file'[c][j].item
                 PROVE  i = j
      BY DEF NoItemTwice
    <3>1. CASE c # Job
      BY <3>1, <2>4 DEF FileInv, NoItemTwice
    <3>2. CASE c = Job
      <4>1. CASE i \in 1..Len(file[Job]) /\ j \in 1..Len(file[Job])
        BY <3>2, <4>1, <2>1, <2>6 DEF FileInv, NoItemTwice
      <4>2. CASE i \in 1..Len(file[Job]) /\ j = Len(file[Job]) + 1
        BY <3>2, <4>2, <2>6, <2>9
      <4>3. CASE i = Len(file[Job]) + 1 /\ j \in 1..Len(file[Job])
        BY <3>2, <4>3, <2>6, <2>9
      <4>4. CASE i = Len(file[Job]) + 1 /\ j = Len(file[Job]) + 1
        BY <4>4
      <4> QED
        BY <3>2, <4>1, <4>2, <4>3, <4>4, <2>6
    <3> QED
      BY <3>1, <3>2
  <2> QED
    BY <2>3, <2>8, <2>10 DEF FileInv
<1> QED
  BY <1>1, <1>2

(* Steps that reject no job anew, take none back and change no file or      *)
(* model keep TrustInv.                                                     *)
LEMMA StillTrusted ==
  ASSUME TrustInv, UNCHANGED <<file, model>>, proc' # "off" => proc # "off",
         \A c \in Cells : state[c] = "failed" => state'[c] = "failed"
  PROVE  TrustInv'
  BY DEF TrustInv, Mismatch

LEMMA TrustStep == TypeOK /\ ProcInv /\ TrustInv /\ [Next]_vars => TrustInv'
<1> SUFFICES ASSUME TypeOK, ProcInv, TrustInv, [Next]_vars PROVE TrustInv'
  OBVIOUS
<1>1. CASE Start
  <2>1. CASE \E c \in Cells : torn[c]
    BY <1>1, <2>1 DEF Start, TrustInv
  <2>2. CASE ~\E c \in Cells : torn[c]
    <3>1. \A c \in Cells : Mismatch(c)' = Mismatch(c) /\ (Mismatch(c) => state'[c] = "failed")
      BY <1>1, <2>2 DEF Start, Mismatch, files
    <3> QED
      BY <3>1 DEF TrustInv
  <2> QED
    BY <2>1, <2>2
<1>2. CASE RoundEnds \/ SkipJob \/ QuotaSpent
  <2>1. \A c \in Cells : state[c] = "failed" => state'[c] = "failed"
    BY <1>2 DEF RoundEnds, SkipJob, QuotaSpent, Over, TypeOK
  <2> QED
    BY <1>2, <2>1, StillTrusted DEF RoundEnds, SkipJob, QuotaSpent, files
<1>3. CASE StartCell
  <2>1. \A c \in Cells : state[c] = "failed" => state'[c] = "failed"
    BY <1>3 DEF StartCell, Over, TypeOK
  <2> QED
    BY <1>3, <2>1, StillTrusted DEF StartCell, files
<1>4. CASE Settle
  <2>1. state[Job] # "failed" /\ proc # "off"
    BY <1>4 DEF Settle, ProcInv, AtJob
  <2>2. \A c \in Cells : state[c] = "failed" => state'[c] = "failed"
    BY <1>4, <2>1 DEF Settle, TypeOK
  <2> QED
    BY <1>4, <2>1, <2>2, StillTrusted DEF Settle, files
<1>5. CASE SkipItem \/ StopCell \/ EndCell
  <2>1. state[Job] # "failed" /\ proc # "off"
    BY <1>5 DEF SkipItem, StopCell, EndCell, ProcInv, AtJob
  <2>2. \A c \in Cells : state[c] = "failed" => state'[c] = "failed"
    BY <1>5, <2>1 DEF SkipItem, StopCell, EndCell, Interrupted, TypeOK, jobs
  <2> QED
    BY <1>5, <2>1, <2>2, StillTrusted DEF SkipItem, StopCell, EndCell, Interrupted, files
<1>6. CASE \E n \in 0..Cost : \E fresh \in 0..n : Answer(n, fresh)
  BY <1>6, StillTrusted DEF Answer, jobs
<1>7. CASE \E n \in 0..Cost : AnswerFails(n)
  <2>1. state[Job] # "failed" /\ proc # "off"
    BY <1>7 DEF AnswerFails, ProcInv, AtJob
  <2>2. \A c \in Cells : state[c] = "failed" => state'[c] = "failed"
    BY <1>7, <2>1 DEF AnswerFails, Interrupted, TypeOK
  <2> QED
    BY <1>7, <2>1, <2>2, StillTrusted DEF AnswerFails
<1>8. CASE Write
  <2>1. Job \in Cells /\ proc # "off" /\ state[Job] # "failed"
    BY <1>8, JobType DEF Write, ProcInv, AtJob
  <2>2. /\ file' = [file EXCEPT ![Job] = Append(@, [item |-> item, model |-> model[Job]])]
        /\ UNCHANGED <<model, state>>
    BY <1>8 DEF Write, jobs
  <2> SUFFICES ASSUME NEW c \in Cells, state[c] # "failed" PROVE ~Mismatch(c)'
    BY <2>2 DEF TrustInv
  <2>3. ~Mismatch(c)
    BY <2>1 DEF TrustInv
  <2>4. CASE c # Job
    BY <2>2, <2>3, <2>4 DEF Mismatch, TypeOK
  <2>5. CASE c = Job
    <3>1. file'[c] = Append(file[c], [item |-> item, model |-> model[c]]) /\ file[c] \in Seq(Line)
      BY <2>1, <2>2, <2>5 DEF TypeOK
    <3>2. \A i \in 1..Len(file'[c]) : file'[c][i].model = model[c]
      <4> TAKE i \in 1..Len(file'[c])
      <4>1. CASE i \in 1..Len(file[c])
        BY <3>1, <2>3, <4>1 DEF Mismatch
      <4>2. CASE i = Len(file[c]) + 1
        BY <3>1, <4>2
      <4> QED
        BY <3>1, <4>1, <4>2
    <3> QED
      BY <2>2, <3>2 DEF Mismatch
  <2> QED
    BY <2>4, <2>5
<1>9. CASE Crash
  BY <1>9 DEF Crash, TrustInv
<1>10. CASE \E c \in Cells, m \in Models : Reconfigure(c, m)
  BY <1>10 DEF Reconfigure, TrustInv
<1>11. CASE \E m \in Models : Expire(m)
  BY <1>11, StillTrusted DEF Expire, jobs
<1>12. CASE UNCHANGED vars
  BY <1>12, StillTrusted DEF vars, files, jobs
<1> QED
  BY <1>1, <1>2, <1>3, <1>4, <1>5, <1>6, <1>7, <1>8, <1>9, <1>10, <1>11, <1>12 DEF Next, Schedule

LEMMA LoopStep == TypeOK /\ ProcInv /\ FileInv /\ TrustInv /\ LoopInv /\ [Next]_vars => LoopInv'
<1> SUFFICES ASSUME TypeOK, ProcInv, FileInv, TrustInv, LoopInv, [Next]_vars PROVE LoopInv'
  OBVIOUS
<1>n. item \in Nat /\ (InCell => Job \in Cells)
  BY JobType DEF TypeOK, InCell, ProcInv, AtJob
<1>i. InCell => \A i \in Answered(Job) : i \in Nat
  BY <1>n, SizeAssumption DEF FileInv
<1>1. CASE Start
  BY <1>1 DEF Start, LoopInv, InCell
<1>2. CASE RoundEnds \/ SkipJob \/ QuotaSpent \/ Settle \/ Crash \/ (\E c \in Cells, m \in Models : Reconfigure(c, m))
  BY <1>2 DEF RoundEnds, SkipJob, QuotaSpent, Settle, Crash, Reconfigure, LoopInv, InCell
<1>3. CASE StartCell
  <2>1. ~Mismatch(Job)
    BY <1>3, NotRejected
  <2>2. skip' = Answered(Job) /\ Answered(Job') = Answered(Job) /\ UNCHANGED file
    BY <1>3, <2>1 DEF StartCell, Job, files
  <2>3. Answered(Job)' = skip'
    BY <2>2 DEF Answered
  <2> QED
    BY <2>3 DEF LoopInv
<1>4. CASE SkipItem \/ StopCell \/ EndCell
  <2>1. InCell /\ UNCHANGED <<file, skip>> /\ Job' = Job
    BY <1>4 DEF SkipItem, StopCell, EndCell, Interrupted, InCell, Job, jobs, cell, files
  <2>2. Answered(Job)' = Answered(Job)
    BY <2>1 DEF Answered
  <2>3. item' = item \/ item' = item + 1
    BY <1>4 DEF SkipItem, StopCell, EndCell, cell
  <2> QED
    BY <2>1, <2>2, <2>3, <1>n, <1>i DEF LoopInv
<1>5. CASE (\E n \in 0..Cost : \E fresh \in 0..n : Answer(n, fresh)) \/ (\E n \in 0..Cost : AnswerFails(n))
  <2>1. InCell /\ UNCHANGED <<file, skip>> /\ Job' = Job
    BY <1>5 DEF Answer, AnswerFails, InCell, Job, jobs
  <2>2. Answered(Job)' = Answered(Job)
    BY <2>1 DEF Answered
  <2>3. item' = item \/ item' = item + 1
    BY <1>5 DEF Answer, AnswerFails
  <2> QED
    BY <2>1, <2>2, <2>3, <1>n, <1>i DEF LoopInv
<1>6. CASE Write
  <2>1. InCell /\ skip' = skip /\ item' = item + 1 /\ Job' = Job
    BY <1>6 DEF Write, InCell, Job, jobs
  <2>2. Answered(Job)' = Answered(Job) \union {item}
    <3>1. \A c \in Cells : Answered(c)' = IF c = Job THEN Answered(c) \union {item} ELSE Answered(c)
      BY <1>6, Written
    <3> QED
      BY <3>1, <2>1, <1>n DEF Answered
  <2> QED
    BY <2>1, <2>2, <1>n, <1>i DEF LoopInv
<1>7. CASE (\E m \in Models : Expire(m)) \/ UNCHANGED vars
  <2>1. UNCHANGED <<file, proc, at, skip, item>>
    BY <1>7 DEF Expire, vars, files, jobs, cell
  <2> QED
    BY <2>1 DEF LoopInv, InCell, Job, Answered
<1> QED
  BY <1>1, <1>2, <1>3, <1>4, <1>5, <1>6, <1>7 DEF Next, Schedule

(* More items leave a complete cell complete. *)
LEMMA StillComplete ==
  ASSUME FileInv, FileInv', NEW c \in Cells, Answered(c) \subseteq Answered(c)',
         Complete(c, Cardinality(Answered(c)))
  PROVE  Complete(c, Cardinality(Answered(c)))'
<1>1. /\ Answered(c) \subseteq 1..Size[c] /\ Answered(c)' \subseteq 1..Size[c]
  BY DEF FileInv
<1>2. Size[c] \in Nat
  BY SizeAssumption
<1>3. IsFiniteSet(1..Size[c])
  BY <1>2, FS_Interval
<1>4. IsFiniteSet(Answered(c)')
  BY <1>1, <1>3, FS_Subset
<1>5. Cardinality(Answered(c)) <= Cardinality(Answered(c)')
  BY <1>4, FS_Subset
<1>6. Cardinality(Answered(c)) \in Nat /\ Cardinality(Answered(c)') \in Nat
  BY <1>1, <1>4, Counted, FS_CardinalityType
<1> QED
  BY <1>2, <1>5, <1>6 DEF Complete

(* Steps that report no job done anew keep DoneInv. *)
LEMMA StillDone ==
  ASSUME DoneInv, UNCHANGED file, proc' # "off" => proc # "off",
         \A c \in Cells : state'[c] = "done" => state[c] = "done"
  PROVE  DoneInv'
  BY DEF DoneInv, Complete, Answered

LEMMA DoneStep ==
  TypeOK /\ ProcInv /\ FileInv /\ FileInv' /\ DoneInv /\ [Next]_vars => DoneInv'
<1> SUFFICES ASSUME TypeOK, ProcInv, FileInv, FileInv', DoneInv, [Next]_vars PROVE DoneInv'
  OBVIOUS
<1>1. CASE Start
  <2>1. CASE \E c \in Cells : torn[c]
    BY <1>1, <2>1 DEF Start, DoneInv
  <2>2. CASE ~\E c \in Cells : torn[c]
    <3>1. UNCHANGED file
      BY <1>1 DEF Start, files
    <3>2. \A c \in Cells : state'[c] = "done" => Complete(c, Cardinality(Answered(c)))
      BY <1>1, <2>2 DEF Start
    <3> QED
      BY <3>1, <3>2 DEF DoneInv, Complete, Answered
  <2> QED
    BY <2>1, <2>2
<1>2. CASE RoundEnds \/ SkipJob \/ QuotaSpent \/ StartCell
  <2>1. \A c \in Cells : state'[c] = "done" => state[c] = "done"
    BY <1>2 DEF RoundEnds, SkipJob, QuotaSpent, StartCell, TypeOK
  <2> QED
    BY <1>2, <2>1, StillDone DEF RoundEnds, SkipJob, QuotaSpent, StartCell, files
<1>3. CASE Settle
  <2>1. UNCHANGED file /\ proc # "off"
    BY <1>3 DEF Settle, files
  <2>2. \A c \in Cells : state'[c] = "done" => state[c] = "done" \/ Complete(c, Cardinality(Answered(c)))
    BY <1>3 DEF Settle, TypeOK
  <2> QED
    BY <2>1, <2>2 DEF DoneInv, Complete, Answered
<1>4. CASE SkipItem \/ StopCell \/ EndCell
  <2>1. \A c \in Cells : state'[c] = "done" => state[c] = "done"
    BY <1>4 DEF SkipItem, StopCell, EndCell, Interrupted, TypeOK, jobs
  <2> QED
    BY <1>4, <2>1, StillDone DEF SkipItem, StopCell, EndCell, Interrupted, files
<1>5. CASE \E n \in 0..Cost : \E fresh \in 0..n : Answer(n, fresh)
  BY <1>5, StillDone DEF Answer, jobs
<1>6. CASE \E n \in 0..Cost : AnswerFails(n)
  <2>1. \A c \in Cells : state'[c] = "done" => state[c] = "done"
    BY <1>6 DEF AnswerFails, Interrupted, TypeOK
  <2> QED
    BY <1>6, <2>1, StillDone DEF AnswerFails
<1>7. CASE Write
  <2>1. \A c \in Cells : Answered(c) \subseteq Answered(c)'
    BY <1>7, Written
  <2>2. proc # "off" /\ state' = state
    BY <1>7 DEF Write, jobs
  <2> QED
    BY <2>1, <2>2, StillComplete DEF DoneInv
<1>8. CASE Crash \/ \E c \in Cells, m \in Models : Reconfigure(c, m)
  BY <1>8 DEF Crash, Reconfigure, DoneInv
<1>9. CASE (\E m \in Models : Expire(m)) \/ UNCHANGED vars
  BY <1>9, StillDone DEF Expire, vars, files, jobs
<1> QED
  BY <1>1, <1>2, <1>3, <1>4, <1>5, <1>6, <1>7, <1>8, <1>9 DEF Next, Schedule

------------------------------------------------------------------------------
(* What TokenInv asks of the cell that runs. *)
CellTokens == InCell /\ Throttled(Job) => used[model[Job]] + quota <= Limit + spent + errors * Cost

(* An answer, or a failed one, is only asked for below the quota: with its  *)
(* tokens the model is still below the bound.                               *)
LEMMA LogKeepsQuota ==
  ASSUME TypeOK, ProcInv, TokenInv, proc = "cell", ~OutOfTokens, NEW n \in 0..Cost, Log(n)
  PROVE  QuotaKept' /\ used'[model[Job]] = used[model[Job]] + n
<1>1. Job \in Cells /\ model[Job] \in Models /\ errors < MaxErrors
  BY JobType DEF ProcInv, AtJob, InCell, TypeOK
<1>2. /\ used \in [Models -> Nat] /\ used' = [used EXCEPT ![model[Job]] = @ + n]
      /\ n \in Nat /\ n <= Cost /\ Cost \in Nat /\ Limit \in Nat /\ MaxErrors \in Nat
      /\ errors \in Nat /\ quota \in Nat /\ spent \in Nat
  BY BoundAssumption DEF Log, TypeOK
<1>3. /\ errors * Cost \in Nat /\ MaxErrors * Cost \in Nat
      /\ errors * Cost + Cost <= MaxErrors * Cost
  BY <1>1, <1>2, OneMore
<1> HIDE DEF Bounded
<1>4. used'[model[Job]] = used[model[Job]] + n
  BY <1>1, <1>2
<1>5. ASSUME NEW m \in Metered PROVE used'[m] < Limit + MaxErrors * Cost
  <2>1. CASE m = model[Job]
    <3>1. spent < quota
      BY <1>2, <2>1 DEF OutOfTokens, Throttled
    <3>2. used[m] + quota <= Limit + spent + errors * Cost
      BY <2>1 DEF TokenInv, InCell, Throttled
    <3>3. used[m] \in Nat /\ used'[m] = used[m] + n
      BY <1>1, <1>2, <1>4, <2>1
    <3> DEFINE e == errors * Cost
               b == MaxErrors * Cost
    <3>4. e \in Nat /\ b \in Nat /\ e + Cost <= b /\ used[m] + quota <= Limit + spent + e
      BY <1>3, <3>2
    <3> HIDE DEF e, b
    <3>5. used[m] + n < Limit + b
      BY <1>2, <3>1, <3>3, <3>4
    <3> QED
      BY <3>3, <3>5 DEF b
  <2>2. CASE m # model[Job]
    <3>1. used'[m] = used[m]
      BY <1>2, <2>2, ModelAssumption
    <3> QED
      BY <3>1 DEF TokenInv, QuotaKept
  <2> QED
    BY <2>1, <2>2
<1> QED
  BY <1>4, <1>5 DEF QuotaKept

LEMMA TokenStep == TypeOK /\ ProcInv /\ TokenInv /\ [Next]_vars => TokenInv'
<1> SUFFICES ASSUME TypeOK, ProcInv, TokenInv, [Next]_vars PROVE TokenInv'
  OBVIOUS
<1>q. ASSUME UNCHANGED used PROVE QuotaKept'
  BY <1>q DEF TokenInv, QuotaKept
<1>0. ASSUME QuotaKept', CellTokens' PROVE TokenInv'
  BY <1>0 DEF TokenInv, CellTokens
<1>t. CellTokens
  BY DEF TokenInv, CellTokens
<1>1. CASE Start
  <2>1. UNCHANGED used /\ ~InCell'
    BY <1>1 DEF Start, InCell, files
  <2> QED
    BY <2>1, <1>q, <1>0 DEF CellTokens
<1>2. CASE RoundEnds \/ SkipJob \/ QuotaSpent \/ Settle \/ Crash \/ (\E c \in Cells, m \in Models : Reconfigure(c, m))
  <2>1. UNCHANGED used /\ ~InCell'
    BY <1>2 DEF RoundEnds, SkipJob, QuotaSpent, Settle, Crash, Reconfigure, InCell, files
  <2> QED
    BY <2>1, <1>q, <1>0 DEF CellTokens
<1>3. CASE StartCell
  <2>1. UNCHANGED used
    BY <1>3 DEF StartCell, files
  <2>2. CellTokens'
    <3>1. CASE Mismatch(Job)
      BY <1>3, <3>1 DEF StartCell, CellTokens, InCell
    <3>2. CASE ~Mismatch(Job)
      <4>1. Job \in Cells /\ model[Job] \in Models
        BY <1>3, JobType DEF StartCell, TypeOK
      <4>2. /\ quota' = QuotaFor(Job) /\ spent' = 0 /\ errors' = 0
            /\ UNCHANGED <<used, model>> /\ Job' = Job
            /\ (Throttled(Job) => QuotaFor(Job) > 0)
        BY <1>3, <3>2 DEF StartCell, files, Job
      <4>3. used[model[Job]] \in Nat /\ Limit \in Nat /\ Cost \in Nat
        BY <4>1, BoundAssumption DEF TypeOK
      <4>4. Throttled(Job) => used[model[Job]] + QuotaFor(Job) = Limit
        BY <4>2, <4>3 DEF QuotaFor
      <4>5. 0 * Cost = 0
        BY <4>3
      <4> QED
        BY <4>2, <4>3, <4>4, <4>5 DEF CellTokens, Throttled
    <3> QED
      BY <3>1, <3>2
  <2> QED
    BY <2>1, <2>2, <1>q, <1>0
<1>4. CASE SkipItem \/ StopCell \/ EndCell \/ Write \/ UNCHANGED vars
  <2>1. /\ UNCHANGED <<used, model, quota, spent, errors>> /\ Job' = Job
        /\ InCell' => InCell
    BY <1>4 DEF SkipItem, StopCell, EndCell, Write, Interrupted, vars, files, jobs, cell, Job, InCell
  <2>2. CellTokens'
    BY <2>1, <1>t DEF CellTokens, Throttled
  <2> QED
    BY <2>1, <2>2, <1>q, <1>0
<1>5. CASE \E n \in 0..Cost : \E fresh \in 0..n : Answer(n, fresh)
  <2>1. PICK n \in 0..Cost : \E fresh \in 0..n : Answer(n, fresh)
    BY <1>5
  <2>2. PICK fresh \in 0..n : Answer(n, fresh)
    BY <2>1
  <2>3. /\ n \in Nat /\ fresh \in 0..Cost /\ fresh <= n /\ Limit \in Nat /\ Cost \in Nat
        /\ quota \in Nat /\ spent \in Nat /\ errors \in Nat
    BY BoundAssumption DEF TypeOK
  <2>4. QuotaKept' /\ used'[model[Job]] = used[model[Job]] + fresh
    BY <2>2, <2>3, LogKeepsQuota DEF Answer
  <2>5. /\ UNCHANGED <<model, quota, errors>> /\ Job' = Job /\ spent' = spent + n /\ InCell
    BY <2>2 DEF Answer, jobs, Job, InCell
  <2>6. used[model[Job]] \in Nat /\ errors * Cost \in Nat
    <3>1. Job \in Cells /\ model[Job] \in Models
      BY <2>5, JobType DEF ProcInv, AtJob, InCell, TypeOK
    <3> QED
      BY <3>1, <2>3 DEF TypeOK
  <2>7. CellTokens'
    <3> SUFFICES ASSUME Throttled(Job)
                 PROVE  used'[model[Job]] + quota <= Limit + spent' + errors * Cost
      BY <2>5 DEF CellTokens, Throttled
    <3>1. used[model[Job]] + quota <= Limit + spent + errors * Cost
      BY <2>5, <1>t DEF CellTokens
    <3> DEFINE e == errors * Cost
               u == used[model[Job]]
    <3>2. e \in Nat /\ u \in Nat /\ u + quota <= Limit + spent + e
      BY <2>6, <3>1
    <3> HIDE DEF e, u
    <3>3. (u + fresh) + quota <= Limit + (spent + n) + e
      BY <2>3, <3>2
    <3> QED
      BY <2>4, <2>5, <3>3 DEF e, u
  <2> QED
    BY <2>4, <2>7, <1>0
<1>6. CASE \E n \in 0..Cost : AnswerFails(n)
  <2>1. PICK n \in 0..Cost : AnswerFails(n)
    BY <1>6
  <2>2. /\ n \in Nat /\ n <= Cost /\ Limit \in Nat /\ Cost \in Nat /\ MaxErrors \in Nat
        /\ quota \in Nat /\ spent \in Nat /\ errors \in Nat
    BY BoundAssumption DEF TypeOK
  <2>3. QuotaKept' /\ used'[model[Job]] = used[model[Job]] + n
    BY <2>1, LogKeepsQuota DEF AnswerFails
  <2>4. /\ UNCHANGED <<model, quota, spent>> /\ Job' = Job /\ errors' = errors + 1 /\ InCell
    BY <2>1 DEF AnswerFails, Job, InCell
  <2>5. used[model[Job]] \in Nat /\ errors < MaxErrors
    BY <2>4, JobType DEF ProcInv, AtJob, InCell, TypeOK
  <2>6. errors * Cost \in Nat /\ (errors + 1) * Cost = errors * Cost + Cost
    BY <2>2, <2>5, OneMore
  <2>7. CellTokens'
    <3> SUFFICES ASSUME Throttled(Job)
                 PROVE  used'[model[Job]] + quota <= Limit + spent + errors' * Cost
      BY <2>4 DEF CellTokens, Throttled
    <3>1. used[model[Job]] + quota <= Limit + spent + errors * Cost
      BY <2>4, <1>t DEF CellTokens
    <3> DEFINE e == errors * Cost
               f == (errors + 1) * Cost
               u == used[model[Job]]
    <3>2. e \in Nat /\ f = e + Cost /\ u \in Nat /\ u + quota <= Limit + spent + e
      BY <2>5, <2>6, <3>1
    <3> HIDE DEF e, f, u
    <3>3. (u + n) + quota <= Limit + spent + f
      BY <2>2, <3>2
    <3> QED
      BY <2>3, <2>4, <3>3 DEF f, u
  <2> QED
    BY <2>3, <2>7, <1>0
<1>7. CASE \E m \in Models : Expire(m)
  <2>1. PICK m \in Models : Expire(m)
    BY <1>7
  <2>2. PICK n \in 0..(used[m] - 1) : used' = [used EXCEPT ![m] = n]
    BY <2>1 DEF Expire, Recent
  <2>3. \A k \in Models : used[k] \in Nat /\ used'[k] \in Nat /\ used'[k] <= used[k]
    BY <2>2 DEF TypeOK
  <2>4. Limit \in Nat /\ Cost \in Nat /\ MaxErrors \in Nat /\ MaxErrors * Cost \in Nat
    BY BoundAssumption
  <2>5. QuotaKept'
    <3> SUFFICES ASSUME NEW k \in Metered PROVE used'[k] < Limit + MaxErrors * Cost
      BY DEF QuotaKept
    <3>1. used[k] < Limit + MaxErrors * Cost /\ k \in Models
      BY ModelAssumption DEF TokenInv, QuotaKept
    <3> QED
      BY <2>3, <2>4, <3>1
  <2>6. UNCHANGED <<model, quota, spent, errors, proc, at>>
    BY <2>1 DEF Expire, cell, jobs
  <2>7. CellTokens'
    <3> SUFFICES ASSUME InCell, Throttled(Job)
                 PROVE  used'[model[Job]] + quota <= Limit + spent + errors * Cost
      BY <2>6 DEF CellTokens, InCell, Throttled, Job
    <3>1. used[model[Job]] + quota <= Limit + spent + errors * Cost
      BY <1>t DEF CellTokens
    <3>2. model[Job] \in Models
      BY ModelAssumption DEF Throttled
    <3>3. errors * Cost \in Nat /\ quota \in Nat /\ spent \in Nat
      BY <2>4 DEF TypeOK
    <3> QED
      BY <2>3, <2>4, <3>1, <3>2, <3>3
  <2> QED
    BY <2>5, <2>7, <1>0
<1> QED
  BY <1>1, <1>2, <1>3, <1>4, <1>5, <1>6, <1>7 DEF Next, Schedule

------------------------------------------------------------------------------
LEMMA Initially == Init => IInv
<1> SUFFICES ASSUME Init PROVE IInv
  OBVIOUS
<1>1. TypeOK
  <2>1. 1 \in 1..(Len(Order) + 1) /\ 0 \in 0..MaxRounds
    BY JobAssumption, BoundAssumption
  <2>2. file \in [Cells -> Seq(Line)]
    BY DEF Init
  <2> QED
    BY <2>1, <2>2, ModelAssumption, BoundAssumption DEF Init, TypeOK
<1>2. ProcInv /\ TrustInv /\ LoopInv /\ DoneInv
  BY DEF Init, ProcInv, TrustInv, LoopInv, DoneInv, AtJob, InCell
<1>3. FileInv
  <2>1. \A c \in Cells : file[c] = <<>>
    BY DEF Init
  <2>2. \A c \in Cells : 1..Len(file[c]) = {}
    BY <2>1
  <2> QED
    BY <2>2 DEF FileInv, OneModelPerCell, NoItemTwice, Answered
<1>4. TokenInv
  <2>1. Limit \in Nat \ {0} /\ MaxErrors * Cost \in Nat
    BY BoundAssumption
  <2>2. \A m \in Metered : used[m] = 0
    BY ModelAssumption DEF Init
  <2> QED
    BY <2>1, <2>2 DEF Init, TokenInv, QuotaKept, InCell
<1> QED
  BY <1>1, <1>2, <1>3, <1>4 DEF IInv

(* The invariant of the schedule holds in every reachable state, for any    *)
(* cells, sizes, models, limits and budget.                                 *)
THEOREM Invariance == Safe => []IInv
<1>1. IInv /\ [Next]_vars => IInv'
  BY TypeStep, ProcStep, FileStep, TrustStep, LoopStep, DoneStep, TokenStep DEF IInv
<1> QED
  BY Initially, <1>1, PTL DEF Safe

(* A cell file never holds answers of two models, over crashes, resumed     *)
(* runs and edits of the configuration.                                     *)
THEOREM OneModel == Safe => []OneModelPerCell
<1>1. IInv => OneModelPerCell
  BY DEF IInv, FileInv
<1> QED
  BY Invariance, <1>1, PTL

(* No item of a cell is answered twice, however often the schedule is       *)
(* killed and run again.                                                    *)
THEOREM NothingTwice == Safe => []NoItemTwice
<1>1. IInv => NoItemTwice
  BY DEF IInv, FileInv
<1> QED
  BY Invariance, <1>1, PTL

(* A job reported done has an answer to each item of its cell, all of the   *)
(* model the configuration names.                                           *)
THEOREM WholeWhenDone == Safe => []DoneIsWhole
<1>1. IInv => DoneIsWhole
  <2> SUFFICES ASSUME IInv, NEW c \in Cells, proc # "off", state[c] = "done"
               PROVE  /\ \A i \in 1..Size[c] : \E k \in 1..Len(file[c]) : file[c][k].item = i
                      /\ \A k \in 1..Len(file[c]) : file[c][k].model = model[c]
    BY DEF DoneIsWhole
  <2>1. Complete(c, Cardinality(Answered(c))) /\ ~Mismatch(c)
    BY DEF IInv, DoneInv, TrustInv
  <2>2. Answered(c) = 1..Size[c]
    BY <2>1, Counted DEF IInv, FileInv, Complete
  <2> QED
    BY <2>1, <2>2 DEF Answered, Mismatch
<1> QED
  BY Invariance, <1>1, PTL

(* What a metered model has used in a day stays below its limit and the     *)
(* tokens of MaxErrors items.                                               *)
THEOREM Quota == Safe => []QuotaKept
<1>1. IInv => QuotaKept
  BY DEF IInv, TokenInv
<1> QED
  BY Invariance, <1>1, PTL
=============================================================================
