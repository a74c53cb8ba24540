------------------------------ MODULE Scoring ------------------------------
(***************************************************************************)
(* The evaluation that stands on the benchmark: the contract its instances *)
(* are handed over in (Contract), the instances made up before there is    *)
(* one (Mock), the choices made on the dev split (Tuning), how the         *)
(* detection is scored (Classifying), the systems that are compared        *)
(* (Baselines), how their answers are read (Reading) and judged (Judging), *)
(* and what is planned and concluded from it (Endpoints).  Each is a       *)
(* program of its own, run on finished files.                              *)
(***************************************************************************)
EXTENDS Mock, Tuning, Classifying, Baselines, Reading, Judging, Endpoints

scoreVars == <<contractVars, mockVars, tuneVars, classVars, baseVars, readVars, judgeVars, endVars>>

ScoringInit == ContractInit /\ MockInit /\ TuneInit /\ ClassInit /\ BaseInit /\ ReadInit /\ JudgeInit /\ EndInit

ScoringStep(part) ==
  \/ part = "contract" /\ ContractNext /\ UNCHANGED <<mockVars, tuneVars, classVars, baseVars, readVars, judgeVars, endVars>>
  \/ part = "mock" /\ MockNext /\ UNCHANGED <<contractVars, tuneVars, classVars, baseVars, readVars, judgeVars, endVars>>
  \/ part = "tuning" /\ TuneNext /\ UNCHANGED <<contractVars, mockVars, classVars, baseVars, readVars, judgeVars, endVars>>
  \/ part = "classifying" /\ ClassNext /\ UNCHANGED <<contractVars, mockVars, tuneVars, baseVars, readVars, judgeVars, endVars>>
  \/ part = "baselines" /\ BaseNext /\ UNCHANGED <<contractVars, mockVars, tuneVars, classVars, readVars, judgeVars, endVars>>
  \/ part = "reading" /\ ReadNext /\ UNCHANGED <<contractVars, mockVars, tuneVars, classVars, baseVars, judgeVars, endVars>>
  \/ part = "judging" /\ JudgeNext /\ UNCHANGED <<contractVars, mockVars, tuneVars, classVars, baseVars, readVars, endVars>>
  \/ part = "endpoints" /\ EndNext /\ UNCHANGED <<contractVars, mockVars, tuneVars, classVars, baseVars, readVars, judgeVars>>
=============================================================================
