------------------------------- MODULE Study -------------------------------
(***************************************************************************)
(* The making of the benchmark beside the running system: the blind passes *)
(* that label it (BlindPasses), the review of what a model proposed for it *)
(* (HumanLoop), the split and the frozen test file that keep it honest     *)
(* (HeldOut), the evaluation that stands on it (Scoring) and the bundle it *)
(* is published in (Release).                                              *)
(*                                                                         *)
(* The parts run at different times, in processes of their own, and hand   *)
(* each other finished files; no step of one touches the state of another. *)
(* So a behaviour is one of one part, which starts from any input it can   *)
(* be given, and the others stand still.                                   *)
(***************************************************************************)
EXTENDS BlindPasses, HumanLoop, HeldOut, Scoring, Release

VARIABLE
  work       (* the part that is at work                                   *)

Parts == {"passes", "loop", "held", "contract", "mock", "tuning", "classifying", "baselines", "reading", "judging",
          "endpoints", "release"}

StudyInit ==
  /\ work \in Parts
  /\ PassesInit /\ LoopInit /\ HeldInit /\ ScoringInit /\ ReleaseInit

StudyNext ==
  /\ \/ work = "passes" /\ PassesNext /\ UNCHANGED <<loopVars, heldVars, scoreVars, releaseVars>>
     \/ work = "loop" /\ LoopNext /\ UNCHANGED <<passVars, heldVars, scoreVars, releaseVars>>
     \/ work = "held" /\ HeldNext /\ UNCHANGED <<passVars, loopVars, scoreVars, releaseVars>>
     \/ ScoringStep(work) /\ UNCHANGED <<passVars, loopVars, heldVars, releaseVars>>
     \/ work = "release" /\ ReleaseNext /\ UNCHANGED <<passVars, loopVars, heldVars, scoreVars>>
  /\ UNCHANGED work

studyVars == <<work, passVars, loopVars, heldVars, scoreVars, releaseVars>>

StudySpec == StudyInit /\ [][StudyNext]_studyVars
=============================================================================
