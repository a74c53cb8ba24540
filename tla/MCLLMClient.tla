---------------------------- MODULE MCLLMClient ----------------------------
(* Instances of LLMClient for TLC: a tier of the experiments that is pinned *)
(* and one that is not, on the same model with different settings, as       *)
(* BACKBONE_PRIMARY and JUDGE are in config/models.yaml.                    *)
EXTENDS LLMClient, TLC

Models120b == [s \in {"high", "low"} |-> "gpt-oss-120b"]
TierSettings == [t \in {"JUDGE", "BACKBONE_PRIMARY"} |-> IF t = "JUDGE" THEN "high" ELSE "low"]

Allow(calls, fails, crashes, clears) ==
  [call |-> calls, fail |-> fails, crash |-> crashes, clear |-> clears]

Hostile == Allow(2, 1, 1, 1)
=============================================================================
