--------------------------- MODULE MCCellSchedule ---------------------------
(* Two cells on the same metered model, two items in the first. *)
EXTENDS CellSchedule, TLC

TwoCells == <<"B0", "O3">>
Sizes == [c \in {"B0", "O3"} |-> IF c = "B0" THEN 2 ELSE 1]
OneModel == [c \in {"B0", "O3"} |-> "120b"]

Allow(failing, dying, edits) == [error |-> failing, crash |-> dying, config |-> edits]

Trouble == Allow(2, 1, 1)
=============================================================================
