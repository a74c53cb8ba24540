------------------------------ MODULE MCConsole ------------------------------
(***************************************************************************)
(* Two runs: one with two stages, and one whose only stage fails.           *)
(***************************************************************************)
EXTENDS Console

Ev(g, k) == [stage |-> g, kind |-> k]

MCScripts ==
    << <<Ev("run", "start"), Ev("detect", "start"), Ev("detect", "end"),
         Ev("scope", "start"), Ev("scope", "end"), Ev("run", "end")>>,
       <<Ev("detect", "start"), Ev("detect", "error"), Ev("run", "error")>> >>
=============================================================================
