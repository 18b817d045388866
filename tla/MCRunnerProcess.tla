--------------------------- MODULE MCRunnerProcess ---------------------------
(***************************************************************************)
(* Small instances of RunnerProcess.  Unrelated processes may get id o.    *)
(***************************************************************************)
EXTENDS RunnerProcess

CONSTANTS r1, r2, o, h1, h2
=============================================================================
