--------------------------- MODULE MCAttemptBudget ---------------------------
(***************************************************************************)
(* Instances of AttemptBudget for TLC.                                     *)
(***************************************************************************)
EXTENDS AttemptBudget
=============================================================================
