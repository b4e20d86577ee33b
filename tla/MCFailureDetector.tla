------------------------- MODULE MCFailureDetector -------------------------
(***************************************************************************)
(* Small instances of FailureDetector for TLC.                             *)
(***************************************************************************)
EXTENDS FailureDetector

CONSTANTS n1, n2

=============================================================================
