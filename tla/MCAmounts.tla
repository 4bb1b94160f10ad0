----------------------------- MODULE MCAmounts -----------------------------
(***************************************************************************)
(* All pairs of numbers of three digits in base three.                     *)
(***************************************************************************)
EXTENDS Amounts
=============================================================================
