------------------------------ MODULE MCWorkspace ------------------------------
(***************************************************************************)
(* Instances of the progress model for TLC.                                *)
(***************************************************************************)
EXTENDS ProgressProperties
=============================================================================
