------------------------------- MODULE MCCapture -------------------------------
(***************************************************************************)
(* Instances of the capture and retention model for TLC.                   *)
(***************************************************************************)
EXTENDS CaptureProperties, TLC

CONSTANTS c1, c2, j1

\* Two deliveries of one job's command.
OneJob == (c1 :> j1) @@ (c2 :> j1)

=============================================================================
