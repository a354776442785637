-------------------------------- MODULE MCAccess --------------------------------
(***************************************************************************)
(* Instances of the API access model for TLC.                              *)
(***************************************************************************)
EXTENDS AccessProperties, TLC

CONSTANT h1

OneHost == [r \in Requests |-> h1]

=============================================================================
