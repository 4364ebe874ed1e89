-------------------------------- MODULE MCApi --------------------------------
(* Instances of the API process for TLC. *)
EXTENDS ApiProps
=============================================================================
