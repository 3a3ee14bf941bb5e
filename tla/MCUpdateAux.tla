---------------------------- MODULE MCUpdateAux ----------------------------
(* Model values for the instances of UpdateAux that TLC checks. *)
EXTENDS UpdateAux

=============================================================================
