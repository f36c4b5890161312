---------------------------- MODULE MCAppUpdate ----------------------------
(* Model-checking instance of AppUpdate: the bounds are in the cfg files. *)
EXTENDS AppUpdate
=============================================================================
