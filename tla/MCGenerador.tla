---------------------------- MODULE MCGenerador ----------------------------
(***************************************************************************)
(* The generator with the arguments of the configurations.                 *)
(***************************************************************************)
EXTENDS Generador

=============================================================================
