---------------------------- MODULE MCCicloDeVida ----------------------------
(***************************************************************************)
(* Small counts for TLC, zeros included.                                   *)
(***************************************************************************)
EXTENDS CicloDeVida

CuentasChicas == [n : 0 .. 1, m : 0 .. 1, h : 0 .. 1, l : 0 .. 2, t : {2}]

=============================================================================
