-------------------------- MODULE MCControlChannel --------------------------
(***************************************************************************)
(* ControlChannel for TLC.                                                 *)
(***************************************************************************)
EXTENDS ControlChannel, TLC

Symmetry == Permutations(Conns)
=============================================================================
