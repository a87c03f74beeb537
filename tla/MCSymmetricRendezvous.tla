----------------------- MODULE MCSymmetricRendezvous ------------------------
(***************************************************************************)
(* SymmetricRendezvous for TLC.                                            *)
(***************************************************************************)
EXTENDS SymmetricRendezvous, TLC

Symmetry == Permutations(Scans)
=============================================================================
