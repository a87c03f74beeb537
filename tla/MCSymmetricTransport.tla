------------------------ MODULE MCSymmetricTransport ------------------------
(***************************************************************************)
(* SymmetricTransport for TLC.                                             *)
(***************************************************************************)
EXTENDS SymmetricTransport, TLC

Symmetry == Permutations(Socks) \cup Permutations(Relays)
=============================================================================
