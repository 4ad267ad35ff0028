----------------------------- MODULE MCHandshake -----------------------------
(***************************************************************************)
(* Two ports of one address, in no way different but by their names.       *)
(***************************************************************************)
EXTENDS Handshake, TLC

Symmetry == Permutations(Ports)

=============================================================================
