---------------------------- MODULE MCValueDedup ----------------------------
(***************************************************************************)
(* Model checking of ValueDedup: vessels, and the values of each, differ   *)
(* in nothing but their names.                                             *)
(***************************************************************************)
EXTENDS ValueDedup, TLC

Symmetry == Permutations(Contexts) \cup Permutations(Values)

=============================================================================
