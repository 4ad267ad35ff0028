-------------------------- MODULE MCReliableServer --------------------------
(***************************************************************************)
(* Three peers: p1, whose client restarts with lower numbers, and p2, a    *)
(* legacy client, share an address; p3 sends no data and competes for the  *)
(* tables.                                                                 *)
(***************************************************************************)
EXTENDS ReliableServer

CONSTANTS p1, p2, p3, A, B

MCAddressOf == (p1 :> A) @@ (p2 :> A) @@ (p3 :> B)
MCStarts    == (p1 :> 2) @@ (p2 :> 1) @@ (p3 :> 1)
MCFirstSeq  == (p1 :> <<5, 4>>) @@ (p2 :> <<0>>) @@ (p3 :> <<0>>)
MCNumbers   == (p1 :> 2) @@ (p2 :> 1) @@ (p3 :> 0)

(* Nothing switched on, and everything. *)
MCOptions == {[authenticatedHeaders |-> b, epochBoundAuth |-> b] : b \in BOOLEAN}

(* The numbers of p1's two starts are close to each other. *)
ASSUME FitAssumption == NumbersWithin(HalfSpace - 1)

=============================================================================
