------------------------- MODULE MCConnectionManager -------------------------
(***************************************************************************)
(* A server and a client, the client of protocol 3 with bonding and        *)
(* congestion control or of protocol 1.                                    *)
(***************************************************************************)
EXTENDS ConnectionManager

CONSTANTS hub, boat, c1, c2

Option(server, reliable) ==
  [server |-> server, reliable |-> reliable, bonding |-> reliable /\ ~ server,
   congestion |-> reliable /\ ~ server]

MCOptions == [n \in {hub, boat} |->
                IF n = hub THEN {Option(TRUE, TRUE)}
                ELSE {Option(FALSE, TRUE), Option(FALSE, FALSE)}]
=============================================================================
