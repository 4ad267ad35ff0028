------------------------------ MODULE MCBonding ------------------------------
(***************************************************************************)
(* Bonding with one link of two that has an interface to bind to, and, on  *)
(* the same run, the control law of Congestion over bounded inputs: both   *)
(* decide from the health of the path how a client sends.                  *)
(***************************************************************************)
EXTENDS Bonding, Congestion

Conditions == {"severe", "healthy", "middle"}
Bounds == {[min |-> 100, max |-> 5000, nominal |-> 1000],
           [min |-> 50, max |-> 1000, nominal |-> 100],
           [min |-> 1000, max |-> 1000, nominal |-> 10000],
           [min |-> 200, max |-> 2000, nominal |-> 200]}
Timers == {50, 51, 99, 100, 101, 980, 990, 999, 1000, 1001, 1010, 4999, 30000}

(* The control law, from any timer a manual override may have left. *)
ASSUME ControlLawChecked ==
  \A c \in Conditions, b \in Bounds, t \in Timers :
    /\ StaysWithin(t, c, b)
    /\ MovesToNominal(t, c, b)
    /\ StaysNear(t, c, b)
=============================================================================
