------------------------------ MODULE Congestion ------------------------------
(***************************************************************************)
(* The control law of the delta timer (src/transport/congestion.ts): what  *)
(* one adjustment makes of a timer under given conditions.                 *)
(*                                                                         *)
(* Arithmetic is exact, in hundredths of a millisecond; the code's doubles *)
(* may differ where a product ends in exactly one half.  b is the record   *)
(* [min, max, nominal] of the configuration.                               *)
(***************************************************************************)
EXTENDS Integers

AtLeast(a, b) == IF a >= b THEN a ELSE b
AtMost(a, b)  == IF a <= b THEN a ELSE b
Within(n, b)  == AtLeast(b.min, AtMost(b.max, n))

(* The configuration's check: min may not exceed max, all are positive. *)
BoundsOK(b) ==
  /\ b.min \in Nat \ {0} /\ b.max \in Nat /\ b.nominal \in Nat
  /\ b.min <= b.max

Nominal(b) == Within(b.nominal, b)

(* The factor, in percent.  A healthy link with its nominal at the minimum *)
(* is driven there ("legacy").                                             *)
Factor(t, conditions, b) ==
  IF conditions = "severe" THEN 150
  ELSE IF conditions = "healthy" /\ Nominal(b) = b.min THEN 95
  ELSE IF t = Nominal(b) THEN 100
  ELSE IF conditions = "healthy" THEN IF t > Nominal(b) THEN 95 ELSE 105
  ELSE IF t > Nominal(b) THEN 98 ELSE 102

(* At most maxAdjustment, a fifth, per step. *)
MaxFactor == 120

(* The timer in hundredths, kept within the bounds, rounded half up. *)
Adjust(t, conditions, b) ==
  LET scaled  == t * AtMost(MaxFactor, Factor(t, conditions, b))
      clamped == AtLeast(100 * b.min, AtMost(100 * b.max, scaled))
  IN  (clamped + 50) \div 100

Distance(m, n) == IF m >= n THEN m - n ELSE n - m

-----------------------------------------------------------------------------
(* One adjustment brings any timer, a manual override's too, back within   *)
(* the bounds.                                                             *)
StaysWithin(t, conditions, b) == Adjust(t, conditions, b) \in b.min .. b.max

(* Without severe congestion a timer within the bounds never moves away    *)
(* from the nominal by the side it is on, and at least by one millisecond  *)
(* toward it: the rounding of small timers does not stall it.              *)
MovesToNominal(t, conditions, b) ==
  conditions # "severe" /\ t \in b.min .. b.max /\ t >= 50 =>
    LET next == Adjust(t, conditions, b)
    IN  IF t > Nominal(b) THEN next < t
        ELSE IF t < Nominal(b) THEN next > t ELSE next = t

(* Within one step of the nominal it stays so.  With MovesToNominal every  *)
(* timer settles there; it need not stop (980, 1000, 980, ... around 990). *)
Near(t, b) == 100 * Distance(t, Nominal(b)) <= 5 * Nominal(b) + 50
StaysNear(t, conditions, b) ==
  conditions # "severe" /\ Near(t, b) => Near(Adjust(t, conditions, b), b)
=============================================================================
