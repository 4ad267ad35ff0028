-------------------------- MODULE MCSequenceTracker --------------------------
(***************************************************************************)
(* Model checking of SequenceTracker.  The sequence space is walked all    *)
(* the way round, so every number meets every situation and one number,    *)
(* chosen here, stands for all in the liveness property.                   *)
(***************************************************************************)
EXTENDS SequenceTracker

Probe == 0

(* Only the timers of Probe are fair: less than Spec assumes. *)
ProbeSpec ==
  Init /\ [][Next]_vars /\ WF_vars(NAKFlush) /\ WF_vars(NAKTimer(Probe))

(* A gap at the head of the window does not last: see PinnedHeadMoves. *)
PinnedProbeMoves == PinnedHeadMoves(Probe)

=============================================================================
