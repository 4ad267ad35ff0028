--------------------------- MODULE ReplayWindowOps ---------------------------
(***************************************************************************)
(* The operations of ReplayWindow (src/transport/reliability/              *)
(* replay-window.ts): which sequence numbers of one peer and epoch were    *)
(* accepted already, remembered for the last Size numbers.                 *)
(*                                                                         *)
(* Entries that fall out of the window are removed only when the set has   *)
(* grown past Size, so the set also holds numbers older than the window.   *)
(***************************************************************************)
EXTENDS SerialArithmetic, FiniteSets

CONSTANT Size      \* REPLAY_WINDOW_SIZE

ASSUME WindowAssumption == Size \in Nat \ {0} /\ Size < HalfSpace

ReplayWindow ==
  [highest : SeqNum \cup {NoSeq},
   seen    : SUBSET SeqNum]

(* The constructor; reset gives the same. *)
NewWindow == [highest |-> NoSeq, seen |-> {}]

(* At most Size - 1 behind h. *)
Inside(s, h) == Dist(s, h) < Size

(* _pruneIfNeeded *)
PruneIfNeeded(w) ==
  IF Cardinality(w.seen) <= Size THEN w
  ELSE [w EXCEPT !.seen = {t \in @ : Inside(t, w.highest)}]

(* The verdict of accept. *)
Accepts(w, s) ==
  \/ w.highest = NoSeq
  \/ IsAhead(s, w.highest)
  \/ Inside(s, w.highest) /\ s \notin w.seen

(* Defect: a number accepted inside the window is not remembered. *)
AcceptForgetful(w, s) ==
  IF w.highest = NoSeq THEN [highest |-> s, seen |-> {s}]
  ELSE IF IsAhead(s, w.highest)
  THEN PruneIfNeeded([highest |-> s, seen |-> w.seen \cup {s}])
  ELSE w

(* accept *)
Accept(w, s) ==
  IF w.highest = NoSeq THEN [highest |-> s, seen |-> {s}]
  ELSE IF IsAhead(s, w.highest)
  THEN PruneIfNeeded([highest |-> s, seen |-> w.seen \cup {s}])
  ELSE IF Accepts(w, s) THEN [w EXCEPT !.seen = @ \cup {s}]
  ELSE w

=============================================================================
