---------------------------- MODULE ReplayFilter ----------------------------
(***************************************************************************)
(* What a replay window promises, without a window: every number accepted  *)
(* within the last half of the space is remembered, and a number is fresh  *)
(* when it is ahead of all of them, or at most Size - 1 behind the highest *)
(* and not accepted before.  This is the description at the head of        *)
(* src/transport/reliability/replay-window.ts.                             *)
(***************************************************************************)
EXTENDS SerialArithmetic

CONSTANT Size      \* REPLAY_WINDOW_SIZE

VARIABLES
  highest,      \* the highest number accepted in this epoch
  accepted,     \* all numbers accepted, back to half the space
  verdict       \* the last number received, and whether it was fresh

vars == <<highest, accepted, verdict>>

NoVerdict == [seq |-> NoSeq, fresh |-> FALSE]

Init ==
  /\ highest = NoSeq
  /\ accepted = {}
  /\ verdict = NoVerdict

Ahead(s) == highest = NoSeq \/ IsAhead(s, highest)

Fresh(s) == Ahead(s) \/ (Dist(s, highest) < Size /\ s \notin accepted)

Receive(s) ==
  /\ verdict' = [seq |-> s, fresh |-> Fresh(s)]
  /\ highest' = IF Ahead(s) THEN s ELSE highest
  /\ accepted' = {t \in IF Fresh(s) THEN accepted \cup {s} ELSE accepted :
                    Dist(t, highest') < HalfSpace}

Reset ==
  /\ highest' = NoSeq
  /\ accepted' = {}
  /\ verdict' = NoVerdict

Next == Reset \/ \E s \in SeqNum : Receive(s)

Spec == Init /\ [][Next]_vars

=============================================================================
