------------------------- MODULE SequenceTrackerOps -------------------------
(***************************************************************************)
(* The receiver's sequence tracker (class SequenceTracker of               *)
(* src/transport/reliability/sequence.ts) as operators on its state, so    *)
(* that one tracker (SequenceTracker) and the trackers of all the sessions *)
(* of a server (ReliableServer, ReliableLink) are the same code.           *)
(*                                                                         *)
(* A tracker is a record:                                                  *)
(*   expectedSeq   next sequence number in order, NoSeq before the first   *)
(*   receivedSeqs  numbers received (or given up) around the window        *)
(*   nakTimers     numbers whose NAK timer is armed                        *)
(*   nakAttempts   NAK rounds already queued per number (0: no map entry)  *)
(*   pendingNAKs   numbers waiting for the next coalesced NAK              *)
(*   flushArmed    the coalescing timer is armed                           *)
(***************************************************************************)
EXTENDS SerialArithmetic, FiniteSets, SequencesExt

CONSTANTS
  MaxOutOfOrder,          \* depth of receivedSeqs kept behind the window
  MaxGapTracking,         \* longest gap chased before re-baselining
  BehindResyncThreshold,  \* how far behind a number may be and still be late
  MaxNakRounds            \* NAKs per missing number before it is given up

ASSUME TrackerAssumption ==
  /\ MaxOutOfOrder \in Nat \ {0, 1}
  /\ MaxGapTracking \in Nat \ {0}
  /\ BehindResyncThreshold \in Nat \ {0}
  /\ MaxNakRounds \in Nat \ {0}
  /\ MaxOutOfOrder + MaxGapTracking + BehindResyncThreshold < HalfSpace

Tracker == [expectedSeq  : SeqNum \cup {NoSeq},
            receivedSeqs : SUBSET SeqNum,
            nakTimers    : SUBSET SeqNum,
            nakAttempts  : [SeqNum -> 0 .. MaxNakRounds],
            pendingNAKs  : SUBSET SeqNum,
            flushArmed   : BOOLEAN]

NewTracker == [expectedSeq  |-> NoSeq,
               receivedSeqs |-> {},
               nakTimers    |-> {},
               nakAttempts  |-> [s \in SeqNum |-> 0],
               pendingNAKs  |-> {},
               flushArmed   |-> FALSE]

-----------------------------------------------------------------------------
(* Defect: the retry counter survives the cancellation. *)
CancelNAKsLeaky(t, S) ==
  [t EXCEPT !.nakTimers = @ \ S, !.pendingNAKs = @ \ S]

(* _cancelNAK, for a set of numbers: timer, retry counter, queued entry. *)
CancelNAKs(t, S) ==
  [t EXCEPT !.nakTimers   = @ \ S,
            !.nakAttempts = [s \in SeqNum |-> IF s \in S THEN 0 ELSE @[s]],
            !.pendingNAKs = @ \ S]

(* _clearNAKTimers *)
ClearNAKTimers(t) ==
  [t EXCEPT !.nakTimers   = {},
            !.nakAttempts = [s \in SeqNum |-> 0],
            !.pendingNAKs = {},
            !.flushArmed  = FALSE]

(* _cleanupOldSequences *)
CleanupOldSequences(t) ==
  [t EXCEPT !.receivedSeqs =
     {s \in @ : ~ IsBehind(s, Dist(MaxOutOfOrder, t.expectedSeq))}]

(* How many numbers from s on are in R without interruption. *)
RunLength(R, s) ==
  CHOOSE k \in 0 .. SeqSpace - 1 :
    /\ Plus(s, k) \notin R
    /\ \A j \in 0 .. k - 1 : Plus(s, j) \in R

(* Defect: the advance steps over the first missing number as well. *)
AdvanceTooFar(t) ==
  LET next == Succ(t.expectedSeq)
      run  == RunLength(t.receivedSeqs, next) + 1
  IN  CleanupOldSequences(
        [CancelNAKs(t, {Plus(next, j) : j \in 0 .. run - 1})
           EXCEPT !.expectedSeq = Plus(next, run)])

(* The contiguous advance: step over expectedSeq and everything buffered   *)
(* right behind it.  The tail of _processInOrder and of _abandonSequence.  *)
AdvanceWindow(t) ==
  LET next   == Succ(t.expectedSeq)
      run    == RunLength(t.receivedSeqs, next)
      walked == {Plus(next, j) : j \in 0 .. run - 1}
  IN  CleanupOldSequences(
        [CancelNAKs(t, walked) EXCEPT !.expectedSeq = Plus(next, run)])

(* _resync: a new baseline at s *)
Resync(t, s) ==
  [ClearNAKTimers(t) EXCEPT !.receivedSeqs = {s},
                            !.expectedSeq  = Succ(s)]

(* reset *)
ResetTracker(t) ==
  [ClearNAKTimers(t) EXCEPT !.receivedSeqs = {},
                            !.expectedSeq  = NoSeq]

-----------------------------------------------------------------------------
(* The tracked number no other tracked number is behind. *)
OldestTimer(t) ==
  CHOOSE s \in t.nakTimers : \A r \in t.nakTimers : ~ IsBehind(r, s)

(* _scheduleNAK: arm the timer of s, evicting the oldest one when full. *)
ScheduleNAK(t, s) ==
  IF s \in t.nakTimers THEN t
  ELSE LET room == IF Cardinality(t.nakTimers) >= MaxGapTracking
                   THEN CancelNAKs(t, {OldestTimer(t)})
                   ELSE t
       IN  [room EXCEPT !.nakTimers = @ \cup {s}]

(* The numbers of [expectedSeq, s) that have not been received. *)
MissingBefore(t, s) ==
  {m \in SeqNum : /\ Dist(t.expectedSeq, m) < Dist(t.expectedSeq, s)
                  /\ m \notin t.receivedSeqs}

(* Timers armed one after the other with the table at its limit. *)
ScheduleEvicting(t, s) ==
  LET gap == [i \in 1 .. Dist(t.expectedSeq, s) |-> Plus(t.expectedSeq, i - 1)]
  IN  FoldLeft(ScheduleNAK, t,
               SelectSeq(gap, LAMBDA m : m \in MissingBefore(t, s)))

(* The gap walk of _processAhead.  As long as the table has room for every *)
(* missing number no timer is evicted and the order does not matter.       *)
ScheduleGap(t, s) ==
  IF Cardinality(t.nakTimers \cup MissingBefore(t, s)) <= MaxGapTracking
  THEN [t EXCEPT !.nakTimers = @ \cup MissingBefore(t, s)]
  ELSE ScheduleEvicting(t, s)

-----------------------------------------------------------------------------
(* What processSequence makes of a number. *)
Classify(t, s) ==
  IF t.expectedSeq = NoSeq THEN "first"
  ELSE IF s \in t.receivedSeqs THEN "duplicate"
  ELSE IF IsBehind(s, t.expectedSeq)
       THEN IF Dist(s, t.expectedSeq) > BehindResyncThreshold
            THEN "resync" ELSE "late"
  ELSE IF s = t.expectedSeq THEN "inOrder"
  ELSE IF IsAhead(s, t.expectedSeq)
       THEN IF Dist(t.expectedSeq, s) > MaxGapTracking
            THEN "resync" ELSE "ahead"
  ELSE "halfRange"

(* The arrival of a number at or ahead of the window is recorded and       *)
(* satisfies its NAK; a large set is cleaned up at once.                   *)
RecordArrival(t, s) ==
  LET r == [CancelNAKs(t, {s}) EXCEPT !.receivedSeqs = @ \cup {s}]
  IN  IF Cardinality(r.receivedSeqs) > 2 * MaxGapTracking
      THEN CleanupOldSequences(r) ELSE r

(* processSequence: the tracker after s has been processed. *)
ProcessSequence(t, s) ==
  LET class == Classify(t, s) IN
  CASE class = "first"     -> [t EXCEPT !.receivedSeqs = @ \cup {s},
                                        !.expectedSeq  = Succ(s)]
    [] class = "duplicate" -> t
    [] class = "late"      -> [CancelNAKs(t, {s}) EXCEPT
                                 !.receivedSeqs = @ \cup {s}]
    [] class = "resync"    -> Resync(t, s)
    [] class = "inOrder"   -> AdvanceWindow(RecordArrival(t, s))
    [] class = "ahead"     -> CleanupOldSequences(
                                ScheduleGap(RecordArrival(t, s), s))
    [] class = "halfRange" -> RecordArrival(t, s)

(* Defect: a late number counts as fresh. *)
IsNotDuplicate(t, s) == Classify(t, s) # "duplicate"

(* The caller may dispatch the payload: neither duplicate nor late. *)
IsFreshData(t, s) == Classify(t, s) \notin {"duplicate", "late"}

-----------------------------------------------------------------------------
(* _abandonSequence *)
AbandonSequence(t, s) ==
  LET u == [CancelNAKs(t, {s}) EXCEPT !.receivedSeqs = @ \cup {s}]
  IN  IF s = t.expectedSeq THEN AdvanceWindow(u) ELSE u

(* Defect: the budget ends one round early. *)
GivesUpEarly(t, s) ==
  s \notin t.receivedSeqs /\ t.nakAttempts[s] + 1 >= MaxNakRounds

(* The NAK timer of s fires for the last time: every round has been used. *)
GivesUp(t, s) ==
  s \notin t.receivedSeqs /\ t.nakAttempts[s] + 1 > MaxNakRounds

(* Defect: the timer is not armed again after a NAK. *)
FireOnce(t, s) ==
  LET fired == [t EXCEPT !.nakTimers = @ \ {s}] IN
  IF s \in t.receivedSeqs THEN fired
  ELSE IF GivesUp(t, s) THEN AbandonSequence(fired, s)
  ELSE [fired EXCEPT !.nakAttempts[s] = @ + 1,
                     !.pendingNAKs    = @ \cup {s},
                     !.flushArmed     = TRUE]

(* The callback of the NAK timer of s. *)
FireNAKTimer(t, s) ==
  LET fired == [t EXCEPT !.nakTimers = @ \ {s}] IN
  IF s \in t.receivedSeqs THEN fired
  ELSE IF GivesUp(t, s) THEN AbandonSequence(fired, s)
  ELSE ScheduleNAK([fired EXCEPT !.nakAttempts[s] = @ + 1,
                                 !.pendingNAKs    = @ \cup {s},
                                 !.flushArmed     = TRUE], s)

(* _flushNAKs: the batch handed to onLossDetected, and the tracker after it. *)
NAKBatch(t) == t.pendingNAKs \ t.receivedSeqs
FlushNAKs(t) == [t EXCEPT !.pendingNAKs = {}, !.flushArmed = FALSE]

-----------------------------------------------------------------------------
(* What is true of every tracker between two calls. *)

(* Received numbers in front of the window: what has been buffered ahead. *)
BufferedAhead(t) == {r \in t.receivedSeqs : IsAhead(r, t.expectedSeq)}

(* The numbers known to be missing: at or past expectedSeq, not received,  *)
(* with something received further ahead.                                  *)
Missing(t) ==
  {m \in SeqNum \ t.receivedSeqs :
     \E r \in BufferedAhead(t) :
        Dist(t.expectedSeq, m) < Dist(t.expectedSeq, r)}

(* What is kept lies within the late window behind expectedSeq or the      *)
(* tracked gap ahead of it.                                                *)
Near(e, r) ==
  \/ Dist(r, e) <= MaxOutOfOrder
  \/ Dist(r, e) <= BehindResyncThreshold
  \/ Dist(e, r) <= MaxGapTracking

KeptNear(t) == \A r \in t.receivedSeqs : Near(t.expectedSeq, r)

(* A retry counter or a queued NAK exists only next to an armed timer. *)
StateNeedsTimer(t) ==
  /\ t.pendingNAKs \subseteq t.nakTimers
  /\ \A s \in SeqNum : t.nakAttempts[s] > 0 => s \in t.nakTimers

(* A tracker without a baseline holds nothing. *)
EmptyWithoutBaseline(t) == t.expectedSeq = NoSeq => t.receivedSeqs = {}

=============================================================================
