--------------------------- MODULE SequenceTracker ---------------------------
(***************************************************************************)
(* One sequence tracker of the receiver, driven by datagrams in any order,  *)
(* by its own NAK timers and by the session that owns it (reset).           *)
(*                                                                          *)
(* A datagram of any number may arrive at any time: the network loses,      *)
(* repeats, delays and reorders.  A NAK timer may fire once it is armed;    *)
(* Node runs timers in the order of their expiry, so the flush (0 ms) that  *)
(* a firing schedules runs before that number's re-armed timer (nakTimeout, *)
(* at least 20 ms) fires again.                                             *)
(*                                                                          *)
(* accepted, abandoned and nakRounds are history: what the caller of the    *)
(* tracker has been told so far about the numbers near the window.          *)
(***************************************************************************)
EXTENDS SequenceTrackerOps

VARIABLES
  tracker,      \* the SequenceTracker object
  accepted,     \* numbers whose payload was handed on since the last baseline
  abandoned,    \* numbers reported by onGapAbandoned since then
  nakRounds     \* NAKs handed to onLossDetected per number still missing

vars == <<tracker, accepted, abandoned, nakRounds>>

-----------------------------------------------------------------------------
(* History is kept for the numbers a datagram can still reach: those at or *)
(* ahead of the window, and those behind it that are late, not a resync.   *)
Remembered(t, S) ==
  {s \in S : IsBehind(s, t.expectedSeq) =>
               Dist(s, t.expectedSeq) <= BehindResyncThreshold}

NoRounds == [s \in SeqNum |-> 0]

Init ==
  /\ tracker = NewTracker
  /\ accepted = {}
  /\ abandoned = {}
  /\ nakRounds = NoRounds

(* processSequence(s), and the caller dispatching s when it is fresh.  A   *)
(* number exactly half the space away from the window does not arrive: the *)
(* numbers of one sender stay within a few thousand of it.                 *)
Receive(s) ==
  LET class == Classify(tracker, s) IN
  /\ class # "halfRange"
  /\ tracker' = ProcessSequence(tracker, s)
  /\ IF class \in {"first", "resync"}
     THEN /\ accepted' = {s}
          /\ abandoned' = {}
          /\ nakRounds' = NoRounds
     ELSE /\ accepted' = Remembered(tracker',
               IF IsFreshData(tracker, s) THEN accepted \cup {s} ELSE accepted)
          /\ abandoned' = Remembered(tracker', abandoned)
          /\ nakRounds' = [nakRounds EXCEPT ![s] = 0]

(* The timer of s expires: queue a NAK, or give the number up. *)
NAKTimer(s) ==
  /\ s \in tracker.nakTimers
  /\ s \notin tracker.pendingNAKs
  /\ tracker' = FireNAKTimer(tracker, s)
  /\ accepted' = Remembered(tracker', accepted)
  /\ abandoned' = Remembered(tracker',
       IF GivesUp(tracker, s) THEN abandoned \cup {s} ELSE abandoned)
  /\ nakRounds' = IF GivesUp(tracker, s)
                  THEN [nakRounds EXCEPT ![s] = 0] ELSE nakRounds

(* The coalescing timer expires: one NAK for everything still missing. *)
NAKFlush ==
  /\ tracker.flushArmed
  /\ tracker' = FlushNAKs(tracker)
  /\ nakRounds' = [s \in SeqNum |-> IF s \in NAKBatch(tracker)
                                    THEN nakRounds[s] + 1 ELSE nakRounds[s]]
  /\ UNCHANGED <<accepted, abandoned>>

(* The session restarts or expires. *)
Reset ==
  /\ tracker' = ResetTracker(tracker)
  /\ accepted' = {}
  /\ abandoned' = {}
  /\ nakRounds' = NoRounds

Next ==
  \/ \E s \in SeqNum : Receive(s)
  \/ \E s \in SeqNum : NAKTimer(s)
  \/ NAKFlush
  \/ Reset

(* Armed timers fire; nothing forces a datagram to arrive. *)
Fairness == WF_vars(NAKFlush) /\ \A s \in SeqNum : WF_vars(NAKTimer(s))

Spec == Init /\ [][Next]_vars /\ Fairness

-----------------------------------------------------------------------------
(* The tracker keeps the types of its fields, retry counters within        *)
(* maxNakRounds.                                                           *)
TypeOK ==
  /\ tracker \in Tracker
  /\ accepted \subseteq SeqNum
  /\ abandoned \subseteq SeqNum
  /\ nakRounds \in [SeqNum -> 0 .. MaxNakRounds]

(* The timer table covers the gaps and nothing else: a missing number      *)
(* always has a timer armed (it will be asked for again or given up, it    *)
(* cannot pin the window for ever), and no timer outlives the arrival, the *)
(* abandonment or the passing of its number.                               *)
TimersExactlyOnGaps == tracker.nakTimers = Missing(tracker)

(* No NAK state is left behind for a number that is no longer missing: the *)
(* leak of retry counters the comment of _cancelNAK warns about.           *)
NakStateNeedsTimer == StateNeedsTimer(tracker)

(* A queued NAK is always about to be flushed, also after a flush timer    *)
(* was cancelled by a re-baseline.                                         *)
QueuedNAKsAreFlushed == tracker.pendingNAKs # {} => tracker.flushArmed

(* The window never rests on a number it has: the contiguous advance of    *)
(* _processInOrder and of _abandonSequence leaves nothing behind.          *)
HeadIsMissing == tracker.expectedSeq \notin tracker.receivedSeqs

(* Memory is bounded: receivedSeqs lies near the window, and the timer     *)
(* table never reaches the limit at which _scheduleNAK would evict the     *)
(* oldest gap.                                                             *)
Bounded ==
  /\ KeptNear(tracker)
  /\ Cardinality(tracker.nakTimers) <= MaxGapTracking

(* Everything buffered ahead was handed on or given up, so that the window *)
(* may pass it.                                                            *)
BufferedIsSettled == BufferedAhead(tracker) \subseteq accepted \cup abandoned

(* Nothing is remembered from before the baseline. *)
HistoryNeedsBaseline ==
  /\ EmptyWithoutBaseline(tracker)
  /\ tracker.expectedSeq = NoSeq => accepted \cup abandoned = {}

(* A payload is handed on at most once between two baselines, and never    *)
(* after its number was given up, however often and late its datagram      *)
(* arrives: the tracker calls every such number a duplicate or late.       *)
HandedOnOnce == \A s \in accepted \cup abandoned : ~ IsFreshData(tracker, s)

(* The retry counter the code keeps is the number of NAKs the sender was   *)
(* sent, plus the one that is queued.                                      *)
RoundsAreCounted ==
  \A s \in SeqNum :
    tracker.nakAttempts[s] =
      nakRounds[s] + (IF s \in tracker.pendingNAKs THEN 1 ELSE 0)

(* The strengthening of the invariants above that every step preserves. *)
IInv ==
  /\ TypeOK
  /\ TimersExactlyOnGaps
  /\ NakStateNeedsTimer
  /\ QueuedNAKsAreFlushed
  /\ HeadIsMissing
  /\ KeptNear(tracker)
  /\ BufferedIsSettled
  /\ HistoryNeedsBaseline
  /\ HandedOnOnce
  /\ RoundsAreCounted

-----------------------------------------------------------------------------
(* The steps that set a new baseline or drop the old one. *)
Rebaseline ==
  \/ Reset
  \/ \E s \in SeqNum : /\ Classify(tracker, s) \in {"first", "resync"}
                       /\ Receive(s)

(* Except at a new baseline, the window moves forward only, and every      *)
(* number it passes was handed on or given up: what the cumulative ACK     *)
(* (expectedSeq - 1) confirms is never silently skipped.                   *)
AckedOnlyIfSettled ==
  [][\/ Rebaseline
     \/ \A s \in SeqNum :
          Dist(tracker.expectedSeq, s)
             < Dist(tracker.expectedSeq, tracker'.expectedSeq)
          => s \in accepted' \cup abandoned']_vars

(* A number is given up only after the sender was asked for it the full    *)
(* MaxNakRounds times (the off-by-one the comment in the timer callback    *)
(* describes).                                                             *)
AbandonedOnlyAfterAllRounds ==
  [][\A s \in abandoned' \ abandoned : nakRounds[s] = MaxNakRounds]_vars

(* A gap at the head of the window does not last: the number arrives, is   *)
(* given up, or the window is re-baselined, so the cumulative ACK moves.   *)
PinnedHeadMoves(e) ==
  (tracker.expectedSeq = e /\ BufferedAhead(tracker) # {})
    ~> tracker.expectedSeq # e

=============================================================================
