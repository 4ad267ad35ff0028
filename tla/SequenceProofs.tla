--------------------------- MODULE SequenceProofs ---------------------------
(***************************************************************************)
(* Facts about serial arithmetic, the least number of a set of naturals,   *)
(* and what the operators of SequenceTrackerOps make of a tracker, for     *)
(* every size of the sequence space, every window and every number of NAK  *)
(* rounds.                                                                 *)
(***************************************************************************)
EXTENDS SequenceTrackerOps, TLAPS, WellFoundedInduction, FiniteSetTheorems,
        SequenceTheorems

(* The distance between two numbers is itself a number of the space. *)
LEMMA DistType ==
  ASSUME NEW a \in SeqNum, NEW b \in SeqNum
  PROVE  /\ Dist(a, b) \in SeqNum
         /\ Dist(a, b) = 0 <=> a = b
         /\ a # b => Dist(a, b) + Dist(b, a) = SeqSpace
BY HalfSpaceAssumption, SMT DEF Dist, SeqNum, SeqSpace

(* Adding a distance is the inverse of measuring it. *)
LEMMA PlusDist ==
  ASSUME NEW a \in SeqNum, NEW k \in SeqNum
  PROVE  /\ Plus(a, k) \in SeqNum
         /\ Dist(a, Plus(a, k)) = k
         /\ \A b \in SeqNum : Dist(a, b) = k => b = Plus(a, k)
BY HalfSpaceAssumption, SMT DEF Dist, Plus, SeqNum, SeqSpace

(* Two numbers at the same distance are the same number. *)
LEMMA DistInjective ==
  ASSUME NEW a \in SeqNum, NEW b \in SeqNum, NEW c \in SeqNum,
         Dist(a, b) = Dist(a, c)
  PROVE  b = c
BY HalfSpaceAssumption, SMT DEF Dist, SeqNum, SeqSpace

(* Measured from a point k further on, distances shrink by k. *)
LEMMA DistShift ==
  ASSUME NEW a \in SeqNum, NEW k \in SeqNum, NEW b \in SeqNum
  PROVE  /\ k <= Dist(a, b) => Dist(Plus(a, k), b) = Dist(a, b) - k
         /\ Dist(a, b) < k  => Dist(Plus(a, k), b) = (Dist(a, b) - k) + SeqSpace
BY HalfSpaceAssumption, SMT DEF Dist, Plus, SeqNum, SeqSpace

-----------------------------------------------------------------------------
NatPairs == {p \in Nat \X Nat : p[1] < p[2]}

(* Descending on naturals is well founded. *)
LEMMA NatPairsWellFounded == IsWellFoundedOn(NatPairs, Nat)
<1>1. NatPairs = OpToRel(<, Nat)
  BY Zenon DEF OpToRel, NatPairs
<1>2. IsWellFoundedOn(OpToRel(<, Nat), Nat)
  BY NatLessThanWellFounded
<1>3. QED
  BY Zenon, <1>1, <1>2

(* Every non-empty set of naturals has a least element. *)
LEMMA LeastElement ==
  ASSUME NEW T, T \subseteq Nat, T # {}
  PROVE  \E x \in T : \A y \in T : x <= y
<1>1. PICK x \in T : \A y \in T : ~ (<<y, x>> \in NatPairs)
  BY NatPairsWellFounded, WFMin
<1>2. ASSUME NEW y \in T PROVE x <= y
  <2>1. x \in Nat /\ y \in Nat
    OBVIOUS
  <2>2. <<y, x>> \in Nat \X Nat
    BY <2>1
  <2>3. ~ (y < x)
    BY Zenon, <1>1, <2>2 DEF NatPairs
  <2>4. QED
    BY <2>1, <2>3
<1>3. QED
  BY <1>2

-----------------------------------------------------------------------------
(* Fields of the trackers the helpers return. *)

(* The fields of a tracker have the types the constructor gives them. *)
LEMMA TrackerFields ==
  ASSUME NEW t \in Tracker
  PROVE  /\ t.expectedSeq \in SeqNum \cup {NoSeq}
         /\ t.receivedSeqs \subseteq SeqNum
         /\ t.nakTimers \subseteq SeqNum
         /\ t.nakAttempts \in [SeqNum -> 0 .. MaxNakRounds]
         /\ t.pendingNAKs \subseteq SeqNum
         /\ t.flushArmed \in BOOLEAN
BY DEF Tracker

(* _cancelNAK touches the NAK state of its numbers and nothing else. *)
LEMMA CancelNAKsFields ==
  ASSUME NEW t \in Tracker, NEW S
  PROVE  LET u == CancelNAKs(t, S) IN
         /\ u \in Tracker
         /\ u.expectedSeq = t.expectedSeq
         /\ u.receivedSeqs = t.receivedSeqs
         /\ u.nakTimers = t.nakTimers \ S
         /\ u.nakAttempts = [s \in SeqNum |-> IF s \in S THEN 0
                                              ELSE t.nakAttempts[s]]
         /\ u.pendingNAKs = t.pendingNAKs \ S
         /\ u.flushArmed = t.flushArmed
<1>1. [s \in SeqNum |-> IF s \in S THEN 0 ELSE t.nakAttempts[s]]
        \in [SeqNum -> 0 .. MaxNakRounds]
  BY TrackerFields, TrackerAssumption
<1>2. QED
  BY <1>1 DEF CancelNAKs, Tracker

(* _cancelNAK of numbers nothing is kept for leaves the tracker's fields alone. *)
LEMMA CancelNothing ==
  ASSUME NEW t \in Tracker, NEW S,
         t.nakTimers \cap S = {},
         t.pendingNAKs \cap S = {},
         \A s \in SeqNum : s \in S => t.nakAttempts[s] = 0
  PROVE  /\ CancelNAKs(t, S) \in Tracker
         /\ CancelNAKs(t, S).receivedSeqs = t.receivedSeqs
         /\ CancelNAKs(t, S).nakTimers = t.nakTimers
         /\ CancelNAKs(t, S).nakAttempts = t.nakAttempts
         /\ CancelNAKs(t, S).pendingNAKs = t.pendingNAKs
         /\ CancelNAKs(t, S).flushArmed = t.flushArmed
<1> DEFINE u == CancelNAKs(t, S)
<1>1. /\ u \in Tracker
      /\ u.receivedSeqs = t.receivedSeqs
      /\ u.nakTimers = t.nakTimers \ S
      /\ u.nakAttempts = [s \in SeqNum |-> IF s \in S THEN 0
                                           ELSE t.nakAttempts[s]]
      /\ u.pendingNAKs = t.pendingNAKs \ S
      /\ u.flushArmed = t.flushArmed
  BY CancelNAKsFields
<1> HIDE DEF u
<1>2. t.nakTimers \ S = t.nakTimers /\ t.pendingNAKs \ S = t.pendingNAKs
  OBVIOUS
<1>3. t.nakAttempts \in [SeqNum -> 0 .. MaxNakRounds]
  BY TrackerFields
<1>4. t.nakAttempts = [s \in SeqNum |-> IF s \in S THEN 0 ELSE t.nakAttempts[s]]
  BY <1>3
<1>5. u.nakAttempts = t.nakAttempts
  BY <1>1, <1>4
<1>6. QED
  BY <1>1, <1>2, <1>5 DEF u

(* _clearNAKTimers empties the NAK state and leaves the window alone. *)
LEMMA ClearNAKTimersFields ==
  ASSUME NEW t \in Tracker
  PROVE  LET u == ClearNAKTimers(t) IN
         /\ u \in Tracker
         /\ u.expectedSeq = t.expectedSeq
         /\ u.receivedSeqs = t.receivedSeqs
         /\ u.nakTimers = {}
         /\ u.nakAttempts = [s \in SeqNum |-> 0]
         /\ u.pendingNAKs = {}
         /\ u.flushArmed = FALSE
<1>1. [s \in SeqNum |-> 0] \in [SeqNum -> 0 .. MaxNakRounds]
  BY TrackerAssumption
<1>2. QED
  BY <1>1 DEF ClearNAKTimers, Tracker

(* _cleanupOldSequences only shrinks receivedSeqs. *)
LEMMA CleanupFields ==
  ASSUME NEW t \in Tracker
  PROVE  LET u == CleanupOldSequences(t) IN
         /\ u \in Tracker
         /\ u.expectedSeq = t.expectedSeq
         /\ u.receivedSeqs = {s \in t.receivedSeqs :
                ~ IsBehind(s, Dist(MaxOutOfOrder, t.expectedSeq))}
         /\ u.nakTimers = t.nakTimers
         /\ u.nakAttempts = t.nakAttempts
         /\ u.pendingNAKs = t.pendingNAKs
         /\ u.flushArmed = t.flushArmed
BY DEF CleanupOldSequences, Tracker

-----------------------------------------------------------------------------
(* The part of the invariant that speaks of the tracker alone: what holds  *)
(* of every tracker between two calls, whoever owns it.                    *)
TInv(t) ==
  /\ t \in Tracker
  /\ t.nakTimers = Missing(t)
  /\ StateNeedsTimer(t)
  /\ t.pendingNAKs # {} => t.flushArmed
  /\ t.expectedSeq \notin t.receivedSeqs
  /\ KeptNear(t)
  /\ EmptyWithoutBaseline(t)

(* A tracker that holds nothing. *)
LEMMA EmptyInv ==
  ASSUME NEW t \in Tracker,
         t.expectedSeq = NoSeq, t.receivedSeqs = {}, t.nakTimers = {},
         t.nakAttempts = [x \in SeqNum |-> 0], t.pendingNAKs = {}
  PROVE  TInv(t)
BY DEF TInv, Missing, BufferedAhead, StateNeedsTimer, KeptNear,
       EmptyWithoutBaseline

(* A tracker with a new baseline at s. *)
LEMMA BaselineInv ==
  ASSUME NEW t \in Tracker, NEW s \in SeqNum,
         t.expectedSeq = Succ(s), t.receivedSeqs = {s}, t.nakTimers = {},
         t.nakAttempts = [x \in SeqNum |-> 0], t.pendingNAKs = {}
  PROVE  TInv(t)
<1>1. /\ Succ(s) \in SeqNum
      /\ Succ(s) # s
      /\ Dist(s, Succ(s)) = 1
      /\ ~ IsAhead(s, Succ(s))
  BY HalfSpaceAssumption, SMT DEF Succ, Plus, Dist, IsAhead, SeqNum, SeqSpace
<1>2. BufferedAhead(t) = {}
  BY <1>1 DEF BufferedAhead
<1>3. Missing(t) = {}
  BY <1>2 DEF Missing
<1>4. KeptNear(t)
  BY <1>1, TrackerAssumption DEF KeptNear, Near
<1>5. EmptyWithoutBaseline(t)
  BY <1>1 DEF EmptyWithoutBaseline, NoSeq, SeqNum
<1>6. QED
  BY <1>1, <1>3, <1>4, <1>5 DEF TInv, StateNeedsTimer

(* The constructor establishes the tracker invariant. *)
LEMMA NewTrackerInv == TInv(NewTracker)
<1>1. [s \in SeqNum |-> 0] \in [SeqNum -> 0 .. MaxNakRounds]
  BY TrackerAssumption
<1>2. NewTracker \in Tracker
  BY <1>1 DEF NewTracker, Tracker
<1>3. QED
  BY <1>2, EmptyInv DEF NewTracker

(* reset() establishes the tracker invariant. *)
LEMMA ResetInv ==
  ASSUME NEW t \in Tracker
  PROVE  TInv(ResetTracker(t)) /\ ResetTracker(t).expectedSeq = NoSeq
<1> DEFINE u == ClearNAKTimers(t)
<1>1. /\ u \in Tracker
      /\ u.nakTimers = {}
      /\ u.nakAttempts = [s \in SeqNum |-> 0]
      /\ u.pendingNAKs = {}
  BY ClearNAKTimersFields
<1>2. ResetTracker(t) = [u EXCEPT !.receivedSeqs = {}, !.expectedSeq = NoSeq]
  BY DEF ResetTracker
<1> HIDE DEF u
<1>3. /\ ResetTracker(t) \in Tracker
      /\ ResetTracker(t).expectedSeq = NoSeq
      /\ ResetTracker(t).receivedSeqs = {}
      /\ ResetTracker(t).nakTimers = {}
      /\ ResetTracker(t).nakAttempts = [s \in SeqNum |-> 0]
      /\ ResetTracker(t).pendingNAKs = {}
  BY <1>1, <1>2 DEF Tracker
<1>4. QED
  BY <1>3, EmptyInv

(* _resync, from any state, establishes the tracker invariant again. *)
LEMMA ResyncInv ==
  ASSUME NEW t \in Tracker, NEW s \in SeqNum
  PROVE  LET r == Resync(t, s) IN
         /\ TInv(r)
         /\ r.expectedSeq = Succ(s)
         /\ r.receivedSeqs = {s}
         /\ r.nakAttempts = [x \in SeqNum |-> 0]
         /\ r.pendingNAKs = {}
<1> DEFINE u == ClearNAKTimers(t)
<1>1. /\ u \in Tracker
      /\ u.nakTimers = {}
      /\ u.nakAttempts = [x \in SeqNum |-> 0]
      /\ u.pendingNAKs = {}
  BY ClearNAKTimersFields
<1>2. Resync(t, s) = [u EXCEPT !.receivedSeqs = {s}, !.expectedSeq = Succ(s)]
  BY DEF Resync
<1>3. Succ(s) \in SeqNum /\ {s} \in SUBSET SeqNum
  BY HalfSpaceAssumption, SMT DEF Succ, Plus, SeqNum, SeqSpace
<1> HIDE DEF u
<1>4. /\ Resync(t, s) \in Tracker
      /\ Resync(t, s).expectedSeq = Succ(s)
      /\ Resync(t, s).receivedSeqs = {s}
      /\ Resync(t, s).nakTimers = {}
      /\ Resync(t, s).nakAttempts = [x \in SeqNum |-> 0]
      /\ Resync(t, s).pendingNAKs = {}
  BY <1>1, <1>2, <1>3 DEF Tracker
<1>5. QED
  BY <1>4, BaselineInv

-----------------------------------------------------------------------------
(* The contiguous advance. *)

(* A number that is not in R bounds the run. *)
LEMMA RunLengthSpec ==
  ASSUME NEW R, NEW s \in SeqNum, NEW k \in SeqNum, Plus(s, k) \notin R
  PROVE  LET n == RunLength(R, s) IN
         /\ n \in SeqNum
         /\ n <= k
         /\ Plus(s, n) \notin R
         /\ \A j \in SeqNum : j < n => Plus(s, j) \in R
<1> DEFINE T == {i \in SeqNum : Plus(s, i) \notin R}
           P(i) == /\ Plus(s, i) \notin R
                   /\ \A j \in 0 .. i - 1 : Plus(s, j) \in R
           n == RunLength(R, s)
<1>1. T \subseteq Nat /\ T # {}
  BY HalfSpaceAssumption DEF SeqNum, SeqSpace
<1>2. PICK x \in T : \A y \in T : x <= y
  <2> HIDE DEF T
  <2> QED  BY <1>1, LeastElement
<1>3. x \in 0 .. SeqSpace - 1 /\ P(x)
  BY <1>2, HalfSpaceAssumption DEF SeqNum, SeqSpace
<1>4. n \in 0 .. SeqSpace - 1 /\ P(n)
  <2>1. n = CHOOSE i \in 0 .. SeqSpace - 1 : P(i)
    BY DEF RunLength
  <2> HIDE DEF P, n
  <2>2. QED  BY <1>3, <2>1
<1>5. n <= k
  <2>1. CASE k < n
    <3>1. k \in 0 .. n - 1
      BY <2>1, <1>4, HalfSpaceAssumption DEF SeqNum, SeqSpace
    <3>2. QED  BY <3>1, <1>4
  <2>2. QED  BY <2>1, <1>4, HalfSpaceAssumption DEF SeqNum, SeqSpace
<1>6. ASSUME NEW j \in SeqNum, j < n PROVE Plus(s, j) \in R
  <2>1. j \in 0 .. n - 1
    BY <1>6, <1>4, HalfSpaceAssumption DEF SeqNum, SeqSpace
  <2>2. QED  BY <2>1, <1>4
<1>7. QED
  BY <1>4, <1>5, <1>6 DEF SeqNum

(* What the clean-up drops: the numbers more than MaxOutOfOrder behind. *)
LEMMA CleanupCutoff ==
  ASSUME NEW e \in SeqNum, NEW x \in SeqNum,
         \/ Dist(x, e) <= MaxOutOfOrder + MaxGapTracking + BehindResyncThreshold
         \/ Dist(e, x) <= MaxGapTracking
  PROVE  LET cutoff == Dist(MaxOutOfOrder, e) IN
         /\ IsBehind(x, cutoff) => /\ IsBehind(x, e)
                                   /\ Dist(x, e) > MaxOutOfOrder
         /\ ~ IsBehind(x, cutoff) => \/ Dist(x, e) <= MaxOutOfOrder
                                     \/ Dist(e, x) <= MaxGapTracking
BY HalfSpaceAssumption, TrackerAssumption, SMT
   DEF Dist, IsBehind, IsAhead, SeqNum, SeqSpace

(* Nothing at most MaxGapTracking ahead is dropped. *)
LEMMA CleanupKeepsAhead ==
  ASSUME NEW e \in SeqNum, NEW x \in SeqNum, Dist(e, x) <= MaxGapTracking
  PROVE  ~ IsBehind(x, Dist(MaxOutOfOrder, e))
BY HalfSpaceAssumption, TrackerAssumption, SMT
   DEF Dist, IsBehind, IsAhead, SeqNum, SeqSpace

(* Where the numbers near e lie after the window moved at most             *)
(* MaxGapTracking + 1 ahead.                                               *)
LEMMA NearAfterShift ==
  ASSUME NEW e \in SeqNum, NEW k \in SeqNum, k <= MaxGapTracking + 1,
         NEW x \in SeqNum, Near(e, x)
  PROVE  LET f == Plus(e, k) IN
         /\ \/ Dist(x, f) <=
                 MaxOutOfOrder + MaxGapTracking + BehindResyncThreshold
            \/ Dist(f, x) <= MaxGapTracking
         /\ IsAhead(x, f) => /\ IsAhead(x, e)
                             /\ Dist(e, x) = Dist(f, x) + k
                             /\ Dist(f, x) <= MaxGapTracking
BY HalfSpaceAssumption, TrackerAssumption, SMT
   DEF Near, Dist, Plus, IsAhead, SeqNum, SeqSpace

(* A tracker whose head has just been filled: received or given up. *)
HeadFilled(u) ==
  /\ u \in Tracker
  /\ u.expectedSeq \in u.receivedSeqs
  /\ KeptNear(u)
  /\ u.nakTimers = Missing(u)
  /\ StateNeedsTimer(u)
  /\ u.pendingNAKs # {} => u.flushArmed

(* The advance restores the invariant, passes received numbers only, and   *)
(* forgets only numbers that are more than MaxOutOfOrder behind.           *)
LEMMA AdvanceInv ==
  ASSUME NEW u, HeadFilled(u)
  PROVE  LET a == AdvanceWindow(u)
             e == u.expectedSeq
             f == a.expectedSeq
         IN  /\ TInv(a)
             /\ e \in SeqNum
             /\ \E k \in SeqNum : /\ k <= MaxGapTracking + 1
                                  /\ f = Plus(e, k)
                                  /\ \A x \in SeqNum : Dist(e, x) < k
                                        => x \in u.receivedSeqs
             /\ a.receivedSeqs \subseteq u.receivedSeqs
             /\ \A x \in u.receivedSeqs \ a.receivedSeqs : IsBehind(x, f)
             /\ a.nakAttempts = u.nakAttempts
             /\ a.pendingNAKs = u.pendingNAKs
             /\ a.nakTimers = u.nakTimers
<1> DEFINE e == u.expectedSeq
           next == Succ(e)
           n == RunLength(u.receivedSeqs, next)
           f == Plus(next, n)
           walked == {Plus(next, j) : j \in 0 .. n - 1}
           v == CancelNAKs(u, walked)
           w == [v EXCEPT !.expectedSeq = f]
           a == AdvanceWindow(u)
<1>1. /\ u \in Tracker
      /\ u.receivedSeqs \subseteq SeqNum
      /\ u.nakTimers \subseteq SeqNum
      /\ e \in SeqNum
      /\ e \in u.receivedSeqs
      /\ \A x \in u.receivedSeqs : Near(e, x)
  BY TrackerFields DEF HeadFilled, KeptNear
<1>2. /\ next \in SeqNum
      /\ MaxGapTracking \in SeqNum
      /\ \A j \in SeqNum : j <= MaxGapTracking + 1
           => Plus(next, j) = Plus(e, j + 1)
  BY <1>1, HalfSpaceAssumption, TrackerAssumption, SMT
     DEF Succ, Plus, SeqNum, SeqSpace
<1>3. Plus(next, MaxGapTracking) \notin u.receivedSeqs
  <2>1. ~ Near(e, Plus(next, MaxGapTracking))
    BY <1>1, <1>2, HalfSpaceAssumption, TrackerAssumption, SMT
       DEF Near, Succ, Plus, Dist, SeqNum, SeqSpace
  <2>2. QED  BY <1>1, <2>1
<1>4. /\ n \in SeqNum
      /\ n <= MaxGapTracking
      /\ f \notin u.receivedSeqs
      /\ \A j \in SeqNum : j < n => Plus(next, j) \in u.receivedSeqs
  BY <1>2, <1>3, RunLengthSpec
<1> DEFINE k == n + 1
<1>5. /\ k \in SeqNum
      /\ k <= MaxGapTracking + 1
      /\ k > 0
      /\ f = Plus(e, k)
      /\ f \in SeqNum
      /\ Dist(e, f) = k
  <2>1. k \in SeqNum /\ k <= MaxGapTracking + 1 /\ k > 0
    BY <1>4, HalfSpaceAssumption, TrackerAssumption, SMT DEF SeqNum, SeqSpace
  <2>2. f = Plus(e, k)
    BY <1>2, <1>4, TrackerAssumption, SMT DEF SeqNum
  <2>3. QED  BY <1>1, <2>1, <2>2, PlusDist
<1>6. ASSUME NEW x \in SeqNum, Dist(e, x) < k
      PROVE  x \in u.receivedSeqs
  <2>1. CASE Dist(e, x) = 0
    BY <1>1, <2>1, DistType
  <2>2. CASE Dist(e, x) # 0
    <3>1. Dist(e, x) - 1 \in SeqNum /\ Dist(e, x) - 1 < n
      <4>1. Dist(e, x) \in SeqNum
        BY <1>1, DistType
      <4> HIDE DEF n, e
      <4>2. QED
        BY <1>4, <1>6, <2>2, <4>1, HalfSpaceAssumption DEF SeqNum, SeqSpace
    <3>2. Plus(next, Dist(e, x) - 1) = x
      BY <1>1, <2>2, HalfSpaceAssumption, SMT
         DEF Succ, Plus, Dist, SeqNum, SeqSpace
    <3>3. QED  BY <1>4, <3>1, <3>2
  <2>3. QED  BY <2>1, <2>2
<1>7. walked \subseteq u.receivedSeqs
  <2>1. ASSUME NEW j \in 0 .. n - 1 PROVE Plus(next, j) \in u.receivedSeqs
    <3> HIDE DEF n
    <3>1. j \in SeqNum /\ j < n
      BY <1>4, HalfSpaceAssumption DEF SeqNum, SeqSpace
    <3>2. QED  BY <1>4, <3>1
  <2>2. QED  BY <2>1
<1>8. u.nakTimers \cap walked = {}
  BY <1>7 DEF HeadFilled, Missing
<1>9. /\ v \in Tracker
      /\ v.receivedSeqs = u.receivedSeqs
      /\ v.nakTimers = u.nakTimers
      /\ v.nakAttempts = u.nakAttempts
      /\ v.pendingNAKs = u.pendingNAKs
      /\ v.flushArmed = u.flushArmed
  <2>1. u.nakAttempts \in [SeqNum -> 0 .. MaxNakRounds]
    BY <1>1, TrackerFields
  <2>2. \A s \in SeqNum : s \in walked => u.nakAttempts[s] = 0
    BY <2>1, <1>8 DEF HeadFilled, StateNeedsTimer
  <2>3. u.pendingNAKs \cap walked = {}
    BY <1>8 DEF HeadFilled, StateNeedsTimer
  <2> HIDE DEF walked
  <2>4. QED  BY <1>1, <1>8, <2>2, <2>3, CancelNothing
<1>10. /\ w \in Tracker
       /\ w.expectedSeq = f
       /\ w.receivedSeqs = u.receivedSeqs
       /\ w.nakTimers = u.nakTimers
       /\ w.nakAttempts = u.nakAttempts
       /\ w.pendingNAKs = u.pendingNAKs
       /\ w.flushArmed = u.flushArmed
  <2> HIDE DEF v, f
  <2>1. QED  BY <1>5, <1>9 DEF Tracker
<1>11. a = CleanupOldSequences(w)
  BY DEF AdvanceWindow
<1>12. /\ a \in Tracker
       /\ a.expectedSeq = f
       /\ a.receivedSeqs = {x \in u.receivedSeqs :
                              ~ IsBehind(x, Dist(MaxOutOfOrder, f))}
       /\ a.nakTimers = u.nakTimers
       /\ a.nakAttempts = u.nakAttempts
       /\ a.pendingNAKs = u.pendingNAKs
       /\ a.flushArmed = u.flushArmed
  <2> HIDE DEF w, a
  <2>1. QED  BY <1>10, <1>11, CleanupFields
<1> HIDE DEF f, n, a, w, v, walked, next, k
<1>13. \A x \in u.receivedSeqs : Near(f, x) \/ IsBehind(x, Dist(MaxOutOfOrder, f))
  BY <1>1, <1>5, NearAfterShift, CleanupCutoff DEF Near
<1>14. \A x \in u.receivedSeqs \ a.receivedSeqs : IsBehind(x, f)
  BY <1>1, <1>5, <1>12, NearAfterShift, CleanupCutoff
<1>15. KeptNear(a)
  BY <1>12, <1>13 DEF KeptNear
<1>16. Missing(u) \subseteq Missing(a)
  <2> SUFFICES ASSUME NEW m \in SeqNum \ u.receivedSeqs,
                      NEW r \in u.receivedSeqs,
                      IsAhead(r, e),
                      Dist(e, m) < Dist(e, r)
               PROVE  m \in Missing(a)
    BY DEF Missing, BufferedAhead
  <2>1. ~ (Dist(e, m) < k)
    BY <1>6
  <2>2. /\ Dist(e, m) \in SeqNum
        /\ Dist(e, r) \in SeqNum
        /\ k <= Dist(e, m)
        /\ k < Dist(e, r)
    <3>1. Dist(e, m) \in SeqNum /\ Dist(e, r) \in SeqNum
      BY <1>1, DistType
    <3>2. QED
      BY <1>5, <2>1, <3>1, HalfSpaceAssumption DEF SeqNum, SeqSpace
  <2>3. /\ Dist(f, m) = Dist(e, m) - k
        /\ Dist(f, r) = Dist(e, r) - k
    BY <1>1, <1>5, <2>2, DistShift DEF SeqNum
  <2>4. Dist(e, r) <= MaxGapTracking /\ Dist(e, r) < HalfSpace
    BY <1>1, HalfSpaceAssumption, TrackerAssumption, SMT
       DEF Near, IsAhead, Dist, SeqNum, SeqSpace
  <2>5. IsAhead(r, f) /\ Dist(f, r) <= MaxGapTracking
    BY <1>5, <2>2, <2>3, <2>4, HalfSpaceAssumption, TrackerAssumption
       DEF IsAhead, SeqNum
  <2>6. r \in a.receivedSeqs
    BY <1>1, <1>5, <1>12, <2>5, CleanupKeepsAhead
  <2>7. Dist(f, m) < Dist(f, r)
    BY <2>2, <2>3, <1>5 DEF SeqNum
  <2>8. QED
    BY <1>12, <2>5, <2>6, <2>7 DEF Missing, BufferedAhead
<1>17. Missing(a) \subseteq Missing(u)
  <2> SUFFICES ASSUME NEW m \in SeqNum \ a.receivedSeqs,
                      NEW r \in a.receivedSeqs,
                      IsAhead(r, f),
                      Dist(f, m) < Dist(f, r)
               PROVE  m \in Missing(u)
    BY <1>12 DEF Missing, BufferedAhead
  <2>1. r \in u.receivedSeqs
    BY <1>12
  <2>2. /\ IsAhead(r, e)
        /\ Dist(e, r) = Dist(f, r) + k
        /\ Dist(f, r) <= MaxGapTracking
    BY <1>1, <1>5, <2>1, NearAfterShift
  <2>3. Dist(f, m) <= MaxGapTracking
    <3>1. Dist(f, m) \in SeqNum /\ Dist(f, r) \in SeqNum
      BY <1>1, <1>5, <2>1, DistType
    <3>2. QED
      BY <2>2, <3>1, HalfSpaceAssumption, TrackerAssumption
         DEF SeqNum, SeqSpace
  <2>4. m \notin u.receivedSeqs
    BY <1>5, <1>12, <2>3, CleanupKeepsAhead
  <2>5. Dist(e, m) < Dist(e, r)
    <3>1. Dist(e, m) \in SeqNum /\ Dist(f, m) \in SeqNum /\ Dist(f, r) \in SeqNum
      BY <1>1, <1>5, <2>1, DistType
    <3>2. CASE Dist(e, m) < k
      BY <1>5, <2>2, <3>1, <3>2, HalfSpaceAssumption DEF SeqNum, SeqSpace
    <3>3. CASE k <= Dist(e, m)
      <4>1. Dist(f, m) = Dist(e, m) - k
        BY <1>1, <1>5, <3>3, DistShift
      <4>2. QED  BY <1>5, <2>2, <3>1, <4>1 DEF SeqNum
    <3>4. QED
      BY <1>5, <3>1, <3>2, <3>3, HalfSpaceAssumption DEF SeqNum, SeqSpace
  <2>6. QED
    BY <2>1, <2>2, <2>4, <2>5 DEF Missing, BufferedAhead
<1>18. TInv(a)
  <2>1. a.nakTimers = Missing(a)
    BY <1>12, <1>16, <1>17 DEF HeadFilled
  <2>2. StateNeedsTimer(a)
    BY <1>12 DEF HeadFilled, StateNeedsTimer
  <2>3. a.pendingNAKs # {} => a.flushArmed
    BY <1>12 DEF HeadFilled
  <2>4. f \notin a.receivedSeqs
    BY <1>4, <1>12
  <2>5. EmptyWithoutBaseline(a)
    BY <1>5, <1>12 DEF EmptyWithoutBaseline, NoSeq, SeqNum
  <2>6. QED
    BY <1>12, <1>15, <2>1, <2>2, <2>3, <2>4, <2>5 DEF TInv
<1>19. QED
  BY <1>1, <1>5, <1>6, <1>12, <1>14, <1>18 DEF a

-----------------------------------------------------------------------------
(* The arrival of a number in the tracked window. *)

(* Q is R without some numbers behind e. *)
ForgetsBehind(R, Q, e) ==
  /\ Q \subseteq R
  /\ \A x \in R \ Q : IsBehind(x, e)

(* What _cleanupOldSequences forgets is behind the expected number. *)
LEMMA CleanupForgetsBehind ==
  ASSUME NEW t \in Tracker, t.expectedSeq \in SeqNum, KeptNear(t)
  PROVE  LET u == CleanupOldSequences(t) IN
         /\ ForgetsBehind(t.receivedSeqs, u.receivedSeqs, t.expectedSeq)
         /\ KeptNear(u)
<1> DEFINE e == t.expectedSeq
           u == CleanupOldSequences(t)
<1>1. /\ t.receivedSeqs \subseteq SeqNum
      /\ u.expectedSeq = e
      /\ u.receivedSeqs = {s \in t.receivedSeqs :
             ~ IsBehind(s, Dist(MaxOutOfOrder, e))}
  BY TrackerFields, CleanupFields
<1> HIDE DEF u
<1>2. ASSUME NEW x \in t.receivedSeqs, IsBehind(x, Dist(MaxOutOfOrder, e))
      PROVE  IsBehind(x, e)
  <2>1. x \in SeqNum /\ Near(e, x)
    BY <1>1 DEF KeptNear
  <2>2. \/ Dist(x, e) <= MaxOutOfOrder + MaxGapTracking + BehindResyncThreshold
        \/ Dist(e, x) <= MaxGapTracking
    <3>1. Dist(x, e) \in SeqNum
      BY <2>1, DistType
    <3>2. QED  BY <2>1, <3>1, HalfSpaceAssumption, TrackerAssumption
                  DEF Near, SeqNum, SeqSpace
  <2>3. QED  BY <1>2, <2>1, <2>2, CleanupCutoff
<1>3. ForgetsBehind(t.receivedSeqs, u.receivedSeqs, e)
  BY <1>1, <1>2 DEF ForgetsBehind
<1>4. KeptNear(u)
  BY <1>1 DEF KeptNear
<1>5. QED
  BY <1>3, <1>4 DEF u

(* An arrival is recorded in receivedSeqs and its NAK is cancelled. *)
LEMMA RecordArrivalSpec ==
  ASSUME NEW t, TInv(t), t.expectedSeq \in SeqNum,
         NEW s \in SeqNum, Dist(t.expectedSeq, s) <= MaxGapTracking
  PROVE  LET r == RecordArrival(t, s)
             e == t.expectedSeq
         IN  /\ r \in Tracker
             /\ r.expectedSeq = e
             /\ s \in r.receivedSeqs
             /\ ForgetsBehind(t.receivedSeqs \cup {s}, r.receivedSeqs, e)
             /\ KeptNear(r)
             /\ r.nakTimers = t.nakTimers \ {s}
             /\ r.nakAttempts = [x \in SeqNum |-> IF x = s THEN 0
                                                  ELSE t.nakAttempts[x]]
             /\ r.pendingNAKs = t.pendingNAKs \ {s}
             /\ StateNeedsTimer(r)
             /\ r.pendingNAKs # {} => r.flushArmed
<1> DEFINE e == t.expectedSeq
           c == CancelNAKs(t, {s})
           u == [c EXCEPT !.receivedSeqs = @ \cup {s}]
           r == RecordArrival(t, s)
<1>1. t \in Tracker /\ t.receivedSeqs \subseteq SeqNum
  BY TrackerFields DEF TInv
<1>2. /\ c \in Tracker
      /\ c.expectedSeq = e
      /\ c.receivedSeqs = t.receivedSeqs
      /\ c.nakTimers = t.nakTimers \ {s}
      /\ c.nakAttempts = [x \in SeqNum |-> IF x \in {s} THEN 0
                                           ELSE t.nakAttempts[x]]
      /\ c.pendingNAKs = t.pendingNAKs \ {s}
      /\ c.flushArmed = t.flushArmed
  BY <1>1, CancelNAKsFields
<1>3. /\ u \in Tracker
      /\ u.expectedSeq = e
      /\ u.receivedSeqs = t.receivedSeqs \cup {s}
      /\ u.nakTimers = t.nakTimers \ {s}
      /\ u.nakAttempts = [x \in SeqNum |-> IF x = s THEN 0
                                           ELSE t.nakAttempts[x]]
      /\ u.pendingNAKs = t.pendingNAKs \ {s}
      /\ u.flushArmed = t.flushArmed
  <2>1. t.receivedSeqs \cup {s} \in SUBSET SeqNum
    BY <1>1
  <2> HIDE DEF c
  <2>2. QED  BY <1>2, <2>1 DEF Tracker
<1>4. KeptNear(u)
  BY <1>3 DEF TInv, KeptNear, Near
<1>5. ForgetsBehind(t.receivedSeqs \cup {s}, u.receivedSeqs, e)
  BY <1>3 DEF ForgetsBehind
<1>6. /\ StateNeedsTimer(u)
      /\ u.pendingNAKs # {} => u.flushArmed
  <2> HIDE DEF u
  <2>1. StateNeedsTimer(t) /\ (t.pendingNAKs # {} => t.flushArmed)
    BY DEF TInv
  <2>2. StateNeedsTimer(u)
    BY <1>3, <2>1 DEF StateNeedsTimer
  <2>3. QED  BY <1>3, <2>1, <2>2
<1>7. r = u \/ r = CleanupOldSequences(u)
  BY DEF RecordArrival
<1> HIDE DEF r, u, c
<1>8. CASE r = u
  BY <1>3, <1>4, <1>5, <1>6, <1>8 DEF r
<1>9. CASE r = CleanupOldSequences(u)
  <2>1. /\ r \in Tracker
        /\ r.expectedSeq = e
        /\ r.nakTimers = u.nakTimers
        /\ r.nakAttempts = u.nakAttempts
        /\ r.pendingNAKs = u.pendingNAKs
        /\ r.flushArmed = u.flushArmed
    BY <1>3, <1>9, CleanupFields
  <2>2. /\ ForgetsBehind(u.receivedSeqs, r.receivedSeqs, e)
        /\ KeptNear(r)
    BY <1>3, <1>4, <1>9, CleanupForgetsBehind
  <2>3. ~ IsBehind(s, e)
    BY HalfSpaceAssumption, TrackerAssumption, SMT
       DEF IsBehind, IsAhead, Dist, SeqNum, SeqSpace
  <2>4. s \in r.receivedSeqs
    BY <1>3, <2>2, <2>3 DEF ForgetsBehind
  <2>5. StateNeedsTimer(r) /\ (r.pendingNAKs # {} => r.flushArmed)
    BY <1>6, <2>1 DEF StateNeedsTimer
  <2>6. QED
    BY <1>3, <2>1, <2>2, <2>4, <2>5 DEF r
<1>10. QED
  BY <1>7, <1>8, <1>9

(* The number at the head of the window arrives. *)
LEMMA InOrderFillsHead ==
  ASSUME NEW t, TInv(t), t.expectedSeq \in SeqNum
  PROVE  HeadFilled(RecordArrival(t, t.expectedSeq))
<1> DEFINE e == t.expectedSeq
           r == RecordArrival(t, e)
<1>1. Dist(e, e) = 0 /\ Dist(e, e) <= MaxGapTracking
  BY TrackerAssumption DEF Dist, SeqNum
<1>2. /\ r \in Tracker
      /\ r.expectedSeq = e
      /\ e \in r.receivedSeqs
      /\ ForgetsBehind(t.receivedSeqs \cup {e}, r.receivedSeqs, e)
      /\ KeptNear(r)
      /\ r.nakTimers = t.nakTimers \ {e}
      /\ StateNeedsTimer(r)
      /\ r.pendingNAKs # {} => r.flushArmed
  BY <1>1, RecordArrivalSpec
<1> HIDE DEF r
<1>3. ~ IsAhead(e, e)
  BY <1>1 DEF IsAhead
<1>4. \A x \in SeqNum : IsAhead(x, e) => ~ IsBehind(x, e)
  BY HalfSpaceAssumption, SMT DEF IsBehind, IsAhead, Dist, SeqNum, SeqSpace
<1>5. BufferedAhead(r) = BufferedAhead(t)
  <2>1. r.receivedSeqs \subseteq SeqNum /\ t.receivedSeqs \subseteq SeqNum
    BY <1>2, TrackerFields DEF TInv
  <2>2. QED  BY <1>2, <1>3, <1>4, <2>1 DEF BufferedAhead, ForgetsBehind
<1>6. \A m \in SeqNum, x \in SeqNum :
        IsAhead(x, e) /\ Dist(e, m) < Dist(e, x) => ~ IsBehind(m, e)
  BY HalfSpaceAssumption, SMT DEF IsBehind, IsAhead, Dist, SeqNum, SeqSpace
<1>7. Missing(r) = Missing(t) \ {e}
  <2>1. \A x \in BufferedAhead(t) : x \in SeqNum /\ IsAhead(x, e)
    BY TrackerFields DEF BufferedAhead, TInv
  <2>2. QED
    BY <1>2, <1>5, <1>6, <2>1 DEF Missing, ForgetsBehind
<1>8. QED
  BY <1>2, <1>7 DEF HeadFilled, TInv, r

(* The tracked gap holds at most MaxGapTracking numbers. *)
LEMMA GapCardinality ==
  ASSUME NEW e \in SeqNum, NEW S \in SUBSET SeqNum,
         \A x \in S : Dist(e, x) < MaxGapTracking
  PROVE  IsFiniteSet(S) /\ Cardinality(S) <= MaxGapTracking
<1> DEFINE T == 0 .. MaxGapTracking - 1
           f == [x \in S |-> Dist(e, x)]
<1>1. IsFiniteSet(T) /\ Cardinality(T) = MaxGapTracking
  <2>1. 0 \in Int /\ MaxGapTracking - 1 \in Int /\ ~ (0 > MaxGapTracking - 1)
        /\ (MaxGapTracking - 1) - 0 + 1 = MaxGapTracking
    BY TrackerAssumption
  <2>2. QED  BY <2>1, FS_Interval
<1>2. f \in [S -> T]
  <2>1. ASSUME NEW x \in S PROVE Dist(e, x) \in T
    <3>1. Dist(e, x) \in SeqNum
      BY DistType
    <3>2. QED
      BY <3>1, HalfSpaceAssumption, TrackerAssumption DEF SeqNum, SeqSpace
  <2>2. QED  BY <2>1
<1>3. \A x, y \in S : f[x] = f[y] => x = y
  BY DistInjective
<1>4. f \in Injection(S, T)
  <2> HIDE DEF f, T
  <2>1. QED  BY <1>2, <1>3 DEF Injection, IsInjective
<1>5. QED
  <2> HIDE DEF f, T
  <2>1. QED  BY <1>1, <1>4, FS_Injection

(* Missing numbers lie in the tracked gap. *)
LEMMA MissingInGap ==
  ASSUME NEW t, TInv(t), t.expectedSeq \in SeqNum, NEW m \in Missing(t)
  PROVE  m \in SeqNum /\ Dist(t.expectedSeq, m) < MaxGapTracking
<1> DEFINE e == t.expectedSeq
<1>1. PICK r \in t.receivedSeqs : IsAhead(r, e) /\ Dist(e, m) < Dist(e, r)
  BY DEF Missing, BufferedAhead
<1>2. r \in SeqNum /\ m \in SeqNum /\ Near(e, r)
  BY TrackerFields DEF TInv, KeptNear, Missing
<1>3. Dist(e, r) <= MaxGapTracking
  BY <1>1, <1>2, HalfSpaceAssumption, TrackerAssumption, SMT
     DEF Near, IsAhead, Dist, SeqNum, SeqSpace
<1>4. Dist(e, m) \in SeqNum /\ Dist(e, r) \in SeqNum
  BY <1>2, DistType
<1>5. QED
  BY <1>1, <1>2, <1>3, <1>4, HalfSpaceAssumption, TrackerAssumption
     DEF SeqNum, SeqSpace

(* The timer table never reaches the size at which a gap would be evicted. *)
LEMMA TimersFit ==
  ASSUME NEW t, TInv(t)
  PROVE  /\ IsFiniteSet(t.nakTimers)
         /\ Cardinality(t.nakTimers) <= MaxGapTracking
<1>1. CASE t.expectedSeq = NoSeq
  <2>1. t.nakTimers = {}
    BY <1>1 DEF TInv, Missing, BufferedAhead, EmptyWithoutBaseline
  <2>2. QED  BY <2>1, FS_EmptySet, TrackerAssumption
<1>2. CASE t.expectedSeq \in SeqNum
  <2>1. /\ t.nakTimers \in SUBSET SeqNum
        /\ \A x \in t.nakTimers : Dist(t.expectedSeq, x) < MaxGapTracking
    BY <1>2, MissingInGap DEF TInv
  <2>2. QED  BY <1>2, <2>1, GapCardinality
<1>3. QED
  BY <1>1, <1>2, TrackerFields DEF TInv

(* A number ahead of the window, within the tracked gap, arrives. *)
LEMMA AheadInv ==
  ASSUME NEW t, TInv(t), t.expectedSeq \in SeqNum,
         NEW s \in SeqNum, s \notin t.receivedSeqs,
         IsAhead(s, t.expectedSeq), Dist(t.expectedSeq, s) <= MaxGapTracking
  PROVE  LET a == CleanupOldSequences(ScheduleGap(RecordArrival(t, s), s))
             e == t.expectedSeq
         IN  /\ TInv(a)
             /\ a.expectedSeq = e
             /\ ForgetsBehind(t.receivedSeqs \cup {s}, a.receivedSeqs, e)
             /\ a.nakAttempts = [x \in SeqNum |-> IF x = s THEN 0
                                                  ELSE t.nakAttempts[x]]
             /\ a.pendingNAKs = t.pendingNAKs \ {s}
<1> DEFINE e == t.expectedSeq
           r == RecordArrival(t, s)
           g == ScheduleGap(r, s)
           a == CleanupOldSequences(g)
           gap == MissingBefore(r, s)
<1>1. /\ r \in Tracker
      /\ r.expectedSeq = e
      /\ s \in r.receivedSeqs
      /\ ForgetsBehind(t.receivedSeqs \cup {s}, r.receivedSeqs, e)
      /\ KeptNear(r)
      /\ r.nakTimers = t.nakTimers \ {s}
      /\ r.nakAttempts = [x \in SeqNum |-> IF x = s THEN 0
                                           ELSE t.nakAttempts[x]]
      /\ r.pendingNAKs = t.pendingNAKs \ {s}
      /\ StateNeedsTimer(r)
      /\ r.pendingNAKs # {} => r.flushArmed
  BY RecordArrivalSpec
<1>2. gap = {m \in SeqNum : Dist(e, m) < Dist(e, s) /\ m \notin r.receivedSeqs}
  BY <1>1 DEF MissingBefore
<1>3. t.receivedSeqs \subseteq SeqNum /\ t.nakTimers = Missing(t)
  BY TrackerFields DEF TInv
<1> HIDE DEF r, gap
<1>4. Cardinality(r.nakTimers \cup gap) <= MaxGapTracking
  <2>1. \A x \in r.nakTimers : x \in SeqNum /\ Dist(e, x) < MaxGapTracking
    BY <1>1, <1>3, MissingInGap
  <2>2. \A x \in gap : x \in SeqNum /\ Dist(e, x) < MaxGapTracking
    <3>1. ASSUME NEW x \in gap PROVE Dist(e, x) < MaxGapTracking
      <4>1. x \in SeqNum /\ Dist(e, x) < Dist(e, s)
        BY <1>2
      <4>2. Dist(e, x) \in SeqNum /\ Dist(e, s) \in SeqNum
        BY <4>1, DistType
      <4>3. QED
        BY <4>1, <4>2, HalfSpaceAssumption, TrackerAssumption
           DEF SeqNum, SeqSpace
    <3>2. QED  BY <3>1, <1>2
  <2>3. r.nakTimers \cup gap \in SUBSET SeqNum
    BY <2>1, <2>2
  <2>4. QED  BY <2>1, <2>2, <2>3, GapCardinality
<1>5. g = [r EXCEPT !.nakTimers = @ \cup gap]
  BY <1>4 DEF ScheduleGap, gap
<1> HIDE DEF g
<1>6. /\ g \in Tracker
      /\ g.expectedSeq = e
      /\ g.receivedSeqs = r.receivedSeqs
      /\ g.nakTimers = r.nakTimers \cup gap
      /\ g.nakAttempts = r.nakAttempts
      /\ g.pendingNAKs = r.pendingNAKs
      /\ g.flushArmed = r.flushArmed
  <2>1. r.nakTimers \cup gap \in SUBSET SeqNum
    BY <1>1, <1>2, TrackerFields
  <2>2. QED  BY <1>1, <1>5, <2>1 DEF Tracker
<1>7. /\ a \in Tracker
      /\ a.expectedSeq = e
      /\ a.nakTimers = r.nakTimers \cup gap
      /\ a.nakAttempts = r.nakAttempts
      /\ a.pendingNAKs = r.pendingNAKs
      /\ a.flushArmed = r.flushArmed
  BY <1>6, CleanupFields
<1>8. KeptNear(g)
  BY <1>1, <1>6 DEF KeptNear
<1>9. ForgetsBehind(r.receivedSeqs, a.receivedSeqs, e) /\ KeptNear(a)
  BY <1>6, <1>8, CleanupForgetsBehind
<1> HIDE DEF a
<1>10. ForgetsBehind(t.receivedSeqs \cup {s}, a.receivedSeqs, e)
  BY <1>1, <1>9 DEF ForgetsBehind
<1>11. \A x \in SeqNum : IsAhead(x, e) => ~ IsBehind(x, e)
  BY HalfSpaceAssumption, SMT DEF IsBehind, IsAhead, Dist, SeqNum, SeqSpace
<1>12. \A m \in SeqNum, x \in SeqNum :
         IsAhead(x, e) /\ Dist(e, m) < Dist(e, x) => ~ IsBehind(m, e)
  BY HalfSpaceAssumption, SMT DEF IsBehind, IsAhead, Dist, SeqNum, SeqSpace
<1>13. BufferedAhead(a) = BufferedAhead(t) \cup {s}
  BY <1>3, <1>7, <1>10, <1>11 DEF BufferedAhead, ForgetsBehind
<1>14. \A x \in BufferedAhead(a) : x \in SeqNum /\ IsAhead(x, e)
  BY <1>3, <1>7, <1>13 DEF BufferedAhead
<1>15. a.nakTimers \subseteq Missing(a)
  <2>1. ASSUME NEW m \in Missing(t), m # s PROVE m \in Missing(a)
    BY <1>7, <1>10, <1>13, <2>1 DEF Missing, ForgetsBehind
  <2>2. ASSUME NEW m \in gap PROVE m \in Missing(a)
    BY <1>2, <1>7, <1>9, <1>13 DEF Missing, ForgetsBehind
  <2>3. QED  BY <1>1, <1>3, <1>7, <2>1, <2>2
<1>16. Missing(a) \subseteq a.nakTimers
  <2> SUFFICES ASSUME NEW m \in SeqNum, m \notin a.receivedSeqs,
                      NEW x \in BufferedAhead(a),
                      Dist(e, m) < Dist(e, x)
               PROVE  m \in a.nakTimers
    BY <1>7 DEF Missing
  <2>1. ~ IsBehind(m, e)
    BY <1>12, <1>14
  <2>2. m \notin t.receivedSeqs /\ m # s /\ m \notin r.receivedSeqs
    BY <1>9, <1>10, <2>1 DEF ForgetsBehind
  <2>3. CASE x = s
    BY <1>2, <1>7, <2>2, <2>3
  <2>4. CASE x \in BufferedAhead(t)
    <3>1. m \in Missing(t)
      BY <2>2, <2>4 DEF Missing
    <3>2. QED  BY <1>1, <1>3, <1>7, <2>2, <3>1
  <2>5. QED  BY <1>13, <2>3, <2>4
<1>17. TInv(a)
  <2>1. StateNeedsTimer(a)
    BY <1>1, <1>7 DEF StateNeedsTimer
  <2>2. e \notin a.receivedSeqs
    <3>1. e # s
      BY DEF IsAhead, Dist, SeqNum
    <3>2. QED  BY <1>10, <3>1 DEF TInv, ForgetsBehind
  <2>3. EmptyWithoutBaseline(a)
    BY <1>7 DEF EmptyWithoutBaseline, NoSeq, SeqNum
  <2>4. QED
    BY <1>1, <1>7, <1>9, <1>15, <1>16, <2>1, <2>2, <2>3 DEF TInv
<1>18. QED
  BY <1>1, <1>7, <1>10, <1>17 DEF a, g, r

(* A number the window has passed arrives late. *)
LEMMA LateInv ==
  ASSUME NEW t, TInv(t), t.expectedSeq \in SeqNum,
         NEW s \in SeqNum, IsBehind(s, t.expectedSeq),
         Dist(s, t.expectedSeq) <= BehindResyncThreshold
  PROVE  LET u == [CancelNAKs(t, {s}) EXCEPT !.receivedSeqs = @ \cup {s}] IN
         /\ TInv(u)
         /\ u.expectedSeq = t.expectedSeq
         /\ u.receivedSeqs = t.receivedSeqs \cup {s}
         /\ u.nakAttempts = [x \in SeqNum |-> IF x = s THEN 0
                                              ELSE t.nakAttempts[x]]
         /\ u.pendingNAKs = t.pendingNAKs \ {s}
<1> DEFINE e == t.expectedSeq
           c == CancelNAKs(t, {s})
           u == [c EXCEPT !.receivedSeqs = @ \cup {s}]
<1>1. t \in Tracker /\ t.receivedSeqs \subseteq SeqNum /\ t.nakTimers = Missing(t)
  BY TrackerFields DEF TInv
<1>2. ~ IsAhead(s, e) /\ s # e
  BY HalfSpaceAssumption, SMT DEF IsBehind, IsAhead, Dist, SeqNum, SeqSpace
<1>3. \A m \in SeqNum, x \in SeqNum :
        IsAhead(x, e) /\ Dist(e, m) < Dist(e, x) => ~ IsBehind(m, e)
  BY HalfSpaceAssumption, SMT DEF IsBehind, IsAhead, Dist, SeqNum, SeqSpace
<1>4. s \notin t.nakTimers
  BY <1>1, <1>3 DEF Missing, BufferedAhead
<1>5. /\ c \in Tracker
      /\ c.expectedSeq = e
      /\ c.receivedSeqs = t.receivedSeqs
      /\ c.nakTimers = t.nakTimers \ {s}
      /\ c.nakAttempts = [x \in SeqNum |-> IF x \in {s} THEN 0
                                           ELSE t.nakAttempts[x]]
      /\ c.pendingNAKs = t.pendingNAKs \ {s}
      /\ c.flushArmed = t.flushArmed
  BY <1>1, CancelNAKsFields
<1> HIDE DEF c
<1>6. /\ u \in Tracker
      /\ u.expectedSeq = e
      /\ u.receivedSeqs = t.receivedSeqs \cup {s}
      /\ u.nakTimers = t.nakTimers
      /\ u.nakAttempts = [x \in SeqNum |-> IF x = s THEN 0
                                           ELSE t.nakAttempts[x]]
      /\ u.pendingNAKs = t.pendingNAKs \ {s}
      /\ u.flushArmed = t.flushArmed
  <2>1. t.receivedSeqs \cup {s} \in SUBSET SeqNum /\ t.nakTimers \ {s} = t.nakTimers
    BY <1>1, <1>4
  <2>2. QED  BY <1>5, <2>1 DEF Tracker
<1> HIDE DEF u
<1>7. BufferedAhead(u) = BufferedAhead(t)
  BY <1>2, <1>6 DEF BufferedAhead
<1>8. Missing(u) = Missing(t)
  <2>1. s \notin Missing(t)
    BY <1>1, <1>4
  <2>2. QED  BY <1>6, <1>7, <2>1 DEF Missing
<1>9. TInv(u)
  <2>1. KeptNear(u)
    BY <1>6 DEF TInv, KeptNear, Near
  <2>2. StateNeedsTimer(t) /\ (t.pendingNAKs # {} => t.flushArmed)
    BY DEF TInv
  <2>3. StateNeedsTimer(u) /\ (u.pendingNAKs # {} => u.flushArmed)
    BY <1>6, <2>2 DEF StateNeedsTimer
  <2>4. e \notin u.receivedSeqs
    BY <1>2, <1>6 DEF TInv
  <2>5. EmptyWithoutBaseline(u)
    BY <1>6 DEF EmptyWithoutBaseline, NoSeq, SeqNum
  <2>6. QED
    BY <1>1, <1>6, <1>8, <2>1, <2>3, <2>4, <2>5 DEF TInv
<1>10. QED
  BY <1>6, <1>9 DEF u, c

-----------------------------------------------------------------------------
(* The NAK timer fires. *)

(* A number is given up: it is recorded and all its NAK state dropped. *)
LEMMA GivenUpSpec ==
  ASSUME NEW t, TInv(t), t.expectedSeq \in SeqNum, NEW s \in t.nakTimers
  PROVE  LET fired == [t EXCEPT !.nakTimers = @ \ {s}]
             u == [CancelNAKs(fired, {s}) EXCEPT !.receivedSeqs = @ \cup {s}]
         IN  /\ u \in Tracker
             /\ u.expectedSeq = t.expectedSeq
             /\ u.receivedSeqs = t.receivedSeqs \cup {s}
             /\ KeptNear(u)
             /\ u.nakTimers = Missing(u)
             /\ u.nakAttempts = [x \in SeqNum |-> IF x = s THEN 0
                                                  ELSE t.nakAttempts[x]]
             /\ u.pendingNAKs = t.pendingNAKs \ {s}
             /\ StateNeedsTimer(u)
             /\ u.pendingNAKs # {} => u.flushArmed
<1> DEFINE e == t.expectedSeq
           fired == [t EXCEPT !.nakTimers = @ \ {s}]
           c == CancelNAKs(fired, {s})
           u == [c EXCEPT !.receivedSeqs = @ \cup {s}]
<1>1. t \in Tracker /\ t.receivedSeqs \subseteq SeqNum /\ t.nakTimers = Missing(t)
      /\ t.nakTimers \subseteq SeqNum /\ s \in SeqNum
  BY TrackerFields DEF TInv
<1>2. /\ fired \in Tracker
      /\ fired.expectedSeq = e
      /\ fired.receivedSeqs = t.receivedSeqs
      /\ fired.nakTimers = t.nakTimers \ {s}
      /\ fired.nakAttempts = t.nakAttempts
      /\ fired.pendingNAKs = t.pendingNAKs
      /\ fired.flushArmed = t.flushArmed
  <2>1. t.nakTimers \ {s} \in SUBSET SeqNum
    BY <1>1
  <2>2. QED  BY <1>1, <2>1 DEF Tracker
<1> HIDE DEF fired
<1>3. /\ c \in Tracker
      /\ c.expectedSeq = e
      /\ c.receivedSeqs = t.receivedSeqs
      /\ c.nakTimers = (t.nakTimers \ {s}) \ {s}
      /\ c.nakAttempts = [x \in SeqNum |-> IF x \in {s} THEN 0
                                           ELSE t.nakAttempts[x]]
      /\ c.pendingNAKs = t.pendingNAKs \ {s}
      /\ c.flushArmed = t.flushArmed
  BY <1>2, CancelNAKsFields
<1> HIDE DEF c
<1>4. /\ u \in Tracker
      /\ u.expectedSeq = e
      /\ u.receivedSeqs = t.receivedSeqs \cup {s}
      /\ u.nakTimers = t.nakTimers \ {s}
      /\ u.nakAttempts = [x \in SeqNum |-> IF x = s THEN 0
                                           ELSE t.nakAttempts[x]]
      /\ u.pendingNAKs = t.pendingNAKs \ {s}
      /\ u.flushArmed = t.flushArmed
  <2>1. t.receivedSeqs \cup {s} \in SUBSET SeqNum
        /\ (t.nakTimers \ {s}) \ {s} = t.nakTimers \ {s}
    BY <1>1
  <2>2. QED  BY <1>3, <2>1 DEF Tracker
<1> HIDE DEF u
<1>5. Dist(e, s) < MaxGapTracking /\ s \notin t.receivedSeqs
  BY <1>1, MissingInGap DEF Missing
<1>6. KeptNear(u)
  <2>1. Near(e, s)
    <3>1. Dist(e, s) \in SeqNum
      BY <1>1, DistType
    <3>2. QED  BY <1>5, <3>1, HalfSpaceAssumption, TrackerAssumption
                  DEF Near, SeqNum, SeqSpace
  <2>2. QED  BY <1>4, <2>1 DEF KeptNear, TInv
<1>7. PICK r \in BufferedAhead(t) : Dist(e, s) < Dist(e, r)
  BY <1>1 DEF Missing
<1>8. Missing(u) = Missing(t) \ {s}
  <2>1. Missing(t) \ {s} \subseteq Missing(u)
    BY <1>4 DEF Missing, BufferedAhead
  <2>2. ASSUME NEW m \in SeqNum, m \notin u.receivedSeqs,
               NEW x \in BufferedAhead(u), Dist(e, m) < Dist(e, x)
        PROVE  m \in Missing(t) \ {s}
    <3>1. m \notin t.receivedSeqs /\ m # s
      BY <1>4, <2>2
    <3>2. CASE x = s
      <4>1. Dist(e, m) < Dist(e, r)
        <5>1. r \in SeqNum
          BY <1>1 DEF BufferedAhead
        <5>2. /\ Dist(e, m) \in SeqNum
              /\ Dist(e, s) \in SeqNum
              /\ Dist(e, r) \in SeqNum
          BY <1>1, <5>1, DistType
        <5>3. QED  BY <1>7, <2>2, <3>2, <5>2 DEF SeqNum
      <4>2. QED  BY <3>1, <4>1 DEF Missing
    <3>3. CASE x \in BufferedAhead(t)
      BY <2>2, <3>1, <3>3 DEF Missing
    <3>4. QED  BY <1>4, <3>2, <3>3 DEF BufferedAhead
  <2>3. Missing(u) \subseteq Missing(t) \ {s}
    BY <1>4, <2>2 DEF Missing
  <2>4. QED  BY <2>1, <2>3
<1>9. StateNeedsTimer(u) /\ (u.pendingNAKs # {} => u.flushArmed)
  <2>1. StateNeedsTimer(t) /\ (t.pendingNAKs # {} => t.flushArmed)
    BY DEF TInv
  <2>2. QED  BY <1>4, <2>1 DEF StateNeedsTimer
<1>10. QED
  BY <1>1, <1>4, <1>6, <1>8, <1>9 DEF u, c, fired

(* What settling one number s, by its arrival or by giving it up, does to  *)
(* a tracker: a is t after that.  The window moves forward by k and passes *)
(* only received numbers and s.                                            *)
Settles(t, a, s) ==
  /\ TInv(a)
  /\ \E k \in SeqNum :
       /\ k <= MaxGapTracking + 1
       /\ a.expectedSeq = Plus(t.expectedSeq, k)
       /\ \A x \in SeqNum : Dist(t.expectedSeq, x) < k
                               => x \in t.receivedSeqs \cup {s}
  /\ ForgetsBehind(t.receivedSeqs \cup {s}, a.receivedSeqs, a.expectedSeq)
  /\ a.nakAttempts = [x \in SeqNum |-> IF x = s THEN 0 ELSE t.nakAttempts[x]]
  /\ a.pendingNAKs = t.pendingNAKs \ {s}

(* The window may also stay where it is. *)
LEMMA StandsStill ==
  ASSUME NEW e \in SeqNum
  PROVE  \E k \in SeqNum : /\ k <= MaxGapTracking + 1
                           /\ e = Plus(e, k)
                           /\ \A x \in SeqNum : ~ (Dist(e, x) < k)
<1>1. 0 \in SeqNum /\ 0 <= MaxGapTracking + 1 /\ e = Plus(e, 0)
  BY HalfSpaceAssumption, TrackerAssumption DEF SeqNum, SeqSpace, Plus
<1>2. \A x \in SeqNum : ~ (Dist(e, x) < 0)
  <2>1. \A x \in SeqNum : Dist(e, x) \in SeqNum
    BY DistType
  <2>2. QED  BY <2>1 DEF SeqNum
<1>3. QED
  BY <1>1, <1>2

(* What is behind a number stays behind it while the window moves on. *)
LEMMA BehindAfterShift ==
  ASSUME NEW e \in SeqNum, NEW k \in SeqNum, k <= MaxGapTracking + 1,
         NEW x \in SeqNum, IsBehind(x, e), Near(e, x)
  PROVE  IsBehind(x, Plus(e, k))
BY HalfSpaceAssumption, TrackerAssumption, SMT
   DEF Near, IsBehind, IsAhead, Dist, Plus, SeqNum, SeqSpace

(* Abandoning a number whose timer fired. *)
LEMMA AbandonSettles ==
  ASSUME NEW t, TInv(t), t.expectedSeq \in SeqNum, NEW s \in t.nakTimers
  PROVE  Settles(t, AbandonSequence([t EXCEPT !.nakTimers = @ \ {s}], s), s)
<1> DEFINE e == t.expectedSeq
           fired == [t EXCEPT !.nakTimers = @ \ {s}]
           u == [CancelNAKs(fired, {s}) EXCEPT !.receivedSeqs = @ \cup {s}]
           a == AbandonSequence(fired, s)
<1>1. /\ u \in Tracker
      /\ u.expectedSeq = e
      /\ u.receivedSeqs = t.receivedSeqs \cup {s}
      /\ KeptNear(u)
      /\ u.nakTimers = Missing(u)
      /\ u.nakAttempts = [x \in SeqNum |-> IF x = s THEN 0
                                           ELSE t.nakAttempts[x]]
      /\ u.pendingNAKs = t.pendingNAKs \ {s}
      /\ StateNeedsTimer(u)
      /\ u.pendingNAKs # {} => u.flushArmed
  BY GivenUpSpec
<1>2. fired.expectedSeq = e
  BY TrackerFields DEF TInv, Tracker
<1>3. a = IF s = e THEN AdvanceWindow(u) ELSE u
  BY <1>2 DEF AbandonSequence
<1> HIDE DEF u, a, fired
<1>4. CASE s = e
  <2>1. HeadFilled(u)
    BY <1>1, <1>4 DEF HeadFilled
  <2>2. /\ TInv(a)
        /\ \E k \in SeqNum : /\ k <= MaxGapTracking + 1
                             /\ a.expectedSeq = Plus(e, k)
                             /\ \A x \in SeqNum : Dist(e, x) < k
                                   => x \in u.receivedSeqs
        /\ a.receivedSeqs \subseteq u.receivedSeqs
        /\ \A x \in u.receivedSeqs \ a.receivedSeqs :
             IsBehind(x, a.expectedSeq)
        /\ a.nakAttempts = u.nakAttempts
        /\ a.pendingNAKs = u.pendingNAKs
    BY <1>1, <1>3, <1>4, <2>1, AdvanceInv
  <2>3. QED
    BY <1>1, <2>2 DEF Settles, ForgetsBehind, a, fired
<1>5. CASE s # e
  <2>1. a = u
    BY <1>3, <1>5
  <2>2. TInv(u)
    <3>1. e \notin u.receivedSeqs
      BY <1>1, <1>5 DEF TInv
    <3>2. EmptyWithoutBaseline(u)
      BY <1>1 DEF EmptyWithoutBaseline, NoSeq, SeqNum
    <3>3. QED  BY <1>1, <3>1, <3>2 DEF TInv
  <2>3. QED
    BY <1>1, <2>1, <2>2, StandsStill DEF Settles, ForgetsBehind, a, fired
<1>6. QED
  BY <1>4, <1>5

(* A fresh or late number that does not set a new baseline. *)
LEMMA ProcessSettles ==
  ASSUME NEW t, TInv(t), t.expectedSeq \in SeqNum, NEW s \in SeqNum,
         Classify(t, s) \in {"late", "inOrder", "ahead"}
  PROVE  /\ Settles(t, ProcessSequence(t, s), s)
         /\ Near(t.expectedSeq, s)
         /\ Classify(t, s) = "late" =>
              /\ IsBehind(s, t.expectedSeq)
              /\ ProcessSequence(t, s).expectedSeq = t.expectedSeq
              /\ ProcessSequence(t, s).receivedSeqs = t.receivedSeqs \cup {s}
<1> DEFINE e == t.expectedSeq
           p == ProcessSequence(t, s)
<1>1. e # NoSeq /\ s \notin t.receivedSeqs
  BY DEF Classify, NoSeq, SeqNum
<1>2. CASE Classify(t, s) = "late"
  <2>1. IsBehind(s, e) /\ Dist(s, e) <= BehindResyncThreshold
    <3>1. Dist(s, e) \in SeqNum
      BY DistType
    <3>2. QED
      BY <1>1, <1>2, <3>1, HalfSpaceAssumption, TrackerAssumption
         DEF Classify, SeqNum, SeqSpace
  <2> DEFINE l == [CancelNAKs(t, {s}) EXCEPT !.receivedSeqs = @ \cup {s}]
  <2>2. p = l
    BY <1>2 DEF ProcessSequence
  <2>6. /\ TInv(l)
        /\ l.expectedSeq = e
        /\ l.receivedSeqs = t.receivedSeqs \cup {s}
        /\ l.nakAttempts = [x \in SeqNum |-> IF x = s THEN 0
                                             ELSE t.nakAttempts[x]]
        /\ l.pendingNAKs = t.pendingNAKs \ {s}
    <3> HIDE DEF p
    <3>1. QED  BY <2>1, LateInv
  <2> HIDE DEF p, l
  <2>3. /\ TInv(p)
        /\ p.expectedSeq = e
        /\ p.receivedSeqs = t.receivedSeqs \cup {s}
        /\ p.nakAttempts = [x \in SeqNum |-> IF x = s THEN 0
                                             ELSE t.nakAttempts[x]]
        /\ p.pendingNAKs = t.pendingNAKs \ {s}
    BY <2>2, <2>6
  <2>4. Settles(t, p, s)
    BY <2>3, StandsStill DEF Settles, ForgetsBehind
  <2>5. QED
    BY <2>1, <2>3, <2>4 DEF Near, p
<1>3. CASE Classify(t, s) = "inOrder"
  <2>1. s = e
    BY <1>1, <1>3 DEF Classify
  <2> DEFINE u == RecordArrival(t, s)
  <2>2. p = AdvanceWindow(u)
    BY <1>3 DEF ProcessSequence
  <2>3. HeadFilled(u)
    BY <2>1, InOrderFillsHead
  <2>4. Dist(e, s) <= MaxGapTracking
    BY <2>1, TrackerAssumption DEF Dist, SeqNum
  <2>5. /\ u.expectedSeq = e
        /\ ForgetsBehind(t.receivedSeqs \cup {s}, u.receivedSeqs, e)
        /\ KeptNear(u)
        /\ u.nakAttempts = [x \in SeqNum |-> IF x = s THEN 0
                                             ELSE t.nakAttempts[x]]
        /\ u.pendingNAKs = t.pendingNAKs \ {s}
    <3> HIDE DEF p
    <3>1. PICK r : r = RecordArrival(t, s)
      OBVIOUS
    <3>2. /\ r.expectedSeq = e
          /\ ForgetsBehind(t.receivedSeqs \cup {s}, r.receivedSeqs, e)
          /\ KeptNear(r)
      BY <2>4, <3>1, RecordArrivalSpec
    <3> DEFINE cleared == [x \in SeqNum |-> IF x = s THEN 0
                                            ELSE t.nakAttempts[x]]
    <3>3. r.nakAttempts = cleared /\ r.pendingNAKs = t.pendingNAKs \ {s}
      <4>1. RecordArrival(t, s).nakAttempts = cleared
        BY <2>4, RecordArrivalSpec, Zenon
      <4>2. RecordArrival(t, s).pendingNAKs = t.pendingNAKs \ {s}
        BY <2>4, RecordArrivalSpec, Zenon
      <4>3. QED  BY <3>1, <4>1, <4>2
    <3>4. u = r
      BY <3>1
    <3> HIDE DEF u
    <3> QED  BY <3>2, <3>3, <3>4
  <2> HIDE DEF u
  <2>6. /\ TInv(p)
        /\ p.receivedSeqs \subseteq u.receivedSeqs
        /\ \A x \in u.receivedSeqs \ p.receivedSeqs :
             IsBehind(x, p.expectedSeq)
        /\ p.nakAttempts = u.nakAttempts
        /\ p.pendingNAKs = u.pendingNAKs
    BY <2>2, <2>3, AdvanceInv
  <2>7. PICK k \in SeqNum : /\ k <= MaxGapTracking + 1
                            /\ p.expectedSeq = Plus(e, k)
                            /\ \A x \in SeqNum : Dist(e, x) < k
                                  => x \in u.receivedSeqs
    BY <2>2, <2>3, <2>5, AdvanceInv
  <2>8. \A x \in t.receivedSeqs \cup {s} :
          IsBehind(x, e) => IsBehind(x, p.expectedSeq)
    <3>1. \A x \in t.receivedSeqs \cup {s} : x \in SeqNum /\ Near(e, x)
      BY <2>4, TrackerFields DEF TInv, KeptNear, Near
    <3>2. QED  BY <2>7, <3>1, BehindAfterShift
  <2>9. ForgetsBehind(t.receivedSeqs \cup {s}, p.receivedSeqs, p.expectedSeq)
    BY <2>5, <2>6, <2>8 DEF ForgetsBehind
  <2>10. QED
    <3>1. \A x \in SeqNum : Dist(e, x) < k => x \in t.receivedSeqs \cup {s}
      BY <2>5, <2>7 DEF ForgetsBehind
    <3> HIDE DEF p
    <3>2. Settles(t, p, s)
      BY <2>5, <2>6, <2>7, <2>9, <3>1 DEF Settles
    <3>3. QED  BY <1>3, <2>4, <3>2 DEF Near, p
<1>4. CASE Classify(t, s) = "ahead"
  <2>1. IsAhead(s, e) /\ Dist(e, s) <= MaxGapTracking
    <3>1. Dist(e, s) \in SeqNum
      BY DistType
    <3>2. QED
      BY <1>1, <1>4, <3>1, HalfSpaceAssumption, TrackerAssumption
         DEF Classify, SeqNum, SeqSpace
  <2>2. p = CleanupOldSequences(ScheduleGap(RecordArrival(t, s), s))
    BY <1>4 DEF ProcessSequence
  <2> HIDE DEF p
  <2>3. /\ TInv(p)
        /\ p.expectedSeq = e
        /\ ForgetsBehind(t.receivedSeqs \cup {s}, p.receivedSeqs, e)
        /\ p.nakAttempts = [x \in SeqNum |-> IF x = s THEN 0
                                             ELSE t.nakAttempts[x]]
        /\ p.pendingNAKs = t.pendingNAKs \ {s}
    BY <1>1, <2>1, <2>2, AheadInv
  <2>4. Settles(t, p, s)
    BY <2>3, StandsStill DEF Settles
  <2>5. QED
    BY <1>4, <2>1, <2>4 DEF Near, p
<1>5. QED
  BY <1>2, <1>3, <1>4

(* A NAK is queued for s and its timer re-armed: there is room for it. *)
LEMMA RearmInv ==
  ASSUME NEW t, TInv(t), NEW s \in t.nakTimers, ~ GivesUp(t, s)
  PROVE  LET u == FireNAKTimer(t, s) IN
         /\ TInv(u)
         /\ u.expectedSeq = t.expectedSeq
         /\ u.receivedSeqs = t.receivedSeqs
         /\ u.nakAttempts = [t.nakAttempts EXCEPT ![s] = @ + 1]
         /\ u.pendingNAKs = t.pendingNAKs \cup {s}
<1> DEFINE fired == [t EXCEPT !.nakTimers = @ \ {s}]
           w == [fired EXCEPT !.nakAttempts[s] = @ + 1,
                              !.pendingNAKs    = @ \cup {s},
                              !.flushArmed     = TRUE]
           u == FireNAKTimer(t, s)
<1>1. /\ t \in Tracker
      /\ t.nakTimers \subseteq SeqNum
      /\ t.pendingNAKs \subseteq SeqNum
      /\ t.nakAttempts \in [SeqNum -> 0 .. MaxNakRounds]
      /\ s \in SeqNum
      /\ s \notin t.receivedSeqs
  BY TrackerFields DEF TInv, Missing
<1>2. [t.nakAttempts EXCEPT ![s] = @ + 1] \in [SeqNum -> 0 .. MaxNakRounds]
  <2>1. t.nakAttempts[s] + 1 \in 0 .. MaxNakRounds
    BY <1>1, TrackerAssumption DEF GivesUp
  <2>2. QED  BY <1>1, <2>1
<1>3. /\ w \in Tracker
      /\ w.expectedSeq = t.expectedSeq
      /\ w.receivedSeqs = t.receivedSeqs
      /\ w.nakTimers = t.nakTimers \ {s}
      /\ w.nakAttempts = [t.nakAttempts EXCEPT ![s] = @ + 1]
      /\ w.pendingNAKs = t.pendingNAKs \cup {s}
      /\ w.flushArmed = TRUE
  <2>1. t.nakTimers \ {s} \in SUBSET SeqNum /\ t.pendingNAKs \cup {s} \in SUBSET SeqNum
    BY <1>1
  <2>2. QED  BY <1>1, <1>2, <2>1 DEF Tracker
<1>4. ~ (Cardinality(w.nakTimers) >= MaxGapTracking)
  <2>1. IsFiniteSet(t.nakTimers) /\ Cardinality(t.nakTimers) <= MaxGapTracking
    BY TimersFit
  <2>2. Cardinality(t.nakTimers) \in Nat
    BY <2>1, FS_CardinalityType
  <2>3. Cardinality(t.nakTimers \ {s}) = Cardinality(t.nakTimers) - 1
    BY <2>1, FS_RemoveElement
  <2>4. QED  BY <1>3, <2>1, <2>2, <2>3, TrackerAssumption
<1>5. u = ScheduleNAK(w, s)
  <2>1. ~ GivesUp(t, s) /\ fired.nakAttempts = t.nakAttempts
    BY <1>1 DEF Tracker
  <2>2. QED  BY <1>1, <2>1 DEF FireNAKTimer
<1> HIDE DEF w, u, fired
<1>6. u = [w EXCEPT !.nakTimers = @ \cup {s}]
  BY <1>3, <1>4, <1>5 DEF ScheduleNAK
<1>7. /\ u \in Tracker
      /\ u.expectedSeq = t.expectedSeq
      /\ u.receivedSeqs = t.receivedSeqs
      /\ u.nakTimers = t.nakTimers
      /\ u.nakAttempts = [t.nakAttempts EXCEPT ![s] = @ + 1]
      /\ u.pendingNAKs = t.pendingNAKs \cup {s}
      /\ u.flushArmed = TRUE
  <2>1. (t.nakTimers \ {s}) \cup {s} = t.nakTimers
    OBVIOUS
  <2>2. w.nakTimers \cup {s} = t.nakTimers /\ t.nakTimers \in SUBSET SeqNum
    BY <1>1, <1>3, <2>1
  <2>3. QED  BY <1>3, <1>6, <2>2 DEF Tracker
<1>8. TInv(u)
  <2>1. Missing(u) = Missing(t)
    BY <1>7 DEF Missing, BufferedAhead
  <2>2. StateNeedsTimer(t)
    BY DEF TInv
  <2>3. StateNeedsTimer(u)
    BY <1>1, <1>7, <2>2 DEF StateNeedsTimer
  <2>4. KeptNear(u) /\ EmptyWithoutBaseline(u)
    BY <1>7 DEF TInv, KeptNear, EmptyWithoutBaseline
  <2>5. QED
    BY <1>7, <2>1, <2>3, <2>4 DEF TInv
<1>9. QED
  BY <1>7, <1>8 DEF u

(* The flush empties the queue; everything in it was still missing. *)
LEMMA FlushInv ==
  ASSUME NEW t, TInv(t)
  PROVE  LET u == FlushNAKs(t) IN
         /\ TInv(u)
         /\ u.expectedSeq = t.expectedSeq
         /\ u.receivedSeqs = t.receivedSeqs
         /\ u.nakAttempts = t.nakAttempts
         /\ u.pendingNAKs = {}
         /\ NAKBatch(t) = t.pendingNAKs
<1> DEFINE u == FlushNAKs(t)
<1>1. t \in Tracker
  BY DEF TInv
<1>2. /\ u \in Tracker
      /\ u.expectedSeq = t.expectedSeq
      /\ u.receivedSeqs = t.receivedSeqs
      /\ u.nakTimers = t.nakTimers
      /\ u.nakAttempts = t.nakAttempts
      /\ u.pendingNAKs = {}
  BY <1>1 DEF FlushNAKs, Tracker
<1> HIDE DEF u
<1>3. Missing(u) = Missing(t)
  BY <1>2 DEF Missing, BufferedAhead
<1>4. StateNeedsTimer(u) /\ KeptNear(u) /\ EmptyWithoutBaseline(u)
  BY <1>2 DEF TInv, StateNeedsTimer, KeptNear, EmptyWithoutBaseline
<1>5. NAKBatch(t) = t.pendingNAKs
  BY DEF TInv, StateNeedsTimer, Missing, NAKBatch
<1>6. QED
  BY <1>2, <1>3, <1>4, <1>5 DEF TInv, u

=============================================================================
