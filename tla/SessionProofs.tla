---------------------------- MODULE SessionProofs ----------------------------
(***************************************************************************)
(* What a session of the server makes of numbered arrivals, for every      *)
(* sequence space: the safety of the sequence tracker, for every window    *)
(* and every number of NAK rounds, and of the metadata channel, for every  *)
(* envelope window, every cap and every number of senders' starts.         *)
(***************************************************************************)
EXTENDS SequenceTracker, MetadataSync, SequenceProofs,
        FiniteSetTheorems, SequenceTheorems

-----------------------------------------------------------------------------
(* The history of a tracker. *)

(* The numbers of S are received, or behind the window and late. *)
Recalled(t, S) ==
  \A x \in S : \/ x \in t.receivedSeqs
               \/ /\ IsBehind(x, t.expectedSeq)
                  /\ Dist(x, t.expectedSeq) <= BehindResyncThreshold

(* Recalled numbers are the ones processSequence does not call fresh. *)
LEMMA RecalledIsNotFresh ==
  ASSUME NEW t, TInv(t), t.expectedSeq \in SeqNum, NEW S \in SUBSET SeqNum
  PROVE  Recalled(t, S) <=> \A x \in S : ~ IsFreshData(t, x)
<1>1. ASSUME NEW x \in SeqNum
      PROVE  ~ IsFreshData(t, x) <=>
               \/ x \in t.receivedSeqs
               \/ /\ IsBehind(x, t.expectedSeq)
                  /\ Dist(x, t.expectedSeq) <= BehindResyncThreshold
  <2>1. Dist(x, t.expectedSeq) \in SeqNum /\ t.expectedSeq # NoSeq
    <3>1. Dist(x, t.expectedSeq) \in SeqNum
      BY DistType
    <3>2. t.expectedSeq # NoSeq
      BY DEF NoSeq, SeqNum
    <3> QED BY <3>1, <3>2
  <2>2. (Dist(x, t.expectedSeq) > BehindResyncThreshold)
           <=> ~ (Dist(x, t.expectedSeq) <= BehindResyncThreshold)
    BY <2>1, HalfSpaceAssumption, TrackerAssumption DEF SeqNum, SeqSpace
  <2>3. CASE x \in t.receivedSeqs
    BY <2>1, <2>3 DEF IsFreshData, Classify
  <2>4. CASE x \notin t.receivedSeqs /\ IsBehind(x, t.expectedSeq)
    <3>1. Classify(t, x) = IF Dist(x, t.expectedSeq) > BehindResyncThreshold
                           THEN "resync" ELSE "late"
      BY <2>1, <2>4 DEF Classify
    <3> QED BY <2>2, <2>4, <3>1 DEF IsFreshData
  <2>5. CASE x \notin t.receivedSeqs /\ ~ IsBehind(x, t.expectedSeq)
    <3>1. Classify(t, x) \in {"inOrder", "resync", "ahead", "halfRange"}
      BY <2>1, <2>5 DEF Classify
    <3> QED BY <2>5, <3>1 DEF IsFreshData
  <2>6. QED  BY <2>3, <2>4, <2>5
<1>2. QED
  BY <1>1 DEF Recalled

(* Settling s keeps the history sound: what was settled is still recalled, *)
(* what is buffered ahead is settled.  S is what has been settled before,  *)
(* S2 what is remembered of it and of s.                                   *)
LEMMA SettlesHistory ==
  ASSUME NEW t, TInv(t), t.expectedSeq \in SeqNum,
         NEW s \in SeqNum, Near(t.expectedSeq, s),
         NEW a, Settles(t, a, s),
         NEW S \in SUBSET SeqNum, Recalled(t, S), BufferedAhead(t) \subseteq S
  PROVE  LET S2 == Remembered(a, S \cup {s}) IN
         /\ Recalled(a, S2)
         /\ BufferedAhead(a) \subseteq S2
         /\ a.expectedSeq \in SeqNum
         /\ MaxGapTracking < BehindResyncThreshold =>
              \A x \in SeqNum :
                Dist(t.expectedSeq, x) < Dist(t.expectedSeq, a.expectedSeq)
                  => x \in S2
<1> DEFINE e == t.expectedSeq
           f == a.expectedSeq
           S2 == Remembered(a, S \cup {s})
<1>1. t.receivedSeqs \subseteq SeqNum /\ e \notin t.receivedSeqs
      /\ \A x \in t.receivedSeqs : Near(e, x)
  BY TrackerFields DEF TInv, KeptNear
<1>2. PICK k \in SeqNum :
        /\ k <= MaxGapTracking + 1
        /\ f = Plus(e, k)
        /\ \A x \in SeqNum : Dist(e, x) < k => x \in t.receivedSeqs \cup {s}
  BY DEF Settles
<1>3. f \in SeqNum /\ Dist(e, f) = k
  BY <1>2, PlusDist
<1>4. ForgetsBehind(t.receivedSeqs \cup {s}, a.receivedSeqs, f)
  BY DEF Settles
<1> HIDE DEF f
<1>5. \A x \in S2 : x \in SeqNum /\ x \in S \cup {s}
                    /\ (IsBehind(x, f) => Dist(x, f) <= BehindResyncThreshold)
  BY DEF Remembered, f
<1>6. ASSUME NEW x \in SeqNum, IsBehind(x, e),
             Dist(x, e) <= BehindResyncThreshold
      PROVE  IsBehind(x, f)
  BY <1>2, <1>6, BehindAfterShift DEF Near
<1>7. Recalled(a, S2)
  <2>1. ASSUME NEW x \in S2
        PROVE  x \in a.receivedSeqs \/ IsBehind(x, f)
    <3>1. CASE x \in t.receivedSeqs \cup {s}
      BY <1>4, <3>1 DEF ForgetsBehind
    <3>2. CASE x \notin t.receivedSeqs \cup {s}
      BY <1>5, <1>6, <3>2 DEF Recalled
    <3>3. QED  BY <3>1, <3>2
  <2>2. QED  BY <1>5, <2>1 DEF Recalled, f
<1>8. \A x \in SeqNum : IsAhead(x, f) => ~ IsBehind(x, f)
  BY <1>3, HalfSpaceAssumption, SMT
     DEF IsBehind, IsAhead, Dist, SeqNum, SeqSpace
<1>9. BufferedAhead(a) \subseteq S2
  <2> SUFFICES ASSUME NEW x \in a.receivedSeqs, IsAhead(x, f)
               PROVE  x \in S2
    BY DEF BufferedAhead, f
  <2>1. x \in t.receivedSeqs \cup {s}
    BY <1>4 DEF ForgetsBehind
  <2>2. x \in SeqNum /\ Near(e, x)
    BY <1>1, <2>1
  <2>3. IsAhead(x, e)
    BY <1>2, <2>2, NearAfterShift
  <2>4. x \in S \cup {s}
    BY <2>1, <2>3 DEF BufferedAhead
  <2>5. QED  BY <1>8, <2>2, <2>4 DEF Remembered, f
<1>10. ASSUME MaxGapTracking < BehindResyncThreshold,
              NEW x \in SeqNum, Dist(e, x) < Dist(e, f)
       PROVE  x \in S2
  <2>1. x \in t.receivedSeqs \cup {s} /\ Dist(e, x) < k
    BY <1>2, <1>3, <1>10
  <2>2. Dist(e, x) \in SeqNum /\ Dist(e, x) <= MaxGapTracking
    <3>1. Dist(e, x) \in SeqNum
      BY DistType
    <3>2. QED  BY <1>2, <2>1, <3>1, TrackerAssumption DEF SeqNum
  <2>3. x = e \/ IsAhead(x, e)
    BY <2>2, HalfSpaceAssumption, TrackerAssumption, SMT
       DEF IsAhead, Dist, SeqNum, SeqSpace
  <2>4. x \in S \cup {s}
    BY <1>1, <2>1, <2>3 DEF BufferedAhead
  <2>5. Dist(x, f) <= k
    BY <1>2, <2>1, HalfSpaceAssumption, TrackerAssumption, SMT
       DEF Dist, Plus, SeqNum, SeqSpace
  <2>6. Dist(x, f) <= BehindResyncThreshold
    <3>1. Dist(x, f) \in SeqNum
      BY <1>3, DistType
    <3>2. QED  BY <1>2, <1>10, <2>5, <3>1, HalfSpaceAssumption,
                  TrackerAssumption DEF SeqNum, SeqSpace
  <2>7. QED  BY <2>4, <2>6 DEF Remembered, f
<1>11. QED
  BY <1>3, <1>7, <1>9, <1>10 DEF f

-----------------------------------------------------------------------------
(* The inductive invariant, as a predicate of values. *)
Consistent(t, acc, aban, rounds) ==
  /\ TInv(t)
  /\ acc \subseteq SeqNum
  /\ aban \subseteq SeqNum
  /\ rounds \in [SeqNum -> Nat]
  /\ t.expectedSeq = NoSeq => acc \cup aban = {}
  /\ Recalled(t, acc \cup aban)
  /\ BufferedAhead(t) \subseteq acc \cup aban
  /\ \A s \in SeqNum :
       t.nakAttempts[s] = rounds[s] + (IF s \in t.pendingNAKs THEN 1 ELSE 0)

Inv == Consistent(tracker, accepted, abandoned, nakRounds)

(* It says no less than IInv, the invariant the model checker evaluates. *)
LEMMA InvImpliesIInv == Inv => IInv
<1> SUFFICES ASSUME Inv PROVE IInv
  OBVIOUS
<1>1. /\ TInv(tracker)
      /\ accepted \cup abandoned \in SUBSET SeqNum
      /\ Recalled(tracker, accepted \cup abandoned)
  BY DEF Inv, Consistent
<1>2. nakRounds \in [SeqNum -> 0 .. MaxNakRounds]
  <2>1. ASSUME NEW s \in SeqNum PROVE nakRounds[s] \in 0 .. MaxNakRounds
    <3>1. /\ nakRounds[s] \in Nat
          /\ tracker.nakAttempts[s] \in 0 .. MaxNakRounds
          /\ \/ tracker.nakAttempts[s] = nakRounds[s]
             \/ tracker.nakAttempts[s] = nakRounds[s] + 1
      BY TrackerFields DEF Inv, Consistent, TInv
    <3>2. QED  BY <3>1, TrackerAssumption
  <2>2. nakRounds \in [SeqNum -> Nat]
    BY DEF Inv, Consistent
  <2>3. QED  BY <2>1, <2>2
<1>3. TypeOK
  BY <1>2 DEF Inv, Consistent, TInv, TypeOK
<1>4. HandedOnOnce
  <2>1. CASE tracker.expectedSeq = NoSeq
    BY <2>1 DEF Inv, Consistent, HandedOnOnce
  <2>2. CASE tracker.expectedSeq \in SeqNum
    BY <1>1, <2>2, RecalledIsNotFresh DEF HandedOnOnce
  <2>3. QED  BY <1>1, <2>1, <2>2, TrackerFields DEF TInv
<1>5. RoundsAreCounted
  BY DEF Inv, Consistent, RoundsAreCounted
<1>6. /\ TimersExactlyOnGaps
      /\ NakStateNeedsTimer
      /\ QueuedNAKsAreFlushed
      /\ HeadIsMissing
      /\ KeptNear(tracker)
      /\ EmptyWithoutBaseline(tracker)
  BY <1>1 DEF TInv, TimersExactlyOnGaps, NakStateNeedsTimer,
              QueuedNAKsAreFlushed, HeadIsMissing
<1>7. BufferedIsSettled /\ HistoryNeedsBaseline
  BY <1>6 DEF Inv, Consistent, BufferedIsSettled, HistoryNeedsBaseline
<1>8. QED
  BY <1>3, <1>4, <1>5, <1>6, <1>7 DEF IInv

(* Before any NAK was sent every number has zero rounds. *)
LEMMA NoRoundsType == NoRounds \in [SeqNum -> Nat]
BY DEF NoRounds

(* A new tracker with an empty history satisfies the invariant. *)
LEMMA InitInv == Init => Inv
<1> SUFFICES ASSUME Init PROVE Inv
  OBVIOUS
<1>1. TInv(NewTracker)
  BY NewTrackerInv
<1>2. /\ BufferedAhead(NewTracker) = {}
      /\ NewTracker.pendingNAKs = {}
      /\ \A s \in SeqNum : NewTracker.nakAttempts[s] = 0
  BY DEF NewTracker, BufferedAhead
<1>3. Recalled(NewTracker, {})
  BY DEF Recalled
<1>4. QED
  BY <1>1, <1>2, <1>3, NoRoundsType
     DEF Init, Inv, Consistent, NoRounds

(* A new baseline at s. *)
LEMMA BaselineConsistent ==
  ASSUME NEW t, TInv(t), NEW s \in SeqNum,
         t.expectedSeq = Succ(s), t.receivedSeqs = {s},
         t.nakAttempts = [x \in SeqNum |-> 0], t.pendingNAKs = {}
  PROVE  Consistent(t, {s}, {}, NoRounds)
<1>1. Recalled(t, {s} \cup {})
  BY DEF Recalled
<1>2. BufferedAhead(t) \subseteq {s} \cup {}
  BY DEF BufferedAhead
<1>3. Succ(s) # NoSeq
  BY HalfSpaceAssumption, SMT DEF Succ, Plus, NoSeq, SeqNum, SeqSpace
<1>4. QED
  BY <1>1, <1>2, <1>3, NoRoundsType DEF Consistent, NoRounds

(* The counters after s was settled. *)
LEMMA SettledRounds ==
  ASSUME NEW t, NEW a, NEW s \in SeqNum, Settles(t, a, s),
         NEW rounds \in [SeqNum -> Nat],
         \A x \in SeqNum : t.nakAttempts[x] =
            rounds[x] + (IF x \in t.pendingNAKs THEN 1 ELSE 0)
  PROVE  LET new == [rounds EXCEPT ![s] = 0] IN
         /\ new \in [SeqNum -> Nat]
         /\ \A x \in SeqNum : a.nakAttempts[x] =
              new[x] + (IF x \in a.pendingNAKs THEN 1 ELSE 0)
<1>1. \A x \in SeqNum : a.nakAttempts[x] = IF x = s THEN 0
                                           ELSE t.nakAttempts[x]
  BY DEF Settles
<1>2. a.pendingNAKs = t.pendingNAKs \ {s}
  BY DEF Settles
<1>3. QED
  BY <1>1, <1>2

(* The parts of a history are remembered one by one. *)
LEMMA RememberedUnion ==
  ASSUME NEW t, NEW A, NEW B
  PROVE  /\ Remembered(t, A \cup B) = Remembered(t, A) \cup Remembered(t, B)
         /\ Remembered(t, A) \subseteq A
BY DEF Remembered

(* A step that leaves the window where it is and settles nothing new. *)
LEMMA SameWindow ==
  ASSUME NEW t, TInv(t), t.expectedSeq \in SeqNum,
         NEW a, a.expectedSeq = t.expectedSeq,
         t.receivedSeqs \subseteq a.receivedSeqs,
         BufferedAhead(a) \subseteq BufferedAhead(t),
         NEW S \in SUBSET SeqNum, Recalled(t, S), BufferedAhead(t) \subseteq S
  PROVE  /\ Recalled(a, Remembered(a, S))
         /\ BufferedAhead(a) \subseteq Remembered(a, S)
<1>1. Recalled(a, Remembered(a, S))
  BY DEF Recalled, Remembered
<1>2. \A x \in SeqNum : IsAhead(x, t.expectedSeq) => ~ IsBehind(x, t.expectedSeq)
  BY HalfSpaceAssumption, SMT DEF IsBehind, IsAhead, Dist, SeqNum, SeqSpace
<1>3. \A x \in BufferedAhead(a) : x \in SeqNum /\ x \in S
                                  /\ IsAhead(x, t.expectedSeq)
  BY DEF BufferedAhead
<1>4. QED
  BY <1>1, <1>2, <1>3 DEF Remembered

(* processSequence, whatever number arrives, preserves the invariant. *)
LEMMA ReceiveInv ==
  ASSUME Inv, NEW s \in SeqNum, Receive(s)
  PROVE  Inv'
<1> DEFINE t == tracker
           a == ProcessSequence(tracker, s)
           S == accepted \cup abandoned
<1>1. /\ TInv(t)
      /\ t.expectedSeq = NoSeq \/ t.expectedSeq \in SeqNum
      /\ S \in SUBSET SeqNum
      /\ Recalled(t, S)
      /\ BufferedAhead(t) \subseteq S
      /\ nakRounds \in [SeqNum -> Nat]
      /\ \A x \in SeqNum : t.nakAttempts[x] =
           nakRounds[x] + (IF x \in t.pendingNAKs THEN 1 ELSE 0)
  BY TrackerFields DEF Inv, Consistent, TInv
<1>2. tracker' = a /\ Classify(t, s) # "halfRange"
  BY DEF Receive
<1>3. CASE Classify(t, s) = "first"
  <2>1. /\ t.expectedSeq = NoSeq
        /\ t.receivedSeqs = {}
        /\ t.nakTimers = {}
        /\ t.pendingNAKs = {}
    <3>1. t.expectedSeq = NoSeq
      BY <1>3 DEF Classify
    <3>2. QED
      BY <1>1, <3>1 DEF TInv, EmptyWithoutBaseline, Missing, BufferedAhead,
                        StateNeedsTimer
  <2>2. t.nakAttempts = [x \in SeqNum |-> 0]
    <3>1. t.nakAttempts \in [SeqNum -> 0 .. MaxNakRounds]
      BY <1>1, TrackerFields DEF TInv
    <3>2. \A x \in SeqNum : t.nakAttempts[x] = 0
      BY <1>1, <2>1, <3>1, TrackerAssumption DEF TInv, StateNeedsTimer
    <3>3. QED  BY <3>1, <3>2
  <2>3. a = [t EXCEPT !.receivedSeqs = @ \cup {s}, !.expectedSeq = Succ(s)]
    BY <1>3 DEF ProcessSequence
  <2>4. Succ(s) \in SeqNum /\ t.receivedSeqs \cup {s} = {s} /\ {s} \in SUBSET SeqNum
    BY <2>1, HalfSpaceAssumption, SMT DEF Succ, Plus, SeqNum, SeqSpace
  <2> HIDE DEF a
  <2>5. /\ a \in Tracker
        /\ a.expectedSeq = Succ(s)
        /\ a.receivedSeqs = {s}
        /\ a.nakTimers = {}
        /\ a.nakAttempts = [x \in SeqNum |-> 0]
        /\ a.pendingNAKs = {}
    BY <1>1, <2>1, <2>2, <2>3, <2>4 DEF TInv, Tracker
  <2>6. Consistent(a, {s}, {}, NoRounds)
    BY <2>5, BaselineInv, BaselineConsistent
  <2>7. QED
    BY <1>2, <1>3, <2>6 DEF Receive, Inv
<1>4. CASE Classify(t, s) = "resync"
  <2>1. a = Resync(t, s)
    BY <1>4 DEF ProcessSequence
  <2>2. t \in Tracker
    BY <1>1 DEF TInv
  <2> HIDE DEF a
  <2>3. Consistent(a, {s}, {}, NoRounds)
    BY <2>1, <2>2, ResyncInv, BaselineConsistent
  <2>4. QED
    BY <1>2, <1>4, <2>3 DEF Receive, Inv
<1>5. CASE Classify(t, s) = "duplicate"
  <2>1. a = t /\ s \in t.receivedSeqs
    BY <1>5 DEF ProcessSequence, Classify
  <2>2. t.expectedSeq \in SeqNum
    BY <1>1, <1>5 DEF Classify
  <2>3. /\ accepted' = Remembered(t, accepted)
        /\ abandoned' = Remembered(t, abandoned)
        /\ nakRounds' = [nakRounds EXCEPT ![s] = 0]
    BY <1>2, <1>5, <2>1 DEF Receive, IsFreshData
  <2>4. t.nakAttempts[s] = 0 /\ s \notin t.pendingNAKs
    <3>1. s \notin t.nakTimers
      BY <1>1, <2>1 DEF TInv, Missing
    <3>2. t.nakAttempts[s] \in 0 .. MaxNakRounds
      BY <1>1, TrackerFields DEF TInv
    <3>3. QED
      BY <1>1, <3>1, <3>2, TrackerAssumption DEF TInv, StateNeedsTimer
  <2>5. nakRounds' = nakRounds
    <3>1. nakRounds[s] = 0
      BY <1>1, <2>4
    <3>2. QED  BY <1>1, <2>3, <3>1
  <2>6. /\ Recalled(t, Remembered(t, S))
        /\ BufferedAhead(t) \subseteq Remembered(t, S)
    BY <1>1, <2>2, SameWindow
  <2>7. accepted' \cup abandoned' = Remembered(t, S)
    BY <2>3, RememberedUnion
  <2>8. accepted' \subseteq SeqNum /\ abandoned' \subseteq SeqNum
    BY <1>1, <2>3, RememberedUnion
  <2>9. t.expectedSeq # NoSeq
    BY <2>2 DEF NoSeq, SeqNum
  <2>10. QED
    BY <1>1, <1>2, <2>1, <2>5, <2>6, <2>7, <2>8, <2>9 DEF Inv, Consistent
<1>6. CASE Classify(t, s) \in {"late", "inOrder", "ahead"}
  <2>1. t.expectedSeq \in SeqNum
    BY <1>1, <1>6 DEF Classify
  <2>2. /\ Settles(t, a, s)
        /\ Near(t.expectedSeq, s)
        /\ Classify(t, s) = "late" =>
             /\ IsBehind(s, t.expectedSeq)
             /\ a.expectedSeq = t.expectedSeq
             /\ a.receivedSeqs = t.receivedSeqs \cup {s}
    BY <1>1, <1>6, <2>1, ProcessSettles
  <2> HIDE DEF a
  <2>3. /\ accepted' = Remembered(a, IF Classify(t, s) = "late"
                                     THEN accepted ELSE accepted \cup {s})
        /\ abandoned' = Remembered(a, abandoned)
        /\ nakRounds' = [nakRounds EXCEPT ![s] = 0]
    BY <1>2, <1>6 DEF Receive, IsFreshData
  <2>4. /\ nakRounds' \in [SeqNum -> Nat]
        /\ \A x \in SeqNum : a.nakAttempts[x] =
             nakRounds'[x] + (IF x \in a.pendingNAKs THEN 1 ELSE 0)
    BY <1>1, <2>2, <2>3, SettledRounds
  <2>5. /\ Recalled(a, accepted' \cup abandoned')
        /\ BufferedAhead(a) \subseteq accepted' \cup abandoned'
        /\ a.expectedSeq \in SeqNum
    <3>1. CASE Classify(t, s) = "late"
      <4>1. BufferedAhead(a) \subseteq BufferedAhead(t)
        <5>1. ~ IsAhead(s, t.expectedSeq)
          BY <2>1, <2>2, <3>1, HalfSpaceAssumption, SMT
             DEF IsBehind, IsAhead, Dist, SeqNum, SeqSpace
        <5>2. QED  BY <2>2, <3>1, <5>1 DEF BufferedAhead
      <4>2. accepted' \cup abandoned' = Remembered(a, S)
        BY <2>3, <3>1, RememberedUnion
      <4>3. a.expectedSeq = t.expectedSeq /\ t.receivedSeqs \subseteq a.receivedSeqs
        BY <2>2, <3>1
      <4>4. /\ Recalled(a, Remembered(a, S))
            /\ BufferedAhead(a) \subseteq Remembered(a, S)
        BY <1>1, <2>1, <4>1, <4>3, SameWindow
      <4>5. QED  BY <2>1, <4>2, <4>3, <4>4
    <3>2. CASE Classify(t, s) # "late"
      <4>1. S \cup {s} = (accepted \cup {s}) \cup abandoned
        OBVIOUS
      <4>2. accepted' \cup abandoned' = Remembered(a, S \cup {s})
        BY <2>3, <3>2, <4>1, RememberedUnion
      <4>3. /\ Recalled(a, Remembered(a, S \cup {s}))
            /\ BufferedAhead(a) \subseteq Remembered(a, S \cup {s})
            /\ a.expectedSeq \in SeqNum
        BY <1>1, <2>1, <2>2, SettlesHistory
      <4>4. QED  BY <4>2, <4>3
    <3>3. QED  BY <3>1, <3>2
  <2>6. accepted' \subseteq SeqNum /\ abandoned' \subseteq SeqNum
    BY <1>1, <2>3, RememberedUnion
  <2>7. TInv(a) /\ a.expectedSeq # NoSeq
    BY <2>2, <2>5 DEF Settles, NoSeq, SeqNum
  <2>8. QED
    BY <1>2, <2>4, <2>5, <2>6, <2>7 DEF Inv, Consistent
<1>7. Classify(t, s) \in {"first", "duplicate", "resync", "late", "inOrder",
                          "ahead", "halfRange"}
  BY DEF Classify
<1>8. QED
  BY <1>2, <1>3, <1>4, <1>5, <1>6, <1>7

(* The callback of a NAK timer preserves the invariant. *)
LEMMA NAKTimerInv ==
  ASSUME Inv, NEW s \in SeqNum, NAKTimer(s)
  PROVE  Inv'
<1> DEFINE t == tracker
           a == FireNAKTimer(tracker, s)
           S == accepted \cup abandoned
<1>1. /\ TInv(t)
      /\ t.expectedSeq = NoSeq \/ t.expectedSeq \in SeqNum
      /\ S \in SUBSET SeqNum
      /\ Recalled(t, S)
      /\ BufferedAhead(t) \subseteq S
      /\ nakRounds \in [SeqNum -> Nat]
      /\ \A x \in SeqNum : t.nakAttempts[x] =
           nakRounds[x] + (IF x \in t.pendingNAKs THEN 1 ELSE 0)
  BY TrackerFields DEF Inv, Consistent, TInv
<1>2. tracker' = a /\ s \in t.nakTimers /\ s \notin t.pendingNAKs
      /\ accepted' = Remembered(a, accepted)
  BY DEF NAKTimer
<1>3. t.expectedSeq \in SeqNum
  BY <1>1, <1>2 DEF TInv, Missing, BufferedAhead, EmptyWithoutBaseline
<1>4. s \in Missing(t) /\ s \notin t.receivedSeqs
  BY <1>1, <1>2 DEF TInv, Missing
<1>5. CASE GivesUp(t, s)
  <2> DEFINE fired == [t EXCEPT !.nakTimers = @ \ {s}]
  <2>1. a = AbandonSequence(fired, s)
    BY <1>4, <1>5 DEF FireNAKTimer
  <2>2. Settles(t, AbandonSequence(fired, s), s)
    BY <1>1, <1>2, <1>3, AbandonSettles
  <2> HIDE DEF a, fired
  <2>3. Settles(t, a, s)
    BY <2>1, <2>2
  <2>4. Near(t.expectedSeq, s)
    <3>1. Dist(t.expectedSeq, s) \in SeqNum /\ Dist(t.expectedSeq, s) < MaxGapTracking
      BY <1>1, <1>3, <1>4, MissingInGap, DistType
    <3>2. QED  BY <3>1, HalfSpaceAssumption, TrackerAssumption
                  DEF Near, SeqNum, SeqSpace
  <2>5. /\ abandoned' = Remembered(a, abandoned \cup {s})
        /\ nakRounds' = [nakRounds EXCEPT ![s] = 0]
    BY <1>2, <1>5 DEF NAKTimer
  <2>6. accepted' \cup abandoned' = Remembered(a, S \cup {s})
    <3>1. S \cup {s} = accepted \cup (abandoned \cup {s})
      OBVIOUS
    <3>2. QED  BY <1>2, <2>5, <3>1, RememberedUnion
  <2>7. /\ Recalled(a, accepted' \cup abandoned')
        /\ BufferedAhead(a) \subseteq accepted' \cup abandoned'
        /\ a.expectedSeq \in SeqNum
    <3>1. s \in SeqNum
      BY <1>4 DEF Missing
    <3>2. /\ Recalled(a, Remembered(a, S \cup {s}))
          /\ BufferedAhead(a) \subseteq Remembered(a, S \cup {s})
          /\ a.expectedSeq \in SeqNum
      BY <1>1, <1>3, <2>3, <2>4, <3>1, SettlesHistory
    <3>3. QED  BY <2>6, <3>2
  <2>8. /\ nakRounds' \in [SeqNum -> Nat]
        /\ \A x \in SeqNum : a.nakAttempts[x] =
             nakRounds'[x] + (IF x \in a.pendingNAKs THEN 1 ELSE 0)
    BY <1>1, <2>3, <2>5, SettledRounds
  <2>9. accepted' \subseteq SeqNum /\ abandoned' \subseteq SeqNum
    BY <1>1, <1>2, <2>5, RememberedUnion
  <2>10. TInv(a) /\ a.expectedSeq # NoSeq
    BY <2>3, <2>7 DEF Settles, NoSeq, SeqNum
  <2>11. QED
    BY <1>2, <2>7, <2>8, <2>9, <2>10 DEF Inv, Consistent
<1>6. CASE ~ GivesUp(t, s)
  <2> HIDE DEF a
  <2>1. /\ TInv(a)
        /\ a.expectedSeq = t.expectedSeq
        /\ a.receivedSeqs = t.receivedSeqs
        /\ a.nakAttempts = [t.nakAttempts EXCEPT ![s] = @ + 1]
        /\ a.pendingNAKs = t.pendingNAKs \cup {s}
    BY <1>1, <1>2, <1>6, RearmInv DEF a
  <2>2. /\ abandoned' = Remembered(a, abandoned)
        /\ nakRounds' = nakRounds
    BY <1>2, <1>6 DEF NAKTimer
  <2>3. accepted' \cup abandoned' = Remembered(a, S)
    BY <1>2, <2>2, RememberedUnion
  <2>4. BufferedAhead(a) = BufferedAhead(t)
    BY <2>1 DEF BufferedAhead
  <2>5. /\ Recalled(a, accepted' \cup abandoned')
        /\ BufferedAhead(a) \subseteq accepted' \cup abandoned'
    <3>1. t.receivedSeqs \subseteq a.receivedSeqs
          /\ BufferedAhead(a) \subseteq BufferedAhead(t)
      BY <2>1, <2>4
    <3>2. /\ Recalled(a, Remembered(a, S))
          /\ BufferedAhead(a) \subseteq Remembered(a, S)
      BY <1>1, <1>3, <2>1, <3>1, SameWindow
    <3>3. QED  BY <2>3, <3>2
  <2>6. \A x \in SeqNum : a.nakAttempts[x] =
          nakRounds'[x] + (IF x \in a.pendingNAKs THEN 1 ELSE 0)
    <3>1. t.nakAttempts \in [SeqNum -> 0 .. MaxNakRounds]
      BY <1>1, TrackerFields DEF TInv
    <3>2. \A x \in SeqNum : a.nakAttempts[x] =
            IF x = s THEN t.nakAttempts[x] + 1 ELSE t.nakAttempts[x]
      BY <2>1, <3>1
    <3>3. QED  BY <1>1, <1>2, <2>1, <2>2, <3>2
  <2>7. accepted' \subseteq SeqNum /\ abandoned' \subseteq SeqNum
    BY <1>1, <1>2, <2>2, RememberedUnion
  <2>8. a.expectedSeq # NoSeq
    BY <1>3, <2>1 DEF NoSeq, SeqNum
  <2>9. QED
    BY <1>1, <1>2, <2>1, <2>2, <2>5, <2>6, <2>7, <2>8 DEF Inv, Consistent
<1>7. QED
  BY <1>5, <1>6

(* _flushNAKs preserves the invariant. *)
LEMMA NAKFlushInv ==
  ASSUME Inv, NAKFlush
  PROVE  Inv'
<1> DEFINE t == tracker
           a == FlushNAKs(tracker)
<1>1. TInv(t)
  BY DEF Inv, Consistent
<1>2. /\ TInv(a)
      /\ a.expectedSeq = t.expectedSeq
      /\ a.receivedSeqs = t.receivedSeqs
      /\ a.nakAttempts = t.nakAttempts
      /\ a.pendingNAKs = {}
      /\ NAKBatch(t) = t.pendingNAKs
  BY <1>1, FlushInv
<1>3. /\ tracker' = a
      /\ nakRounds' = [s \in SeqNum |-> IF s \in t.pendingNAKs
                                        THEN nakRounds[s] + 1 ELSE nakRounds[s]]
      /\ accepted' = accepted
      /\ abandoned' = abandoned
  BY <1>2 DEF NAKFlush
<1> HIDE DEF a
<1>4. /\ nakRounds' \in [SeqNum -> Nat]
      /\ \A x \in SeqNum : a.nakAttempts[x] =
           nakRounds'[x] + (IF x \in a.pendingNAKs THEN 1 ELSE 0)
  BY <1>2, <1>3 DEF Inv, Consistent
<1>5. BufferedAhead(a) = BufferedAhead(t)
  BY <1>2 DEF BufferedAhead
<1>6. Recalled(a, accepted \cup abandoned)
  BY <1>2 DEF Inv, Consistent, Recalled
<1>7. QED
  BY <1>2, <1>3, <1>4, <1>5, <1>6 DEF Inv, Consistent

(* reset() in the middle of a session preserves the invariant. *)
LEMMA ResetKeepsInv ==
  ASSUME Inv, Reset
  PROVE  Inv'
<1> DEFINE a == ResetTracker(tracker)
<1>1. tracker \in Tracker
  BY DEF Inv, Consistent, TInv
<1>2. TInv(a) /\ a.expectedSeq = NoSeq
  BY <1>1, ResetInv
<1>3. /\ tracker' = a
      /\ accepted' = {}
      /\ abandoned' = {}
      /\ nakRounds' = NoRounds
  BY DEF Reset
<1> HIDE DEF a
<1>4. BufferedAhead(a) = {} /\ a.pendingNAKs = {}
      /\ \A x \in SeqNum : a.nakAttempts[x] = 0
  <2>1. a.receivedSeqs = {}
    BY <1>2 DEF TInv, EmptyWithoutBaseline
  <2>2. BufferedAhead(a) = {}
    BY <2>1 DEF BufferedAhead
  <2>3. a.nakTimers = {}
    BY <1>2, <2>2 DEF TInv, Missing
  <2>4. a.nakAttempts \in [SeqNum -> 0 .. MaxNakRounds]
    BY <1>2, TrackerFields DEF TInv
  <2>5. QED
    BY <1>2, <2>2, <2>3, <2>4, TrackerAssumption DEF TInv, StateNeedsTimer
<1>5. Recalled(a, {})
  BY DEF Recalled
<1>6. QED
  BY <1>2, <1>3, <1>4, <1>5, NoRoundsType DEF Inv, Consistent, NoRounds

(* Every step of the tracker preserves the invariant. *)
LEMMA NextInv == Inv /\ [Next]_vars => Inv'
<1> SUFFICES ASSUME Inv, [Next]_vars PROVE Inv'
  OBVIOUS
<1>1. ASSUME NEW s \in SeqNum, Receive(s) PROVE Inv'
  BY <1>1, ReceiveInv
<1>2. ASSUME NEW s \in SeqNum, NAKTimer(s) PROVE Inv'
  BY <1>2, NAKTimerInv
<1>3. CASE NAKFlush
  BY <1>3, NAKFlushInv
<1>4. CASE Reset
  BY <1>4, ResetKeepsInv
<1>5. CASE UNCHANGED vars
  BY <1>5 DEF vars, Inv
<1>6. QED
  BY <1>1, <1>2, <1>3, <1>4, <1>5 DEF Next

(* The inductive invariant holds in every reachable state. *)
LEMMA InvAlways == Spec => []Inv
<1>1. QED
  BY InitInv, NextInv, PTL DEF Spec

-----------------------------------------------------------------------------
(* The invariants hold of every reachable state, for all values of the     *)
(* constants: processSequence, the timer callback, the flush and reset     *)
(* together preserve IInv.                                                 *)
THEOREM InductiveInvariant == Spec => []IInv
<1>1. QED
  BY InvAlways, InvImpliesIInv, PTL

(* Every field of the tracker keeps its type; in particular the counters   *)
(* of NAK rounds never exceed MaxNakRounds.                                *)
THEOREM TypeCorrect == Spec => []TypeOK
<1>1. IInv => TypeOK
  BY DEF IInv
<1>2. QED
  BY InductiveInvariant, <1>1, PTL

(* The timer table covers exactly the gaps: no missing number can pin the  *)
(* window unnoticed, no timer outlives its gap.                            *)
THEOREM GapsAreTimed == Spec => []TimersExactlyOnGaps
<1>1. IInv => TimersExactlyOnGaps
  BY DEF IInv
<1>2. QED
  BY InductiveInvariant, <1>1, PTL

(* _cancelNAK is called wherever it must be: no retry counter and no       *)
(* queued NAK is left behind, and the queue is flushed.                    *)
THEOREM NoStrayNAKState == Spec => [](NakStateNeedsTimer /\ QueuedNAKsAreFlushed)
<1>1. IInv => NakStateNeedsTimer /\ QueuedNAKsAreFlushed
  BY DEF IInv
<1>2. QED
  BY InductiveInvariant, <1>1, PTL

(* receivedSeqs and nakTimers are bounded, and the eviction branch of      *)
(* _scheduleNAK is never taken.                                            *)
THEOREM TrackerIsBounded == Spec => []Bounded
<1>1. Inv => Bounded
  <2> SUFFICES ASSUME Inv PROVE Bounded
    OBVIOUS
  <2>1. TInv(tracker)
    BY DEF Inv, Consistent
  <2>2. QED
    BY <2>1, TimersFit DEF Bounded, TInv
<1>2. QED
  BY InvAlways, <1>1, PTL

(* No payload is handed on twice between two baselines, nor after its      *)
(* number was given up.                                                    *)
THEOREM AtMostOnce == Spec => []HandedOnOnce
<1>1. IInv => HandedOnOnce
  BY DEF IInv
<1>2. QED
  BY InductiveInvariant, <1>1, PTL

(* A number is given up only after MaxNakRounds NAKs were sent for it. *)
THEOREM FullBudget == Spec => AbandonedOnlyAfterAllRounds
<1>1. ASSUME Inv, [Next]_vars, NEW s \in abandoned' \ abandoned
      PROVE  nakRounds[s] = MaxNakRounds
  <2>1. ASSUME NEW r \in SeqNum, Receive(r) PROVE FALSE
    <3>1. abandoned' \subseteq abandoned
      BY <2>1, RememberedUnion DEF Receive
    <3>2. QED  BY <3>1
  <2>2. ASSUME NEW r \in SeqNum, NAKTimer(r)
        PROVE  nakRounds[s] = MaxNakRounds
    <3>1. s = r /\ GivesUp(tracker, r) /\ r \notin tracker.pendingNAKs
      BY <2>2 DEF NAKTimer, Remembered
    <3>2. /\ tracker.nakAttempts[r] \in 0 .. MaxNakRounds
          /\ nakRounds[r] \in Nat
          /\ tracker.nakAttempts[r] = nakRounds[r] + 0
      BY <1>1, <3>1, TrackerFields DEF Inv, Consistent, TInv
    <3>3. QED
      BY <3>1, <3>2, TrackerAssumption DEF GivesUp
  <2>3. CASE NAKFlush
    BY <2>3 DEF NAKFlush
  <2>4. CASE Reset
    BY <2>4 DEF Reset
  <2>5. CASE UNCHANGED vars
    BY <2>5 DEF vars
  <2>6. QED
    BY <1>1, <2>1, <2>2, <2>3, <2>4, <2>5 DEF Next
<1>2. Inv /\ [Next]_vars =>
        [\A s \in abandoned' \ abandoned : nakRounds[s] = MaxNakRounds]_vars
  BY <1>1
<1>3. QED
  BY InvAlways, <1>2, PTL DEF Spec, AbandonedOnlyAfterAllRounds

(* Numbers the window passes. *)
Passed(x) == Dist(tracker.expectedSeq, x)
               < Dist(tracker.expectedSeq, tracker'.expectedSeq)

(* An arrival that leaves expectedSeq in place lets the cumulative ACK     *)
(* pass nothing.                                                           *)
LEMMA NothingPassedInPlace ==
  ASSUME Inv, tracker'.expectedSeq = tracker.expectedSeq, NEW x \in SeqNum
  PROVE  ~ Passed(x)
<1>1. tracker.expectedSeq \in SeqNum \cup {NoSeq}
  BY TrackerFields DEF Inv, Consistent, TInv
<1>2. QED
  BY <1>1, HalfSpaceAssumption, SMT DEF Passed, Dist, SeqNum, SeqSpace, NoSeq

(* The window moves forward only and passes settled numbers only, unless a *)
(* new baseline is set.  The late window must be longer than the tracked   *)
(* gap, as the constructor's default (twice as long) is.                   *)
THEOREM AckCoversSettled ==
  ASSUME MaxGapTracking < BehindResyncThreshold
  PROVE  Spec => AckedOnlyIfSettled
<1> DEFINE Settled == \A x \in SeqNum : Passed(x) => x \in accepted' \cup abandoned'
           S == accepted \cup abandoned
<1>1. ASSUME Inv, NEW s \in SeqNum, Receive(s) PROVE Rebaseline \/ Settled
  <2>1. CASE Classify(tracker, s) \in {"first", "resync"}
    BY <1>1, <2>1 DEF Rebaseline
  <2>2. CASE Classify(tracker, s) = "duplicate"
    <3>1. tracker' = tracker
      BY <1>1, <2>2 DEF Receive, ProcessSequence
    <3>2. QED  BY <1>1, <3>1, NothingPassedInPlace
  <2>3. CASE Classify(tracker, s) \in {"late", "inOrder", "ahead"}
    <3> DEFINE a == ProcessSequence(tracker, s)
    <3>1. /\ TInv(tracker)
          /\ tracker.expectedSeq \in SeqNum
          /\ S \in SUBSET SeqNum
          /\ Recalled(tracker, S)
          /\ BufferedAhead(tracker) \subseteq S
      BY <1>1, <2>3, TrackerFields DEF Inv, Consistent, TInv, Classify
    <3>2. /\ Settles(tracker, a, s)
          /\ Near(tracker.expectedSeq, s)
          /\ Classify(tracker, s) = "late" =>
               a.expectedSeq = tracker.expectedSeq
      BY <2>3, <3>1, ProcessSettles
    <3>3. tracker' = a
      BY <1>1 DEF Receive
    <3> HIDE DEF a
    <3>4. CASE Classify(tracker, s) = "late"
      BY <1>1, <3>2, <3>3, <3>4, NothingPassedInPlace
    <3>5. CASE Classify(tracker, s) # "late"
      <4>1. accepted' \cup abandoned' = Remembered(a, S \cup {s})
        <5>1. /\ accepted' = Remembered(a, accepted \cup {s})
              /\ abandoned' = Remembered(a, abandoned)
          BY <1>1, <2>3, <3>3, <3>5 DEF Receive, IsFreshData
        <5>2. S \cup {s} = (accepted \cup {s}) \cup abandoned
          OBVIOUS
        <5>3. QED  BY <5>1, <5>2, RememberedUnion
      <4>2. \A x \in SeqNum :
              Dist(tracker.expectedSeq, x)
                < Dist(tracker.expectedSeq, a.expectedSeq)
              => x \in Remembered(a, S \cup {s})
        BY <3>1, <3>2, SettlesHistory
      <4>3. QED  BY <3>3, <4>1, <4>2 DEF Passed
    <3>6. QED  BY <3>4, <3>5
  <2>4. QED
    BY <1>1, <2>1, <2>2, <2>3 DEF Receive, Classify
<1>2. ASSUME Inv, NEW s \in SeqNum, NAKTimer(s) PROVE Settled
  <2> DEFINE a == FireNAKTimer(tracker, s)
             fired == [tracker EXCEPT !.nakTimers = @ \ {s}]
  <2>1. /\ TInv(tracker)
        /\ tracker.expectedSeq \in SeqNum
        /\ S \in SUBSET SeqNum
        /\ Recalled(tracker, S)
        /\ BufferedAhead(tracker) \subseteq S
        /\ s \in tracker.nakTimers
        /\ s \notin tracker.receivedSeqs
    BY <1>2, TrackerFields
       DEF Inv, Consistent, TInv, NAKTimer, Missing, BufferedAhead,
           EmptyWithoutBaseline
  <2>2. tracker' = a /\ accepted' = Remembered(a, accepted)
    BY <1>2 DEF NAKTimer
  <2>3. CASE ~ GivesUp(tracker, s)
    <3>1. a.expectedSeq = tracker.expectedSeq
      BY <2>1, <2>3, RearmInv
    <3>2. QED  BY <1>2, <2>2, <3>1, NothingPassedInPlace
  <2>4. CASE GivesUp(tracker, s)
    <3>1. a = AbandonSequence(fired, s)
      BY <2>1, <2>4 DEF FireNAKTimer
    <3>2. Settles(tracker, AbandonSequence(fired, s), s)
      BY <2>1, AbandonSettles
    <3> HIDE DEF a, fired
    <3>3. Near(tracker.expectedSeq, s)
      <4>1. s \in Missing(tracker)
        BY <2>1 DEF TInv
      <4>2. /\ Dist(tracker.expectedSeq, s) \in SeqNum
            /\ Dist(tracker.expectedSeq, s) < MaxGapTracking
        BY <2>1, <4>1, MissingInGap, DistType
      <4>3. QED  BY <4>2, HalfSpaceAssumption, TrackerAssumption
                    DEF Near, SeqNum, SeqSpace
    <3>4. accepted' \cup abandoned' = Remembered(a, S \cup {s})
      <4>1. abandoned' = Remembered(a, abandoned \cup {s})
        BY <1>2, <2>2, <2>4 DEF NAKTimer
      <4>2. S \cup {s} = accepted \cup (abandoned \cup {s})
        OBVIOUS
      <4>3. QED  BY <2>2, <4>1, <4>2, RememberedUnion
    <3>5. \A x \in SeqNum :
            Dist(tracker.expectedSeq, x)
              < Dist(tracker.expectedSeq, a.expectedSeq)
            => x \in Remembered(a, S \cup {s})
      BY <2>1, <3>1, <3>2, <3>3, SettlesHistory
    <3>6. QED  BY <2>2, <3>4, <3>5 DEF Passed
  <2>5. QED  BY <2>3, <2>4
<1>3. ASSUME Inv, NAKFlush PROVE Settled
  <2>1. tracker'.expectedSeq = tracker.expectedSeq
    BY <1>3, FlushInv DEF NAKFlush, Inv, Consistent
  <2>2. QED  BY <1>3, <2>1, NothingPassedInPlace
<1>4. ASSUME Inv, UNCHANGED vars PROVE Settled
  BY <1>4, NothingPassedInPlace DEF vars
<1>5. ASSUME Inv, [Next]_vars PROVE Rebaseline \/ Settled
  <2> HIDE DEF Settled
  <2>1. CASE Reset
    BY <2>1 DEF Rebaseline
  <2>2. QED
    BY <1>1, <1>2, <1>3, <1>4, <1>5, <2>1 DEF Next
<1>6. Inv /\ [Next]_vars =>
        [\/ Rebaseline
         \/ \A s \in SeqNum :
              Dist(tracker.expectedSeq, s)
                 < Dist(tracker.expectedSeq, tracker'.expectedSeq)
              => s \in accepted' \cup abandoned']_vars
  BY <1>5 DEF Passed
<1>7. QED
  BY InvAlways, <1>6, PTL DEF Spec, AckedOnlyIfSettled

-----------------------------------------------------------------------------
(* Why a gap at the head of the window does not last. *)

(* What is left of the rounds of the number the window waits for, two      *)
(* turns to a round: the timer queues the NAK, the flush sends it.         *)
RoundsLeft(t) ==
  2 * (MaxNakRounds - t.nakAttempts[t.expectedSeq])
    + (IF t.expectedSeq \in t.pendingNAKs THEN 1 ELSE 0)

(* The window waits for a number behind others that have arrived. *)
Pinned(t) == t.expectedSeq # NoSeq /\ BufferedAhead(t) # {}

(* The timer whose turn it is for that number is armed. *)
HeadIsTimed(t) ==
  /\ t.expectedSeq \in t.pendingNAKs => t.flushArmed
  /\ t.expectedSeq \in t.nakTimers

(* The turn of that number: its queued NAK is sent, or its timer fires. *)
HeadTurn ==
  \/ tracker.expectedSeq \in tracker.pendingNAKs /\ NAKFlush
  \/ NAKTimer(tracker.expectedSeq)

(* The window waits for the same number after the step. *)
StillWaiting == Pinned(tracker) /\ tracker'.expectedSeq = tracker.expectedSeq

(* The fields RoundsLeft and HeadIsTimed speak of, in a tracker the window *)
(* of which is pinned.                                                     *)
LEMMA PinnedFields ==
  ASSUME NEW t, TInv(t), Pinned(t)
  PROVE  LET e == t.expectedSeq IN
         /\ e \in SeqNum
         /\ t.receivedSeqs \subseteq SeqNum
         /\ e \notin t.receivedSeqs
         /\ t.nakAttempts \in [SeqNum -> 0 .. MaxNakRounds]
         /\ e \in t.nakTimers
<1> DEFINE e == t.expectedSeq
<1>1. /\ e \in SeqNum
      /\ t.receivedSeqs \subseteq SeqNum
      /\ e \notin t.receivedSeqs
      /\ t.nakAttempts \in [SeqNum -> 0 .. MaxNakRounds]
  BY TrackerFields DEF TInv, Pinned
<1>2. PICK r \in BufferedAhead(t) : TRUE
  BY DEF Pinned
<1>3. r \in SeqNum /\ Dist(e, r) # 0
  BY <1>1, <1>2 DEF BufferedAhead, IsAhead
<1>4. Dist(e, e) < Dist(e, r)
  <2>1. Dist(e, e) = 0 /\ Dist(e, r) \in SeqNum
    BY <1>1, <1>3, DistType
  <2>2. QED  BY <1>3, <2>1 DEF SeqNum
<1>5. e \in Missing(t)
  BY <1>1, <1>2, <1>4 DEF Missing
<1>6. QED
  BY <1>1, <1>5 DEF TInv

(* A pinned head has a timer armed and at most all its rounds left. *)
LEMMA PinnedIsTimed ==
  ASSUME NEW t, TInv(t), Pinned(t),
         t.expectedSeq \in t.pendingNAKs => t.nakAttempts[t.expectedSeq] # 0
  PROVE  HeadIsTimed(t) /\ RoundsLeft(t) \in 0 .. 2 * MaxNakRounds
<1> DEFINE n == t.nakAttempts[t.expectedSeq]
<1>1. n \in 0 .. MaxNakRounds
  BY PinnedFields
<1>2. HeadIsTimed(t)
  BY PinnedFields DEF HeadIsTimed, TInv
<1> HIDE DEF n
<1>3. CASE t.expectedSeq \in t.pendingNAKs
  <2>1. RoundsLeft(t) = 2 * (MaxNakRounds - n) + 1 /\ n # 0
    BY <1>3 DEF RoundsLeft, n
  <2>2. QED  BY <1>1, <1>2, <2>1, TrackerAssumption
<1>4. CASE t.expectedSeq \notin t.pendingNAKs
  <2>1. RoundsLeft(t) = 2 * (MaxNakRounds - n) + 0
    BY <1>4 DEF RoundsLeft, n
  <2>2. QED  BY <1>1, <1>2, <2>1, TrackerAssumption
<1>5. QED
  BY <1>3, <1>4

(* Settling another number leaves the head pinned and its rounds alone:    *)
(* what is buffered ahead is not forgotten.                                *)
LEMMA SettlesPinned ==
  ASSUME NEW t, TInv(t), Pinned(t), NEW s \in SeqNum,
         NEW a, Settles(t, a, s), a.expectedSeq = t.expectedSeq
  PROVE  Pinned(a) /\ RoundsLeft(a) = RoundsLeft(t) /\ s # t.expectedSeq
<1> DEFINE e == t.expectedSeq
<1>1. /\ e \in SeqNum
      /\ t.receivedSeqs \subseteq SeqNum
  BY PinnedFields
<1>2. /\ TInv(a)
      /\ a.nakAttempts = [x \in SeqNum |-> IF x = s THEN 0
                                           ELSE t.nakAttempts[x]]
      /\ a.pendingNAKs = t.pendingNAKs \ {s}
      /\ \A x \in t.receivedSeqs \cup {s} :
            x \in a.receivedSeqs \/ IsBehind(x, e)
  BY DEF Settles, ForgetsBehind
<1>3. s # e
  <2>1. ~ IsBehind(e, e)
    BY <1>1, HalfSpaceAssumption, SMT DEF IsBehind, IsAhead, Dist, SeqNum
  <2>2. e \notin a.receivedSeqs
    BY <1>2 DEF TInv
  <2>3. QED  BY <1>2, <2>1, <2>2
<1>4. BufferedAhead(t) \subseteq BufferedAhead(a)
  <2>1. ASSUME NEW x \in t.receivedSeqs, IsAhead(x, e)
        PROVE  x \in a.receivedSeqs
    <3>1. ~ IsBehind(x, e)
      BY <1>1, <2>1, HalfSpaceAssumption, SMT
         DEF IsBehind, IsAhead, Dist, SeqNum, SeqSpace
    <3>2. QED  BY <1>2, <3>1
  <2>2. QED  BY <2>1 DEF BufferedAhead
<1>5. a.nakAttempts[e] = t.nakAttempts[e]
      /\ (e \in a.pendingNAKs <=> e \in t.pendingNAKs)
  BY <1>1, <1>2, <1>3
<1>6. QED
  BY <1>3, <1>4, <1>5 DEF Pinned, RoundsLeft

(* An arrival that leaves the window waiting for the same number. *)
LEMMA ReceivePinned ==
  ASSUME Inv, NEW s \in SeqNum, Receive(s), StillWaiting
  PROVE  Pinned(tracker') /\ RoundsLeft(tracker') = RoundsLeft(tracker)
<1> DEFINE t == tracker
           a == ProcessSequence(tracker, s)
<1>1. /\ TInv(t)
      /\ Pinned(t)
      /\ tracker' = a
      /\ a.expectedSeq = t.expectedSeq
      /\ Classify(t, s) # "halfRange"
  BY DEF Inv, Consistent, Receive, StillWaiting
<1>2. t.expectedSeq \in SeqNum
  BY <1>1, PinnedFields
<1>3. CASE Classify(t, s) = "duplicate"
  BY <1>1, <1>3 DEF ProcessSequence
<1>4. CASE Classify(t, s) = "resync"
  <2>1. a.expectedSeq = Succ(s) /\ TInv(a) /\ a.receivedSeqs = {s}
    BY <1>1, <1>4, ResyncInv DEF TInv, ProcessSequence
  <2>2. Succ(s) # t.expectedSeq
    <3>1. Dist(s, t.expectedSeq) # 1
      <4>1. Dist(s, t.expectedSeq) > 1 \/ IsAhead(s, t.expectedSeq)
        <5>1. t.expectedSeq # NoSeq
          BY <1>1 DEF Pinned
        <5>2. \/ /\ IsBehind(s, t.expectedSeq)
                 /\ Dist(s, t.expectedSeq) > BehindResyncThreshold
              \/ IsAhead(s, t.expectedSeq)
          BY <1>4, <5>1 DEF Classify
        <5>3. Dist(s, t.expectedSeq) \in SeqNum
          BY <1>2, DistType
        <5>4. QED  BY <5>2, <5>3, TrackerAssumption DEF SeqNum
      <4>2. IsAhead(s, t.expectedSeq) => Dist(s, t.expectedSeq) # 1
        BY <1>2, HalfSpaceAssumption, SMT DEF IsAhead, Dist, SeqNum, SeqSpace
      <4>3. QED  BY <4>1, <4>2
    <3>2. Dist(s, Succ(s)) = 1
      BY HalfSpaceAssumption, SMT DEF Succ, Plus, Dist, SeqNum, SeqSpace
    <3>3. QED  BY <3>1, <3>2
  <2>3. QED  BY <1>1, <2>1, <2>2
<1>5. CASE Classify(t, s) \in {"late", "inOrder", "ahead"}
  <2>1. Settles(t, a, s)
    BY <1>1, <1>2, <1>5, ProcessSettles
  <2> HIDE DEF a
  <2>2. Pinned(a) /\ RoundsLeft(a) = RoundsLeft(t)
    BY <1>1, <2>1, SettlesPinned
  <2>3. QED  BY <1>1, <2>2
<1>6. Classify(t, s) # "first"
  BY <1>1 DEF Classify, Pinned
<1>7. QED
  BY <1>1, <1>3, <1>4, <1>5, <1>6 DEF Classify

(* The timer of a number fires and the window stays: the number is another *)
(* one, or a round of the head has begun.                                  *)
LEMMA NAKTimerPinned ==
  ASSUME Inv, NEW s \in SeqNum, NAKTimer(s), StillWaiting
  PROVE  /\ Pinned(tracker')
         /\ RoundsLeft(tracker') <= RoundsLeft(tracker)
         /\ s = tracker.expectedSeq => RoundsLeft(tracker') < RoundsLeft(tracker)
<1> DEFINE t == tracker
           a == FireNAKTimer(tracker, s)
           e == t.expectedSeq
<1>1. /\ TInv(t)
      /\ Pinned(t)
      /\ tracker' = a
      /\ a.expectedSeq = e
      /\ s \in t.nakTimers
      /\ s \notin t.pendingNAKs
  BY DEF Inv, Consistent, NAKTimer, StillWaiting
<1>2. /\ e \in SeqNum
      /\ t.nakAttempts \in [SeqNum -> 0 .. MaxNakRounds]
  BY <1>1, PinnedFields
<1>3. RoundsLeft(t) \in Int
  BY <1>2, TrackerAssumption DEF RoundsLeft
<1>4. CASE GivesUp(t, s)
  <2> DEFINE fired == [t EXCEPT !.nakTimers = @ \ {s}]
  <2>1. s \notin t.receivedSeqs
    BY <1>4 DEF GivesUp
  <2>2. a = AbandonSequence(fired, s)
    BY <1>4, <2>1 DEF FireNAKTimer
  <2>3. Settles(t, AbandonSequence(fired, s), s)
    BY <1>1, <1>2, AbandonSettles
  <2> HIDE DEF a, fired
  <2>4. Settles(t, a, s)
    BY <2>2, <2>3
  <2>5. Pinned(a) /\ RoundsLeft(a) = RoundsLeft(t) /\ s # e
    BY <1>1, <2>4, SettlesPinned
  <2>6. QED  BY <1>1, <1>3, <2>5
<1>5. CASE ~ GivesUp(t, s)
  <2> HIDE DEF a
  <2>1. /\ a.receivedSeqs = t.receivedSeqs
        /\ a.nakAttempts = [t.nakAttempts EXCEPT ![s] = @ + 1]
        /\ a.pendingNAKs = t.pendingNAKs \cup {s}
    BY <1>1, <1>5, RearmInv DEF a
  <2>2. Pinned(a)
    BY <1>1, <2>1 DEF Pinned, BufferedAhead
  <2>3. CASE s = e
    <3>1. /\ a.nakAttempts[e] = t.nakAttempts[e] + 1
          /\ e \in a.pendingNAKs
          /\ e \notin t.pendingNAKs
      BY <1>1, <1>2, <2>1, <2>3
    <3>2. /\ RoundsLeft(a) = 2 * (MaxNakRounds - (t.nakAttempts[e] + 1)) + 1
          /\ RoundsLeft(t) = 2 * (MaxNakRounds - t.nakAttempts[e]) + 0
      BY <1>1, <3>1 DEF RoundsLeft
    <3>3. t.nakAttempts[e] \in Int
      BY <1>2
    <3>4. RoundsLeft(a) < RoundsLeft(t)
      BY <3>2, <3>3, TrackerAssumption
    <3>5. RoundsLeft(a) \in Int
      BY <3>2, <3>3, TrackerAssumption
    <3>6. QED  BY <1>1, <1>3, <2>2, <3>4, <3>5
  <2>4. CASE s # e
    <3>1. /\ a.nakAttempts[e] = t.nakAttempts[e]
          /\ (e \in a.pendingNAKs <=> e \in t.pendingNAKs)
      BY <1>2, <2>1, <2>4
    <3>2. RoundsLeft(a) = RoundsLeft(t)
      BY <1>1, <3>1 DEF RoundsLeft
    <3>3. QED  BY <1>1, <1>3, <2>2, <2>4, <3>2
  <2>5. QED  BY <2>3, <2>4
<1>6. QED
  BY <1>4, <1>5

(* The flush sends what is queued; a round of the head that was queued is  *)
(* over.                                                                   *)
LEMMA NAKFlushPinned ==
  ASSUME Inv, NAKFlush, Pinned(tracker)
  PROVE  /\ Pinned(tracker')
         /\ RoundsLeft(tracker') <= RoundsLeft(tracker)
         /\ tracker.expectedSeq \in tracker.pendingNAKs =>
              RoundsLeft(tracker') < RoundsLeft(tracker)
<1> DEFINE t == tracker
           a == FlushNAKs(tracker)
           e == t.expectedSeq
<1>1. /\ TInv(t)
      /\ tracker' = a
  BY DEF Inv, Consistent, NAKFlush
<1>2. t.nakAttempts[e] \in Int
  BY <1>1, PinnedFields
<1>3. /\ a.expectedSeq = e
      /\ a.receivedSeqs = t.receivedSeqs
      /\ a.nakAttempts = t.nakAttempts
      /\ a.pendingNAKs = {}
  BY <1>1, FlushInv
<1> HIDE DEF a
<1>4. Pinned(a)
  BY <1>3 DEF Pinned, BufferedAhead
<1>5. RoundsLeft(a) = 2 * (MaxNakRounds - t.nakAttempts[e]) + 0
  BY <1>3 DEF RoundsLeft
<1>6. RoundsLeft(t) = 2 * (MaxNakRounds - t.nakAttempts[e])
                        + (IF e \in t.pendingNAKs THEN 1 ELSE 0)
  BY DEF RoundsLeft
<1>7. QED
  BY <1>1, <1>2, <1>4, <1>5, <1>6, TrackerAssumption

(* A gap at the head of the window cannot last, by steps: while the window *)
(* waits for a number with others buffered ahead, a timer of that number   *)
(* is armed; no step that leaves the window waiting for it gives it rounds *)
(* back or empties what is buffered, whatever datagrams arrive; and every  *)
(* turn of its own uses up one of the at most 2 * MaxNakRounds that are    *)
(* left, until it is given up and the window moves.  With the fairness of  *)
(* the timers this is why PinnedHeadMoves holds.                           *)
THEOREM HeadGetsOn ==
  Spec => /\ [](Pinned(tracker) =>
                  /\ HeadIsTimed(tracker)
                  /\ RoundsLeft(tracker) \in 0 .. 2 * MaxNakRounds)
          /\ [][StillWaiting => /\ Pinned(tracker')
                                /\ RoundsLeft(tracker') <= RoundsLeft(tracker)]_vars
          /\ [][StillWaiting /\ HeadTurn =>
                  RoundsLeft(tracker') < RoundsLeft(tracker)]_vars
<1>1. ASSUME Inv, Pinned(tracker)
      PROVE  HeadIsTimed(tracker) /\ RoundsLeft(tracker) \in 0 .. 2 * MaxNakRounds
  <2>1. TInv(tracker) /\ tracker.expectedSeq \in SeqNum
    BY <1>1, PinnedFields DEF Inv, Consistent
  <2>2. tracker.expectedSeq \in tracker.pendingNAKs
          => tracker.nakAttempts[tracker.expectedSeq] # 0
    BY <1>1, <2>1 DEF Inv, Consistent
  <2>3. QED  BY <1>1, <2>1, <2>2, PinnedIsTimed
<1>2. ASSUME Inv, [Next]_vars, StillWaiting
      PROVE  /\ Pinned(tracker')
             /\ RoundsLeft(tracker') <= RoundsLeft(tracker)
             /\ HeadTurn => RoundsLeft(tracker') < RoundsLeft(tracker)
  <2>1. Pinned(tracker) /\ tracker'.expectedSeq = tracker.expectedSeq
    BY <1>2 DEF StillWaiting
  <2>2. /\ TInv(tracker)
        /\ tracker.expectedSeq \in SeqNum
        /\ RoundsLeft(tracker) \in Int
    <3>1. TInv(tracker) /\ tracker.expectedSeq \in SeqNum
      BY <1>2, <2>1, PinnedFields DEF Inv, Consistent
    <3>2. RoundsLeft(tracker) \in 0 .. 2 * MaxNakRounds
      BY <1>1, <1>2, <2>1
    <3>3. QED  BY <3>1, <3>2
  <2>3. HeadTurn => RoundsLeft(tracker') < RoundsLeft(tracker)
    <3>1. CASE tracker.expectedSeq \in tracker.pendingNAKs /\ NAKFlush
      BY <1>2, <2>1, <3>1, NAKFlushPinned
    <3>2. CASE NAKTimer(tracker.expectedSeq)
      BY <1>2, <2>2, <3>2, NAKTimerPinned
    <3>3. QED  BY <3>1, <3>2 DEF HeadTurn
  <2>4. Pinned(tracker') /\ RoundsLeft(tracker') <= RoundsLeft(tracker)
    <3>1. ASSUME NEW s \in SeqNum, Receive(s)
          PROVE  Pinned(tracker') /\ RoundsLeft(tracker') <= RoundsLeft(tracker)
      <4>1. Pinned(tracker') /\ RoundsLeft(tracker') = RoundsLeft(tracker)
        BY <1>2, <3>1, ReceivePinned
      <4>2. QED  BY <2>2, <4>1
    <3>2. ASSUME NEW s \in SeqNum, NAKTimer(s)
          PROVE  Pinned(tracker') /\ RoundsLeft(tracker') <= RoundsLeft(tracker)
      BY <1>2, <3>2, NAKTimerPinned
    <3>3. CASE NAKFlush
      BY <1>2, <2>1, <3>3, NAKFlushPinned
    <3>4. CASE Reset
      <4>1. tracker'.expectedSeq = NoSeq
        BY <2>2, <3>4, ResetInv DEF Reset, TInv
      <4>2. QED  BY <2>1, <4>1 DEF Pinned
    <3>5. CASE UNCHANGED vars
      BY <2>1, <2>2, <3>5 DEF vars
    <3>6. QED
      BY <1>2, <3>1, <3>2, <3>3, <3>4, <3>5 DEF Next
  <2>5. QED  BY <2>3, <2>4
<1>3. Inv /\ [Next]_vars =>
        [StillWaiting => /\ Pinned(tracker')
                         /\ RoundsLeft(tracker') <= RoundsLeft(tracker)]_vars
  BY <1>2
<1>4. Inv /\ [Next]_vars =>
        [StillWaiting /\ HeadTurn =>
           RoundsLeft(tracker') < RoundsLeft(tracker)]_vars
  BY <1>2
<1>5. Inv => (Pinned(tracker) =>
                /\ HeadIsTimed(tracker)
                /\ RoundsLeft(tracker) \in 0 .. 2 * MaxNakRounds)
  BY <1>1
<1>6. QED
  BY InvAlways, <1>3, <1>4, <1>5, PTL DEF Spec

-----------------------------------------------------------------------------
(* Metadata: the window of a channel. *)

(* The numbers of envelopes: no sender comes half way round. *)
Envelopes == 0 .. MaxEnvelopes - 1

WindowEntry == [seq : SeqNum, seen : SUBSET Nat]

(* What has been seen, over the whole window. *)
Pairs(w) == UNION {{e.seq} \X e.seen : e \in ToSet(w)}

(* Envelopes come in ascending, and there is room for what is seen. *)
WindowOK(w) ==
  /\ w \in Seq(WindowEntry)
  /\ \A i, j \in 1 .. Len(w) : i < j => w[i].seq < w[j].seq
  /\ Len(w) <= EnvelopeSeqWindow
  /\ IsFiniteSet(Pairs(w)) /\ Cardinality(Pairs(w)) <= MaxChunkIndices

ChannelOK(ch) ==
  /\ ch \in Channel
  /\ WindowOK(ch.window)
  /\ ch.last = NoSeq => ch.window = << >>
  /\ ch.last # NoSeq => /\ ch.last \in Envelopes /\ Len(ch.window) # 0
                        /\ ch.window[Len(ch.window)].seq = ch.last

(* What was applied is remembered as long as its envelope is in the window, *)
(* and is behind the channel.                                               *)
StillKnown(ch, seq, idx) ==
  /\ seq <= ch.last
  /\ seq \in WindowSeqs(ch) => idx \in Seen(ch, seq)

AppliedOK(ch, applied) ==
  \A c \in applied : /\ c.seq \in Envelopes /\ ch.last # NoSeq
                     /\ StillKnown(ch, c.seq, c.idx)

(* The entries of a window, and the pairs it stands for. *)
LEMMA WindowFacts ==
  ASSUME NEW w \in Seq(WindowEntry)
  PROVE  /\ Len(w) \in Nat /\ DOMAIN w = 1 .. Len(w)
         /\ \A i \in 1 .. Len(w) :
              w[i].seq \in SeqNum /\ w[i].seen \subseteq Nat
         /\ \A a, b : <<a, b>> \in Pairs(w) <=>
                        \E i \in 1 .. Len(w) : w[i].seq = a /\ b \in w[i].seen
         /\ \A p \in Pairs(w) : p = <<p[1], p[2]>>
<1>1. Len(w) \in Nat /\ DOMAIN w = 1 .. Len(w)
  BY LenProperties
<1>2. \A i \in 1 .. Len(w) : w[i] \in WindowEntry
  BY ElementOfSeq
<1>3. \A i \in 1 .. Len(w) : w[i].seq \in SeqNum /\ w[i].seen \subseteq Nat
  BY <1>2 DEF WindowEntry
<1>4. \A a, b : <<a, b>> \in Pairs(w) <=>
                  \E i \in 1 .. Len(w) : w[i].seq = a /\ b \in w[i].seen
  BY <1>1 DEF Pairs, ToSet
<1>5. \A p \in Pairs(w) : p = <<p[1], p[2]>>
  BY <1>1 DEF Pairs, ToSet
<1> QED BY <1>1, <1>3, <1>4, <1>5

(* Different entries are for different envelopes. *)
LEMMA SameEntry ==
  ASSUME NEW w, WindowOK(w), NEW i \in 1 .. Len(w), NEW j \in 1 .. Len(w),
         w[i].seq = w[j].seq
  PROVE  i = j
<1>1. w[i].seq \in SeqNum /\ Len(w) \in Nat
  BY WindowFacts DEF WindowOK
<1>2. SeqNum \subseteq Int
  BY HalfSpaceAssumption DEF SeqNum, SeqSpace
<1>3. ~ w[i].seq < w[j].seq /\ ~ w[j].seq < w[i].seq
  <2>1. PICK x \in Int : x = w[i].seq /\ x = w[j].seq
    BY <1>1, <1>2
  <2>2. ~ x < x
    OBVIOUS
  <2> QED BY <2>1, <2>2
<1>4. ~ i < j /\ ~ j < i
  BY <1>3 DEF WindowOK
<1> QED BY <1>1, <1>4

(* The operators of a channel, in terms of its window. *)
LEMMA ChannelFacts ==
  ASSUME NEW ch \in Channel
  PROVE  /\ ch.window \in Seq(WindowEntry) /\ ch.last \in SeqNum \cup {NoSeq}
         /\ \A seq : seq \in WindowSeqs(ch) <=>
                       \E i \in 1 .. Len(ch.window) : ch.window[i].seq = seq
         /\ \A seq, idx :
              idx \in Seen(ch, seq) <=> <<seq, idx>> \in Pairs(ch.window)
         /\ TotalSeen(ch) = Cardinality(Pairs(ch.window))
<1>1. ch.window \in Seq(WindowEntry) /\ ch.last \in SeqNum \cup {NoSeq}
  BY DEF Channel, WindowEntry
<1>2. /\ DOMAIN ch.window = 1 .. Len(ch.window)
      /\ \A a, b : <<a, b>> \in Pairs(ch.window) <=>
           \E i \in 1 .. Len(ch.window) :
             ch.window[i].seq = a /\ b \in ch.window[i].seen
  BY <1>1, WindowFacts
<1>3. \A seq : seq \in WindowSeqs(ch) <=>
                 \E i \in 1 .. Len(ch.window) : ch.window[i].seq = seq
  BY <1>2 DEF WindowSeqs
<1>4. \A seq, idx : idx \in Seen(ch, seq) <=> <<seq, idx>> \in Pairs(ch.window)
  <2>1. TAKE seq, idx
  <2>2. idx \in Seen(ch, seq) <=>
          \E i \in DOMAIN ch.window :
            ch.window[i].seq = seq /\ idx \in ch.window[i].seen
    BY DEF Seen
  <2> QED BY <1>2, <2>2
<1>5. TotalSeen(ch) = Cardinality(Pairs(ch.window))
  BY DEF TotalSeen, Pairs
<1> QED BY <1>1, <1>3, <1>4, <1>5

(* A window has as many envelopes as entries. *)
LEMMA WindowCount ==
  ASSUME NEW ch \in Channel, WindowOK(ch.window)
  PROVE  Cardinality(WindowSeqs(ch)) = Len(ch.window)
<1>2. PICK w, n : w = ch.window /\ n = Len(ch.window)
  OBVIOUS
<1>3. ch \in Channel /\ WindowOK(w)
  BY <1>2
<1>4. /\ w \in Seq(WindowEntry) /\ n \in Nat /\ DOMAIN w = 1 .. n
      /\ \A i \in 1 .. n : w[i].seq \in Int
      /\ \A i, j \in 1 .. n : i < j => w[i].seq < w[j].seq
  <2>1. \A i \in 1 .. n : w[i].seq \in SeqNum
    BY <1>2, <1>3, WindowFacts DEF WindowOK
  <2>2. SeqNum \subseteq Int
    BY HalfSpaceAssumption DEF SeqNum, SeqSpace
  <2> QED BY <1>2, <1>3, <2>1, <2>2, WindowFacts DEF WindowOK
<1>5. PICK f : f = [i \in 1 .. n |-> w[i].seq]
  OBVIOUS
<1>6. WindowSeqs(ch) = {w[i].seq : i \in 1 .. n}
  BY <1>2, <1>4 DEF WindowSeqs
<1>7. ASSUME NEW i \in 1 .. n, NEW j \in 1 .. n, f[i] = f[j] PROVE i = j
  <2>1. w[i].seq = w[j].seq /\ w[i].seq \in Int
    BY <1>4, <1>5, <1>7
  <2>2. ~ w[i].seq < w[j].seq /\ ~ w[j].seq < w[i].seq
    BY <2>1
  <2>3. ~ i < j /\ ~ j < i
    BY <1>4, <2>2
  <2> QED BY <1>4, <2>3
<1>8. f \in Bijection(1 .. n, WindowSeqs(ch))
  <2>1. f \in [1 .. n -> WindowSeqs(ch)] /\ DOMAIN f = 1 .. n
    BY <1>5, <1>6
  <2>2. \A x \in WindowSeqs(ch) : \E i \in 1 .. n : f[i] = x
    BY <1>5, <1>6
  <2>3. IsInjective(f)
    BY <1>7, <2>1 DEF IsInjective
  <2> QED BY <2>1, <2>2, <2>3 DEF Bijection, Injection, Surjection
<1>9. Cardinality(WindowSeqs(ch)) = n
  <2>1. ExistsBijection(1 .. n, WindowSeqs(ch))
    BY <1>8 DEF ExistsBijection
  <2> QED BY <1>4, <2>1, FS_CountingElements
<1> QED BY <1>2, <1>9

(* A newcomer at the end of a window: its envelope is new, the others are  *)
(* kept, but for the first of a full window.                               *)
Admitted(w, seq, new) ==
  /\ WindowOK(new) /\ Len(new) # 0 /\ new[Len(new)].seq = seq
  /\ \A i \in 1 .. Len(new) : \/ new[i].seq = seq /\ new[i].seen = {}
                              \/ \E j \in 1 .. Len(w) : new[i] = w[j]
  /\ \A j \in 1 .. Len(w) : \/ \E i \in 1 .. Len(new) : new[i] = w[j]
                            \/ /\ Len(new) = EnvelopeSeqWindow
                               /\ \A i \in 1 .. Len(new) : w[j].seq < new[i].seq
  /\ Len(w) = EnvelopeSeqWindow => Len(new) = EnvelopeSeqWindow
  /\ Pairs(new) \subseteq Pairs(w)

(* chunkSetFor with a new envelope, ahead of all others. *)
LEMMA NewcomerFacts ==
  ASSUME NEW w, WindowOK(w), NEW seq \in SeqNum,
         \A i \in 1 .. Len(w) : w[i].seq < seq,
         NEW new, new = Append(MakeRoom(w), [seq |-> seq, seen |-> {}])
  PROVE  Admitted(w, seq, new)
<1>1. /\ w \in Seq(WindowEntry) /\ Len(w) \in Nat /\ Len(w) <= EnvelopeSeqWindow
      /\ \A i, j \in 1 .. Len(w) : i < j => w[i].seq < w[j].seq
      /\ \A i \in 1 .. Len(w) : w[i].seq \in SeqNum
  BY WindowFacts DEF WindowOK
<1>2. EnvelopeSeqWindow \in Nat /\ EnvelopeSeqWindow # 0
  BY EnvelopeAssumption
<1>3. PICK kept : kept = MakeRoom(w)
  OBVIOUS
<1>4. \E d \in {0, 1} :
        /\ kept \in Seq(WindowEntry) /\ Len(kept) = Len(w) - d /\ d <= Len(w)
        /\ Len(kept) < EnvelopeSeqWindow
        /\ d = 1 <=> Len(w) = EnvelopeSeqWindow
        /\ \A j \in 1 .. Len(kept) : kept[j] = w[j + d]
  <2>1. CASE Len(w) >= EnvelopeSeqWindow
    <3>1. Len(w) # 0 /\ Len(w) = EnvelopeSeqWindow
      BY <1>1, <1>2, <2>1
    <3>2. w # << >>
      BY <3>1, EmptySeq
    <3>3. kept = Tail(w)
      BY <1>3, <2>1 DEF MakeRoom
    <3>4. /\ kept \in Seq(WindowEntry) /\ Len(kept) = Len(w) - 1
          /\ \A j \in 1 .. Len(kept) : kept[j] = w[j + 1]
      BY <1>1, <3>2, <3>3, HeadTailProperties
    <3>5. Len(kept) < EnvelopeSeqWindow /\ 1 <= Len(w)
      BY <1>1, <1>2, <3>1, <3>4
    <3> QED BY <3>1, <3>4, <3>5
  <2>2. CASE ~ Len(w) >= EnvelopeSeqWindow
    <3>1. kept = w /\ Len(w) < EnvelopeSeqWindow
      BY <1>1, <1>2, <1>3, <2>2 DEF MakeRoom
    <3>2. /\ Len(w) = Len(w) - 0 /\ 0 <= Len(w)
          /\ \A j \in 1 .. Len(w) : w[j] = w[j + 0]
          /\ 0 # 1
      BY <1>1
    <3>3. Len(w) # EnvelopeSeqWindow
      BY <1>1, <1>2, <2>2
    <3> QED BY <1>1, <3>1, <3>2, <3>3
  <2> QED BY <2>1, <2>2
<1>5. PICK d \in {0, 1} :
        /\ kept \in Seq(WindowEntry) /\ Len(kept) = Len(w) - d /\ d <= Len(w)
        /\ Len(kept) < EnvelopeSeqWindow
        /\ d = 1 <=> Len(w) = EnvelopeSeqWindow
        /\ \A j \in 1 .. Len(kept) : kept[j] = w[j + d]
  BY <1>4
<1>6. PICK m \in Nat : m = Len(kept)
  BY <1>5, LenProperties
<1>7. PICK e : e = [seq |-> seq, seen |-> {}]
  OBVIOUS
<1>8. e \in WindowEntry /\ e.seq = seq /\ e.seen = {}
  BY <1>7 DEF WindowEntry
<1>9. PICK w2 : w2 = Append(kept, e)
  OBVIOUS
<1>10. /\ w2 \in Seq(WindowEntry) /\ Len(w2) = m + 1 /\ w2[m + 1] = e
       /\ \A j \in 1 .. m : w2[j] = kept[j]
  BY <1>5, <1>6, <1>8, <1>9, AppendProperties
<1>11. \A j \in 1 .. m : w2[j] = w[j + d] /\ j + d \in 1 .. Len(w)
  BY <1>1, <1>5, <1>6, <1>10
<1>12. \A i \in 1 .. m + 1 : i = m + 1 \/ i \in 1 .. m
  BY <1>6
<1>13. ASSUME NEW i \in 1 .. m + 1, NEW j \in 1 .. m + 1, i < j
       PROVE  w2[i].seq < w2[j].seq
  <2>1. i \in 1 .. m
    BY <1>6, <1>13
  <2>2. CASE j = m + 1
    BY <1>8, <1>10, <1>11, <2>1, <2>2
  <2>3. CASE j \in 1 .. m
    <3>1. i + d < j + d
      BY <1>13
    <3> QED BY <1>1, <1>11, <2>1, <2>3, <3>1
  <2> QED BY <1>12, <2>2, <2>3
<1>14. Len(w2) <= EnvelopeSeqWindow /\ Len(w2) # 0
  <2>1. m < EnvelopeSeqWindow /\ Len(w2) = m + 1
    BY <1>5, <1>6, <1>10
  <2> QED BY <1>2, <1>6, <2>1
<1>15. Pairs(w2) \subseteq Pairs(w)
  <2>1. ASSUME NEW p \in Pairs(w2) PROVE p \in Pairs(w)
    <3>1. p = <<p[1], p[2]>>
      BY <1>10, WindowFacts
    <3>2. PICK i \in 1 .. m + 1 : w2[i].seq = p[1] /\ p[2] \in w2[i].seen
      BY <1>10, <3>1, WindowFacts
    <3>3. i \in 1 .. m
      BY <1>8, <1>10, <1>12, <3>2
    <3>4. w[i + d].seq = p[1] /\ p[2] \in w[i + d].seen /\ i + d \in 1 .. Len(w)
      BY <1>11, <3>2, <3>3
    <3> QED BY <1>1, <3>1, <3>4, WindowFacts
  <2> QED BY <2>1
<1>16. IsFiniteSet(Pairs(w2)) /\ Cardinality(Pairs(w2)) <= MaxChunkIndices
  <2>1. /\ IsFiniteSet(Pairs(w)) /\ Cardinality(Pairs(w)) <= MaxChunkIndices
        /\ Cardinality(Pairs(w)) \in Nat
    BY FS_CardinalityType DEF WindowOK
  <2>2. /\ IsFiniteSet(Pairs(w2)) /\ Cardinality(Pairs(w2)) \in Nat
        /\ Cardinality(Pairs(w2)) <= Cardinality(Pairs(w))
    BY <1>15, <2>1, FS_Subset, FS_CardinalityType
  <2> QED BY <2>1, <2>2, EnvelopeAssumption
<1>17. WindowOK(w2)
  BY <1>10, <1>13, <1>14, <1>16 DEF WindowOK
<1>18. w2[Len(w2)].seq = seq
  BY <1>8, <1>10
<1>19. \A i \in 1 .. Len(w2) :     \/ (w2[i].seq = seq /\ w2[i].seen = {})
                                \/ \E j \in 1 .. Len(w) : w2[i] = w[j]
  BY <1>8, <1>10, <1>11, <1>12
<1>20. Len(w) = EnvelopeSeqWindow => Len(w2) = EnvelopeSeqWindow
  BY <1>1, <1>5, <1>6, <1>10
<1>21. ASSUME NEW j \in 1 .. Len(w), ~ \E i \in 1 .. Len(w2) : w2[i] = w[j]
       PROVE  /\ Len(w2) = EnvelopeSeqWindow
              /\ \A i \in 1 .. Len(w2) : w[j].seq < w2[i].seq
  <2>1. ASSUME j - d \in 1 .. m PROVE FALSE
    <3>1. w2[j - d] = w[(j - d) + d] /\ (j - d) + d = j /\ j - d \in 1 .. m + 1
      BY <1>6, <1>11, <2>1
    <3> QED BY <1>10, <1>21, <3>1
  <2>2. d = 1 /\ j = 1
    BY <1>1, <1>5, <1>6, <2>1
  <2>3. Len(w2) = EnvelopeSeqWindow
    BY <1>5, <1>20, <2>2
  <2>4. ASSUME NEW i \in 1 .. m + 1 PROVE w[1].seq < w2[i].seq
    <3>1. 1 \in 1 .. Len(w)
      BY <2>2
    <3>2. CASE i = m + 1
      BY <1>8, <1>10, <3>1, <3>2
    <3>3. CASE i \in 1 .. m
      <4>1. w2[i] = w[i + 1] /\ i + 1 \in 1 .. Len(w) /\ 1 < i + 1
        BY <1>11, <2>2, <3>3
      <4> QED BY <1>1, <3>1, <4>1
    <3> QED BY <1>12, <3>2, <3>3
  <2> QED BY <1>10, <2>2, <2>3, <2>4
<1>22. w2 = new
  BY <1>3, <1>7, <1>9
<1> QED BY <1>22, <1>14, <1>15, <1>17, <1>18, <1>19, <1>20, <1>21 DEF Admitted

(* isStaleOrDuplicateChunk, for a chunk that is not stale: either its      *)
(* envelope is in the window, or it comes after all of them.               *)
LEMMA MoveCases ==
  ASSUME NEW ch, ChannelOK(ch), NEW seq \in Envelopes, ~ IsStale(ch, seq)
  PROVE  \/ /\ MoveTo(ch, seq) = ch
            /\ ch.last # NoSeq /\ seq <= ch.last /\ seq \in WindowSeqs(ch)
         \/ /\ MoveTo(ch, seq) =
                 [last |-> seq,
                  window |-> Append(MakeRoom(ch.window), [seq |-> seq, seen |-> {}])]
            /\ \A i \in 1 .. Len(ch.window) : ch.window[i].seq < seq
            /\ ch.last # NoSeq => ch.last < seq
<1>1. /\ MaxEnvelopes \in Nat /\ MaxEnvelopes < HalfSpace /\ HalfSpace \in Nat
      /\ Envelopes \subseteq SeqNum /\ NoSeq \notin SeqNum
  BY MetadataAssumption, HalfSpaceAssumption
  DEF Envelopes, SeqNum, SeqSpace, NoSeq
<1>2. PICK m : m = MoveTo(ch, seq)
  OBVIOUS
<1>3. /\ ch \in Channel /\ WindowOK(ch.window)
      /\ ch.window \in Seq(WindowEntry) /\ ch.last \in SeqNum \cup {NoSeq}
      /\ ch = [last |-> ch.last, window |-> ch.window]
  BY ChannelFacts DEF ChannelOK, Channel
<1>4. PICK w, n : w = ch.window /\ n = Len(ch.window)
  OBVIOUS
<1>5. /\ n \in Nat /\ DOMAIN w = 1 .. n
      /\ \A i, j \in 1 .. n : i < j => w[i].seq < w[j].seq
      /\ \A i \in 1 .. n : w[i].seq \in Int
  <2>1. \A i \in 1 .. n : w[i].seq \in SeqNum
    BY <1>3, <1>4, WindowFacts
  <2>2. SeqNum \subseteq Int
    BY HalfSpaceAssumption DEF SeqNum, SeqSpace
  <2> QED BY <1>3, <1>4, <2>1, <2>2, WindowFacts DEF WindowOK
<1>6. ASSUME \A i \in 1 .. n : w[i].seq < seq,
             m = ChunkSetFor([last |-> seq, window |-> w], seq)
      PROVE  m = [last |-> seq,
                  window |-> Append(MakeRoom(w), [seq |-> seq, seen |-> {}])]
  <2>1. \A i \in 1 .. n : w[i].seq # seq
    BY <1>1, <1>5, <1>6 DEF Envelopes
  <2>2. seq \notin WindowSeqs([last |-> seq, window |-> w])
    BY <1>5, <2>1 DEF WindowSeqs
  <2> QED BY <1>6, <2>2 DEF ChunkSetFor
<1>7. CASE ch.last = NoSeq
  <2>1. w = << >>
    BY <1>4, <1>7 DEF ChannelOK
  <2>2. m = ChunkSetFor([last |-> seq, window |-> w], seq)
    BY <1>2, <1>7, <2>1 DEF MoveTo
  <2>3. \A i \in 1 .. n : w[i].seq < seq
    BY <1>4, <2>1
  <2> QED BY <1>2, <1>4, <1>6, <1>7, <2>2, <2>3
<1>8. CASE ch.last # NoSeq
  <2>1. ch.last \in Envelopes /\ n # 0 /\ w[n].seq = ch.last
    BY <1>4, <1>8 DEF ChannelOK
  <2>2. ch.last \in Int /\ seq \in Int /\ n \in 1 .. n
    BY <1>1, <1>5, <2>1 DEF Envelopes
  <2>3. \A i \in 1 .. n : w[i].seq <= ch.last
    <3>1. TAKE i \in 1 .. n
    <3>2. i = n \/ i < n
      BY <1>5
    <3> QED BY <1>5, <2>1, <2>2, <3>2
  <2>4. CASE ch.last < seq
    <3>1. IsAhead(seq, ch.last)
      BY <1>1, <2>1, <2>4 DEF IsAhead, Dist, Envelopes
    <3>2. m = ChunkSetFor([last |-> seq, window |-> w], seq)
      BY <1>2, <1>3, <1>4, <1>8, <3>1 DEF MoveTo, Advance
    <3>3. \A i \in 1 .. n : w[i].seq < seq
      BY <1>5, <2>2, <2>3, <2>4
    <3> QED BY <1>2, <1>4, <1>6, <2>4, <3>2, <3>3
  <2>5. CASE seq <= ch.last
    <3>1. ~ IsAhead(seq, ch.last)
      BY <1>1, <2>1, <2>5 DEF IsAhead, Dist, Envelopes, SeqSpace
    <3>2. seq \in WindowSeqs(ch)
      <4>1. CASE seq = ch.last
        BY <1>3, <1>4, <2>1, <2>2, <4>1, ChannelFacts
      <4>2. CASE seq # ch.last
        <5>1. Dist(ch.last, seq) >= HalfSpace
          BY <1>1, <2>1, <2>5, <4>2 DEF Dist, Envelopes, SeqSpace
        <5> QED BY <1>8, <5>1 DEF IsStale
      <4> QED BY <4>1, <4>2
    <3>3. m = ch
      BY <1>2, <1>8, <3>1, <3>2 DEF MoveTo, ChunkSetFor
    <3> QED BY <1>2, <1>8, <2>5, <3>2, <3>3
  <2>6. ch.last < seq \/ seq <= ch.last
    BY <2>2
  <2> QED BY <2>4, <2>5, <2>6
<1> QED BY <1>7, <1>8

(* ... then its envelope has a place in the window, and nothing applied is *)
(* forgotten.                                                              *)
LEMMA MoveFacts ==
  ASSUME NEW ch, ChannelOK(ch), NEW applied, AppliedOK(ch, applied),
         NEW seq \in Envelopes, ~ IsStale(ch, seq)
  PROVE  /\ ChannelOK(MoveTo(ch, seq)) /\ AppliedOK(MoveTo(ch, seq), applied)
         /\ MoveTo(ch, seq).last # NoSeq /\ seq <= MoveTo(ch, seq).last
         /\ seq \in WindowSeqs(MoveTo(ch, seq))
<1>1. /\ Envelopes \subseteq SeqNum /\ NoSeq \notin SeqNum /\ Envelopes \subseteq Int
  BY MetadataAssumption, HalfSpaceAssumption
  DEF Envelopes, SeqNum, SeqSpace, NoSeq
<1>2. PICK m : m = MoveTo(ch, seq)
  OBVIOUS
<1>3. ch \in Channel /\ WindowOK(ch.window)
  BY DEF ChannelOK
<1>4. CASE m = ch /\ ch.last # NoSeq /\ seq <= ch.last /\ seq \in WindowSeqs(ch)
  BY <1>2, <1>4
<1>5. PICK w, w2 : w = ch.window /\ w2 = Append(MakeRoom(w), [seq |-> seq, seen |-> {}])
  OBVIOUS
<1>6. CASE /\ m = [last |-> seq, window |-> w2]
           /\ \A i \in 1 .. Len(w) : w[i].seq < seq
           /\ ch.last # NoSeq => ch.last < seq
  <2>1. m.last = seq /\ m.window = w2
    BY <1>6
  <2>2. /\ WindowOK(w2) /\ Len(w2) # 0 /\ w2[Len(w2)].seq = seq
        /\ \A i \in 1 .. Len(w2) : \/ w2[i].seq = seq
                                   \/ \E j \in 1 .. Len(w) : w2[i] = w[j]
    <3>1. WindowOK(w) /\ seq \in SeqNum
      BY <1>1, <1>3, <1>5
    <3>2. \A i \in 1 .. Len(w) : w[i].seq < seq
      BY <1>6
    <3>3. w2 = Append(MakeRoom(w), [seq |-> seq, seen |-> {}])
      BY <1>5
    <3>4. Admitted(w, seq, w2)
      BY <3>1, <3>2, <3>3, NewcomerFacts
    <3> QED BY <3>4 DEF Admitted
  <2>3. w2 \in Seq(WindowEntry) /\ Len(w2) \in Nat
    BY <2>2, WindowFacts DEF WindowOK
  <2>4. m \in Channel
    BY <1>1, <1>6, <2>3 DEF Channel, WindowEntry
  <2>5. ChannelOK(m)
    BY <1>1, <2>1, <2>2, <2>4 DEF ChannelOK
  <2>6. seq \in WindowSeqs(m)
    <3>1. Len(w2) \in 1 .. Len(w2)
      BY <2>2, <2>3
    <3> QED BY <2>1, <2>2, <2>4, <3>1, ChannelFacts
  <2>7. ASSUME NEW c \in applied PROVE c.seq \in Envelopes /\ c.seq < seq
    <3>1. c.seq \in Envelopes /\ ch.last # NoSeq /\ c.seq <= ch.last
      BY DEF AppliedOK, StillKnown
    <3>2. ch.last \in Envelopes
      BY <3>1 DEF ChannelOK
    <3>3. c.seq < seq
      BY <1>1, <1>6, <3>1, <3>2
    <3> QED BY <3>1, <3>3
  <2>8. ASSUME NEW c \in applied, c.seq \in WindowSeqs(m)
        PROVE  c.idx \in Seen(m, c.seq)
    <3>1. PICK i \in 1 .. Len(w2) : w2[i].seq = c.seq
      BY <2>1, <2>4, <2>8, ChannelFacts
    <3>2. c.seq # seq
      BY <1>1, <2>7
    <3>3. PICK j \in 1 .. Len(w) : w2[i] = w[j]
      BY <2>2, <3>1, <3>2
    <3>4. c.seq \in WindowSeqs(ch)
      BY <1>3, <1>5, <3>1, <3>3, ChannelFacts
    <3>5. <<c.seq, c.idx>> \in Pairs(w)
      BY <1>3, <1>5, <3>4, ChannelFacts DEF AppliedOK, StillKnown
    <3>6. PICK k \in 1 .. Len(w) : w[k].seq = c.seq /\ c.idx \in w[k].seen
      <4>1. w \in Seq(WindowEntry)
        BY <1>3, <1>5 DEF WindowOK
      <4> QED BY <3>5, <4>1, WindowFacts
    <3>7. j = k
      BY <1>3, <1>5, <3>1, <3>3, <3>6, SameEntry
    <3>8. <<c.seq, c.idx>> \in Pairs(w2)
      BY <2>3, <3>1, <3>3, <3>6, <3>7, WindowFacts
    <3> QED BY <2>1, <2>4, <3>8, ChannelFacts
  <2>9. AppliedOK(m, applied)
    <3>1. ASSUME NEW c \in applied PROVE c.seq \in Envelopes /\ c.seq <= seq
      <4>1. c.seq \in Envelopes /\ c.seq < seq
        BY <2>7
      <4>2. c.seq \in Int /\ seq \in Int
        BY <1>1, <4>1
      <4>3. c.seq <= seq
        BY <4>1, <4>2
      <4> QED BY <4>1, <4>3
    <3> QED BY <1>1, <2>1, <2>8, <3>1 DEF AppliedOK, StillKnown
  <2>10. seq # NoSeq /\ seq <= seq
    BY <1>1
  <2> QED BY <1>2, <2>1, <2>5, <2>6, <2>9, <2>10
<1> QED BY <1>2, <1>4, <1>5, <1>6, MoveCases

(* A window after the index of a chunk was added to its envelope. *)
Marked(w, c, new) ==
  /\ new \in Seq(WindowEntry) /\ Len(new) = Len(w)
  /\ \A i \in 1 .. Len(w) :
       /\ new[i].seq = w[i].seq
       /\ new[i].seen = IF w[i].seq = c.seq THEN w[i].seen \cup {c.idx}
                        ELSE w[i].seen

(* Remember marks the window and leaves the last envelope number. *)
LEMMA RememberEntries ==
  ASSUME NEW ch, ChannelOK(ch), NEW c, c.idx \in Nat
  PROVE  /\ Marked(ch.window, c, Remember(ch, c.seq, c.idx).window)
         /\ Remember(ch, c.seq, c.idx) =
              [last |-> ch.last, window |-> Remember(ch, c.seq, c.idx).window]
<1>1. /\ ch \in Channel /\ WindowOK(ch.window)
      /\ ch.window \in Seq(WindowEntry) /\ ch.last \in SeqNum \cup {NoSeq}
      /\ ch = [last |-> ch.last, window |-> ch.window]
  BY ChannelFacts DEF ChannelOK, Channel
<1>2. PICK w, n : w = ch.window /\ n = Len(ch.window)
  OBVIOUS
<1>3. /\ w \in Seq(WindowEntry) /\ n \in Nat /\ DOMAIN w = 1 .. n
      /\ \A i \in 1 .. n : w[i] \in WindowEntry
  BY <1>1, <1>2, WindowFacts, ElementOfSeq
<1>4. PICK w2 : w2 = [i \in DOMAIN ch.window |->
                        IF ch.window[i].seq = c.seq
                        THEN [ch.window[i] EXCEPT !.seen = @ \cup {c.idx}]
                        ELSE ch.window[i]]
  OBVIOUS
<1>5. PICK m : m = Remember(ch, c.seq, c.idx)
  OBVIOUS
<1>6. m.last = ch.last /\ m.window = w2 /\ m = [last |-> ch.last, window |-> w2]
  <2>1. m = [ch EXCEPT !.window = w2]
    BY <1>4, <1>5 DEF Remember
  <2> QED BY <1>1, <2>1
<1>7. \A i \in 1 .. n :
        /\ w2[i] \in WindowEntry /\ w2[i].seq = w[i].seq
        /\ w2[i].seen = IF w[i].seq = c.seq THEN w[i].seen \cup {c.idx}
                        ELSE w[i].seen
  <2>1. TAKE i \in 1 .. n
  <2>2. PICK e \in WindowEntry : e = w[i]
    BY <1>3
  <2>3. e = [seq |-> e.seq, seen |-> e.seen] /\ e.seq \in SeqNum /\ e.seen \subseteq Nat
    BY DEF WindowEntry
  <2>4. w2[i] = IF e.seq = c.seq THEN [e EXCEPT !.seen = @ \cup {c.idx}] ELSE e
    BY <1>2, <1>3, <1>4, <2>2
  <2>5. CASE e.seq = c.seq
    <3>1. w2[i] = [seq |-> e.seq, seen |-> e.seen \cup {c.idx}]
      BY <2>3, <2>4, <2>5
    <3> QED BY <2>2, <2>3, <2>5, <3>1 DEF WindowEntry
  <2>6. CASE e.seq # c.seq
    BY <2>2, <2>3, <2>4, <2>6 DEF WindowEntry
  <2> QED BY <2>5, <2>6
<1>8. w2 \in Seq(WindowEntry) /\ Len(w2) = n
  <2>1. DOMAIN w2 = 1 .. n
    BY <1>2, <1>3, <1>4
  <2>2. w2 = [i \in 1 .. n |-> w2[i]]
    BY <1>2, <1>3, <1>4
  <2>3. w2 \in Seq(WindowEntry)
    <3>1. w2 \in [1 .. n -> WindowEntry]
      BY <1>7, <2>2
    <3> QED BY <1>3, <3>1, SeqDef
  <2> QED BY <1>3, <2>1, <2>3
<1>9. Marked(w, c, w2)
  BY <1>2, <1>7, <1>8 DEF Marked
<1> QED BY <1>2, <1>5, <1>6, <1>9

(* Remembering an index that was not there. *)
LEMMA RememberFacts ==
  ASSUME NEW ch, ChannelOK(ch), NEW applied, AppliedOK(ch, applied),
         NEW c, c.seq \in Envelopes, c.idx \in Nat,
         ch.last # NoSeq, c.seq <= ch.last, c.seq \in WindowSeqs(ch),
         c.idx \notin Seen(ch, c.seq), ~ TotalSeen(ch) >= MaxChunkIndices
  PROVE  /\ ChannelOK(Remember(ch, c.seq, c.idx))
         /\ AppliedOK(Remember(ch, c.seq, c.idx), applied \cup {c})
         /\ c \notin applied
<1>1. /\ ch \in Channel /\ WindowOK(ch.window)
      /\ ch.window \in Seq(WindowEntry) /\ ch.last \in SeqNum \cup {NoSeq}
  BY ChannelFacts DEF ChannelOK
<1>2. PICK w, n : w = ch.window /\ n = Len(ch.window)
  OBVIOUS
<1>3. w \in Seq(WindowEntry) /\ n \in Nat /\ DOMAIN w = 1 .. n
  BY <1>1, <1>2, WindowFacts
<1>5. PICK m, w2 : m = Remember(ch, c.seq, c.idx) /\ w2 = m.window
  OBVIOUS
<1>6. m.last = ch.last /\ m.window = w2 /\ m = [last |-> ch.last, window |-> w2]
  BY <1>5, RememberEntries
<1>4. Marked(w, c, w2)
  BY <1>2, <1>5, RememberEntries
<1>7. \A i \in 1 .. n :
        /\ w2[i].seq = w[i].seq
        /\ w2[i].seen = IF w[i].seq = c.seq THEN w[i].seen \cup {c.idx}
                        ELSE w[i].seen
  BY <1>2, <1>4 DEF Marked
<1>8. w2 \in Seq(WindowEntry) /\ Len(w2) = n
  BY <1>2, <1>4 DEF Marked
<1>9. m \in Channel
  BY <1>1, <1>6, <1>8 DEF Channel, WindowEntry
<1>10. WindowSeqs(m) = WindowSeqs(ch)
  <2>1. \A s : s \in WindowSeqs(m) <=> \E i \in 1 .. n : w2[i].seq = s
    BY <1>6, <1>8, <1>9, ChannelFacts
  <2>2. \A s : s \in WindowSeqs(ch) <=> \E i \in 1 .. n : w[i].seq = s
    BY <1>1, <1>2, ChannelFacts
  <2>3. \A i \in 1 .. n : w2[i].seq = w[i].seq
    BY <1>7
  <2>4. \A s : s \in WindowSeqs(m) <=> s \in WindowSeqs(ch)
    BY <2>1, <2>2, <2>3
  <2> QED BY <2>4
<1>11. PICK k \in 1 .. n : w[k].seq = c.seq
  BY <1>1, <1>2, ChannelFacts
<1>12. Pairs(w2) = Pairs(w) \cup {<<c.seq, c.idx>>}
  <2>1. ASSUME NEW p \in Pairs(w2)
        PROVE  p \in Pairs(w) \cup {<<c.seq, c.idx>>}
    <3>1. p = <<p[1], p[2]>>
      BY <1>8, WindowFacts
    <3>2. PICK i \in 1 .. n : w2[i].seq = p[1] /\ p[2] \in w2[i].seen
      BY <1>8, <3>1, WindowFacts
    <3>3. CASE p[2] \in w[i].seen
      <4>1. w[i].seq = p[1]
        BY <1>7, <3>2
      <4>2. <<p[1], p[2]>> \in Pairs(w)
        BY <1>1, <1>2, <3>3, <4>1, WindowFacts
      <4> QED BY <3>1, <4>2
    <3>4. CASE p[2] \notin w[i].seen
      BY <1>7, <3>1, <3>2, <3>4
    <3> QED BY <3>3, <3>4
  <2>2. ASSUME NEW p \in Pairs(w) PROVE p \in Pairs(w2)
    <3>1. p = <<p[1], p[2]>>
      BY <1>3, WindowFacts
    <3>2. PICK i \in 1 .. n : w[i].seq = p[1] /\ p[2] \in w[i].seen
      <4>1. <<p[1], p[2]>> \in Pairs(w) /\ n = Len(w)
        BY <1>2, <3>1
      <4> QED BY <1>3, <4>1, WindowFacts
    <3>3. w2[i].seq = p[1] /\ p[2] \in w2[i].seen
      BY <1>7, <3>2
    <3>4. <<p[1], p[2]>> \in Pairs(w2)
      BY <1>8, <3>3, WindowFacts
    <3> QED BY <3>1, <3>4
  <2>3. <<c.seq, c.idx>> \in Pairs(w2)
    <3>1. w2[k].seq = c.seq /\ c.idx \in w2[k].seen
      BY <1>7, <1>11
    <3> QED BY <1>8, <3>1, WindowFacts
  <2> QED BY <2>1, <2>2, <2>3
<1>13. WindowOK(w2)
  <2>1. \A i, j \in 1 .. n : i < j => w2[i].seq < w2[j].seq
    BY <1>1, <1>2, <1>7 DEF WindowOK
  <2>2. n <= EnvelopeSeqWindow
    BY <1>1, <1>2 DEF WindowOK
  <2>3. /\ IsFiniteSet(Pairs(w)) /\ Cardinality(Pairs(w)) \in Nat
        /\ ~ Cardinality(Pairs(w)) >= MaxChunkIndices
    <3>1. IsFiniteSet(Pairs(w)) /\ TotalSeen(ch) = Cardinality(Pairs(w))
      BY <1>1, <1>2, ChannelFacts DEF WindowOK
    <3> QED BY <3>1, FS_CardinalityType
  <2>4. /\ IsFiniteSet(Pairs(w2))
        /\ \/ Cardinality(Pairs(w2)) = Cardinality(Pairs(w))
           \/ Cardinality(Pairs(w2)) = Cardinality(Pairs(w)) + 1
    <3>1. PICK P, x : P = Pairs(w) /\ x = <<c.seq, c.idx>>
      OBVIOUS
    <3>2. /\ IsFiniteSet(P \cup {x})
          /\ Cardinality(P \cup {x}) = IF x \in P THEN Cardinality(P)
                                       ELSE Cardinality(P) + 1
      BY <2>3, <3>1, FS_AddElement
    <3>3. Pairs(w2) = P \cup {x}
      BY <1>12, <3>1
    <3> QED BY <3>1, <3>2, <3>3
  <2>5. MaxChunkIndices \in Nat
    BY EnvelopeAssumption
  <2>6. Cardinality(Pairs(w2)) <= MaxChunkIndices
    BY <2>3, <2>4, <2>5
  <2> QED BY <1>8, <2>1, <2>2, <2>4, <2>6 DEF WindowOK
<1>14. ChannelOK(m)
  <2>1. /\ ch.last \in Envelopes /\ n # 0 /\ w[n].seq = ch.last
    BY <1>2 DEF ChannelOK
  <2>2. n \in 1 .. n
    BY <1>3, <2>1
  <2> QED BY <1>6, <1>7, <1>8, <1>9, <1>13, <2>1, <2>2 DEF ChannelOK
<1>15. ASSUME NEW d \in applied \cup {c}, d.seq \in WindowSeqs(m)
       PROVE  d.idx \in Seen(m, d.seq)
  <2>1. CASE d = c
    BY <1>6, <1>9, <1>12, <2>1, ChannelFacts
  <2>2. CASE d \in applied
    <3>1. d.idx \in Seen(ch, d.seq)
      BY <1>10, <1>15, <2>2 DEF AppliedOK, StillKnown
    <3> QED BY <1>1, <1>2, <1>6, <1>9, <1>12, <3>1, ChannelFacts
  <2> QED BY <2>1, <2>2
<1>16. AppliedOK(m, applied \cup {c})
  BY <1>6, <1>15 DEF AppliedOK, StillKnown
<1>17. c \notin applied
  BY DEF AppliedOK, StillKnown
<1> QED BY <1>5, <1>14, <1>16, <1>17

(* What is in the window was applied, and what was applied is in the       *)
(* window or older than all of a full one.  Until as many chunks were      *)
(* applied as the cap allows, no envelope but one that is just being let   *)
(* in is there with no chunk.                                              *)
Kept(w, applied, entering) ==
  /\ IsFiniteSet(applied) /\ \A d \in applied : d.seq \in Envelopes
  /\ \A i \in 1 .. Len(w) : \A idx \in w[i].seen :
       \E d \in applied : d.seq = w[i].seq /\ d.idx = idx
  /\ Cardinality(applied) < MaxChunkIndices =>
       \A i \in 1 .. Len(w) : w[i].seen # {} \/ w[i].seq \in entering
  /\ \A d \in applied :
       \/ \E i \in 1 .. Len(w) : w[i].seq = d.seq
       \/ /\ Len(w) = EnvelopeSeqWindow
          /\ \A i \in 1 .. Len(w) : d.seq < w[i].seq

(* A channel on which nothing has come. *)
LEMMA NewChannelFacts ==
  /\ ChannelOK(NewChannel) /\ AppliedOK(NewChannel, {})
  /\ Kept(NewChannel.window, {}, {})
<1>1. << >> \in Seq(WindowEntry) /\ Len(<< >>) = 0 /\ ToSet(<< >>) = {}
  BY DEF ToSet
<1>2. Pairs(<< >>) = {}
  BY <1>1 DEF Pairs
<1>3. IsFiniteSet({}) /\ Cardinality({}) = 0
  BY FS_EmptySet
<1>4. WindowOK(<< >>)
  <2>1. 0 <= EnvelopeSeqWindow /\ 0 <= MaxChunkIndices
    BY EnvelopeAssumption
  <2>2. \A i, j \in 1 .. Len(<< >>) : i < j => << >>[i].seq < << >>[j].seq
    BY <1>1
  <2> QED BY <1>1, <1>2, <1>3, <2>1, <2>2 DEF WindowOK
<1>5. NewChannel \in Channel
  BY <1>1 DEF NewChannel, Channel, WindowEntry
<1>6. ChannelOK(NewChannel)
  BY <1>4, <1>5 DEF NewChannel, ChannelOK
<1>7. Kept(NewChannel.window, {}, {})
  BY <1>1, <1>3 DEF NewChannel, Kept
<1> QED BY <1>6, <1>7 DEF AppliedOK

(* An envelope let in: what was known of the others stays. *)
LEMMA MoveKeeps ==
  ASSUME NEW ch, ChannelOK(ch), NEW seq \in Envelopes, ~ IsStale(ch, seq),
         NEW applied, Kept(ch.window, applied, {})
  PROVE  Kept(MoveTo(ch, seq).window, applied, {seq})
<1>1. PICK w, m : w = ch.window /\ m = MoveTo(ch, seq)
  OBVIOUS
<1>2. /\ IsFiniteSet(applied) /\ \A d \in applied : d.seq \in Envelopes
      /\ \A i \in 1 .. Len(w) : \A idx \in w[i].seen :
           \E d \in applied : d.seq = w[i].seq /\ d.idx = idx
      /\ Cardinality(applied) < MaxChunkIndices =>
           \A i \in 1 .. Len(w) : w[i].seen # {}
      /\ \A d \in applied :
           \/ \E i \in 1 .. Len(w) : w[i].seq = d.seq
           \/ /\ Len(w) = EnvelopeSeqWindow
              /\ \A i \in 1 .. Len(w) : d.seq < w[i].seq
  BY <1>1 DEF Kept
<1>3. CASE m = ch
  BY <1>1, <1>2, <1>3 DEF Kept
<1>4. ASSUME NEW w2, Admitted(w, seq, w2), m.window = w2,
             \A i \in 1 .. Len(w) : w[i].seq < seq
      PROVE  Kept(m.window, applied, {seq})
  <2>1. /\ \A i \in 1 .. Len(w2) : \/ w2[i].seq = seq /\ w2[i].seen = {}
                                   \/ \E j \in 1 .. Len(w) : w2[i] = w[j]
        /\ \A j \in 1 .. Len(w) : \/ \E i \in 1 .. Len(w2) : w2[i] = w[j]
                                  \/ /\ Len(w2) = EnvelopeSeqWindow
                                     /\ \A i \in 1 .. Len(w2) : w[j].seq < w2[i].seq
        /\ Len(w) = EnvelopeSeqWindow => Len(w2) = EnvelopeSeqWindow
    BY <1>4 DEF Admitted
  <2>2. \A i \in 1 .. Len(w2) : \A idx \in w2[i].seen :
          \E d \in applied : d.seq = w2[i].seq /\ d.idx = idx
    <3> SUFFICES ASSUME NEW i \in 1 .. Len(w2), NEW idx \in w2[i].seen
                 PROVE  \E d \in applied : d.seq = w2[i].seq /\ d.idx = idx
      OBVIOUS
    <3>1. PICK j \in 1 .. Len(w) : w2[i] = w[j]
      BY <2>1
    <3> QED BY <1>2, <3>1
  <2>3. Cardinality(applied) < MaxChunkIndices =>
          \A i \in 1 .. Len(w2) : w2[i].seen # {} \/ w2[i].seq = seq
    BY <1>2, <2>1
  <2>4. ASSUME NEW d \in applied, ~ \E i \in 1 .. Len(w2) : w2[i].seq = d.seq
        PROVE  /\ Len(w2) = EnvelopeSeqWindow
               /\ \A i \in 1 .. Len(w2) : d.seq < w2[i].seq
    <3>1. CASE \E j \in 1 .. Len(w) : w[j].seq = d.seq
      <4>1. PICK j \in 1 .. Len(w) : w[j].seq = d.seq
        BY <3>1
      <4>2. ~ \E i \in 1 .. Len(w2) : w2[i] = w[j]
        BY <2>4, <4>1
      <4>3. /\ Len(w2) = EnvelopeSeqWindow
            /\ \A i \in 1 .. Len(w2) : w[j].seq < w2[i].seq
        BY <2>1, <4>2
      <4> QED BY <4>1, <4>3
    <3>2. CASE ~ \E j \in 1 .. Len(w) : w[j].seq = d.seq
      <4>1. /\ Len(w) = EnvelopeSeqWindow
            /\ \A i \in 1 .. Len(w) : d.seq < w[i].seq
        BY <1>2, <3>2
      <4>2. Len(w2) = EnvelopeSeqWindow
        BY <2>1, <4>1
      <4>3. ASSUME NEW i \in 1 .. Len(w2) PROVE d.seq < w2[i].seq
        <5>1. CASE \E j \in 1 .. Len(w) : w2[i] = w[j]
          BY <4>1, <5>1
        <5>2. CASE w2[i].seq = seq
          <6>1. 1 \in 1 .. Len(w)
            BY <4>1, EnvelopeAssumption
          <6>2. d.seq < w[1].seq /\ w[1].seq < seq
            BY <1>4, <4>1, <6>1
          <6>3. w[1].seq \in SeqNum
            BY <1>1, <6>1, WindowFacts DEF ChannelOK, WindowOK
          <6>4. d.seq \in Int /\ seq \in Int /\ w[1].seq \in Int
            BY <1>2, <6>3, HalfSpaceAssumption, MetadataAssumption
            DEF SeqNum, SeqSpace, Envelopes
          <6>5. d.seq < seq
            BY <6>2, <6>4
          <6> QED BY <5>2, <6>5
        <5> QED BY <2>1, <5>1, <5>2
      <4> QED BY <4>2, <4>3
    <3> QED BY <3>1, <3>2
  <2> QED BY <1>2, <1>4, <2>2, <2>3, <2>4 DEF Kept
<1>5. CASE /\ m = [last |-> seq,
                   window |-> Append(MakeRoom(w), [seq |-> seq, seen |-> {}])]
           /\ \A i \in 1 .. Len(w) : w[i].seq < seq
  <2>1. PICK w2 : w2 = Append(MakeRoom(w), [seq |-> seq, seen |-> {}])
    OBVIOUS
  <2>2. WindowOK(w) /\ seq \in SeqNum
    BY <1>1, MetadataAssumption, HalfSpaceAssumption
    DEF ChannelOK, Envelopes, SeqNum, SeqSpace
  <2>3. Admitted(w, seq, w2)
    BY <1>5, <2>1, <2>2, NewcomerFacts
  <2>4. m.window = w2
    BY <1>5, <2>1
  <2> QED BY <1>1, <1>4, <1>5, <2>3, <2>4
<1> QED BY <1>1, <1>3, <1>5, MoveCases

(* Below the cap, the indexes in the window are no more than what was      *)
(* applied.                                                                *)
LEMMA KeptTotal ==
  ASSUME NEW ch, ChannelOK(ch), NEW applied, NEW entering,
         Kept(ch.window, applied, entering)
  PROVE  TotalSeen(ch) <= Cardinality(applied)
<1>1. PICK w : w = ch.window /\ w \in Seq(WindowEntry) /\ IsFiniteSet(Pairs(w))
  BY DEF ChannelOK, WindowOK
<1>2. \A p \in Pairs(w) : \E d \in applied : p = <<d.seq, d.idx>>
  <2>1. TAKE p \in Pairs(w)
  <2>2. p = <<p[1], p[2]>>
    BY <1>1, WindowFacts
  <2>3. PICK i \in 1 .. Len(w) : w[i].seq = p[1] /\ p[2] \in w[i].seen
    BY <1>1, <2>2, WindowFacts
  <2>4. PICK d \in applied : d.seq = p[1] /\ d.idx = p[2]
    BY <1>1, <2>3 DEF Kept
  <2> QED BY <2>2, <2>4
<1>3. PICK f : f = [p \in Pairs(w) |-> CHOOSE d \in applied : p = <<d.seq, d.idx>>]
  OBVIOUS
<1>4. \A p \in Pairs(w) : f[p] \in applied /\ p = <<f[p].seq, f[p].idx>>
  BY <1>2, <1>3
<1>5. f \in [Pairs(w) -> applied] /\ DOMAIN f = Pairs(w)
  BY <1>3, <1>4
<1>6. IsInjective(f)
  <2>1. ASSUME NEW a \in Pairs(w), NEW b \in Pairs(w), f[a] = f[b] PROVE a = b
    BY <1>4, <2>1
  <2> QED BY <1>5, <2>1 DEF IsInjective
<1>7. f \in Injection(Pairs(w), applied) /\ IsFiniteSet(applied)
  BY <1>5, <1>6 DEF Injection, Kept
<1>8. Cardinality(Pairs(w)) <= Cardinality(applied)
  BY <1>7, FS_Injection
<1> QED BY <1>1, <1>8, ChannelFacts DEF ChannelOK

(* A chunk applied: its envelope has one. *)
LEMMA RememberKeeps ==
  ASSUME NEW ch, ChannelOK(ch), NEW c, c.idx \in Nat, c.seq \in Envelopes,
         c.seq \in WindowSeqs(ch),
         NEW applied, Kept(ch.window, applied, {c.seq})
  PROVE  Kept(Remember(ch, c.seq, c.idx).window, applied \cup {c}, {})
<1>1. PICK w, w2 : w = ch.window /\ w2 = Remember(ch, c.seq, c.idx).window
  OBVIOUS
<1>2. /\ Len(w2) = Len(w)
      /\ \A i \in 1 .. Len(w) :
           /\ w2[i].seq = w[i].seq
           /\ w2[i].seen = IF w[i].seq = c.seq THEN w[i].seen \cup {c.idx}
                           ELSE w[i].seen
  <2>1. Marked(w, c, w2)
    BY <1>1, RememberEntries
  <2> QED BY <2>1 DEF Marked
<1>3. /\ IsFiniteSet(applied) /\ \A d \in applied : d.seq \in Envelopes
      /\ \A i \in 1 .. Len(w) : \A idx \in w[i].seen :
           \E d \in applied : d.seq = w[i].seq /\ d.idx = idx
      /\ Cardinality(applied) < MaxChunkIndices =>
           \A i \in 1 .. Len(w) : w[i].seen # {} \/ w[i].seq = c.seq
      /\ \A d \in applied :
           \/ \E i \in 1 .. Len(w) : w[i].seq = d.seq
           \/ /\ Len(w) = EnvelopeSeqWindow
              /\ \A i \in 1 .. Len(w) : d.seq < w[i].seq
  BY <1>1 DEF Kept
<1>4. PICK now : now = applied \cup {c}
  OBVIOUS
<1>5. /\ IsFiniteSet(now) /\ \A d \in now : d.seq \in Envelopes
      /\ Cardinality(applied) <= Cardinality(now)
      /\ Cardinality(applied) \in Nat /\ Cardinality(now) \in Nat
  <2>1. /\ IsFiniteSet(now)
        /\ Cardinality(now) = IF c \in applied THEN Cardinality(applied)
                              ELSE Cardinality(applied) + 1
    BY <1>3, <1>4, FS_AddElement
  <2>2. Cardinality(applied) \in Nat
    BY <1>3, FS_CardinalityType
  <2>3. Cardinality(applied) <= Cardinality(now) /\ Cardinality(now) \in Nat
    BY <2>1, <2>2
  <2> QED BY <1>3, <1>4, <2>1, <2>2, <2>3
<1>6. \A i \in 1 .. Len(w) : \A idx \in w2[i].seen :
        \E d \in now : d.seq = w2[i].seq /\ d.idx = idx
  <2>1. TAKE i \in 1 .. Len(w)
  <2>2. TAKE idx \in w2[i].seen
  <2>3. CASE idx \in w[i].seen
    <3>1. PICK d \in applied : d.seq = w[i].seq /\ d.idx = idx
      BY <1>3, <2>3
    <3>2. d \in now /\ d.seq = w2[i].seq
      BY <1>2, <1>4, <3>1
    <3> QED BY <3>1, <3>2
  <2>4. CASE idx \notin w[i].seen
    <3>1. w[i].seq = c.seq /\ idx = c.idx
      BY <1>2, <2>4
    <3>2. c \in now /\ c.seq = w2[i].seq
      BY <1>2, <1>4, <3>1
    <3> QED BY <3>1, <3>2
  <2> QED BY <2>3, <2>4
<1>7. ASSUME Cardinality(now) < MaxChunkIndices, NEW i \in 1 .. Len(w)
      PROVE  w2[i].seen # {}
  <2>1. Cardinality(applied) < MaxChunkIndices
    BY <1>5, <1>7, EnvelopeAssumption
  <2>2. w[i].seen # {} \/ w[i].seq = c.seq
    BY <1>3, <2>1
  <2> QED BY <1>2, <2>2
<1>8. ASSUME NEW d \in now
      PROVE  \/ \E i \in 1 .. Len(w) : w2[i].seq = d.seq
             \/ /\ Len(w) = EnvelopeSeqWindow
                /\ \A i \in 1 .. Len(w) : d.seq < w2[i].seq
  <2>1. CASE d = c
    <3>1. PICK i \in 1 .. Len(w) : w[i].seq = c.seq
      BY <1>1, ChannelFacts DEF ChannelOK
    <3> QED BY <1>2, <2>1, <3>1
  <2>2. CASE d \in applied
    <3>1. CASE \E i \in 1 .. Len(w) : w[i].seq = d.seq
      <4>1. PICK i \in 1 .. Len(w) : w[i].seq = d.seq
        BY <3>1
      <4>2. w2[i].seq = d.seq
        BY <1>2, <4>1
      <4> QED BY <4>2
    <3>2. CASE ~ \E i \in 1 .. Len(w) : w[i].seq = d.seq
      <4>1. /\ Len(w) = EnvelopeSeqWindow
            /\ \A i \in 1 .. Len(w) : d.seq < w[i].seq
        BY <1>3, <2>2, <3>2
      <4>2. ASSUME NEW i \in 1 .. Len(w) PROVE d.seq < w2[i].seq
        <5>1. w2[i].seq = w[i].seq
          BY <1>2
        <5> QED BY <4>1, <5>1
      <4> QED BY <4>1, <4>2
    <3> QED BY <3>1, <3>2
  <2> QED BY <1>4, <2>1, <2>2
<1>9. Kept(w2, now, {})
  <2>1. Len(w2) = Len(w)
    BY <1>2
  <2>2. \A d \in now : \/ \E i \in 1 .. Len(w2) : w2[i].seq = d.seq
                      \/ /\ Len(w2) = EnvelopeSeqWindow
                         /\ \A i \in 1 .. Len(w2) : d.seq < w2[i].seq
    BY <1>8, <2>1
  <2>3. Cardinality(now) < MaxChunkIndices
          => \A i \in 1 .. Len(w2) : w2[i].seen # {}
    BY <1>7, <2>1
  <2>4. \A i \in 1 .. Len(w2) : \A idx \in w2[i].seen :
          \E d \in now : d.seq = w2[i].seq /\ d.idx = idx
    BY <1>6, <2>1
  <2> QED BY <1>5, <2>2, <2>3, <2>4 DEF Kept
<1> QED BY <1>1, <1>4, <1>9

(* An envelope that came in with nothing applied, when the chunk is one    *)
(* that was seen before or is beyond the cap.                              *)
LEMMA RefusedKeeps ==
  ASSUME NEW ch, ChannelOK(ch), NEW c, NEW applied,
         Kept(ch.window, applied, {c.seq}),
         c.idx \in Seen(ch, c.seq) \/ TotalSeen(ch) >= MaxChunkIndices
  PROVE  Kept(ch.window, applied, {})
<1>1. PICK w : w = ch.window /\ w \in Seq(WindowEntry) /\ WindowOK(w)
  BY DEF ChannelOK, WindowOK
<1>2. ASSUME Cardinality(applied) < MaxChunkIndices, NEW i \in 1 .. Len(w)
      PROVE  w[i].seen # {}
  <2>1. w[i].seen # {} \/ w[i].seq = c.seq
    BY <1>1, <1>2 DEF Kept
  <2>2. ~ TotalSeen(ch) >= MaxChunkIndices
    <3>1. TotalSeen(ch) <= Cardinality(applied)
      BY KeptTotal
    <3>2. Cardinality(applied) \in Nat /\ MaxChunkIndices \in Nat
      BY FS_CardinalityType, EnvelopeAssumption DEF Kept
    <3>3. TotalSeen(ch) \in Nat
      BY FS_CardinalityType, ChannelFacts DEF ChannelOK, WindowOK
    <3> QED BY <1>2, <3>1, <3>2, <3>3
  <2>3. <<c.seq, c.idx>> \in Pairs(w)
    BY <1>1, <2>2, ChannelFacts DEF ChannelOK
  <2>4. PICK j \in 1 .. Len(w) : w[j].seq = c.seq /\ c.idx \in w[j].seen
    <3>1. w \in Seq(WindowEntry)
      BY <1>1
    <3> QED BY <2>3, <3>1, WindowFacts
  <2>5. CASE w[i].seq = c.seq
    <3>1. i = j
      BY <1>1, <2>4, <2>5, SameEntry
    <3> QED BY <2>4, <3>1
  <2> QED BY <2>1, <2>5
<1> QED BY <1>1, <1>2 DEF Kept

(* shouldDropEnvelopeBySeq as a whole. *)
LEMMA FilterFacts ==
  ASSUME NEW ch, ChannelOK(ch), NEW applied, AppliedOK(ch, applied),
         Kept(ch.window, applied, {}),
         NEW c, c.seq \in Envelopes, c.idx \in Nat
  PROVE  LET f   == Filtered(ch, c.seq, c.idx)
             old == IF LooksRestarted(ch, c.seq) THEN {} ELSE applied
             now == IF f.apply THEN old \cup {c} ELSE old
         IN  /\ ChannelOK(f.channel)
             /\ f.apply => c \notin old
             /\ AppliedOK(f.channel, now)
             /\ Kept(f.channel.window, now, {})
<1>1. PICK f : f = Filtered(ch, c.seq, c.idx)
  OBVIOUS
<1>2. PICK old : old = IF LooksRestarted(ch, c.seq) THEN {} ELSE applied
  OBVIOUS
<1>3. PICK fresh : fresh = IF LooksRestarted(ch, c.seq) THEN NewChannel ELSE ch
  OBVIOUS
<1>4. PICK moved : moved = MoveTo(fresh, c.seq)
  OBVIOUS
<1>5. f = IF IsStale(fresh, c.seq) THEN [apply |-> FALSE, channel |-> fresh]
          ELSE IF c.idx \in Seen(moved, c.seq) \/ TotalSeen(moved) >= MaxChunkIndices
               THEN [apply |-> FALSE, channel |-> moved]
          ELSE [apply |-> TRUE, channel |-> Remember(moved, c.seq, c.idx)]
  BY <1>1, <1>3, <1>4 DEF Filtered
<1>6. /\ ChannelOK(NewChannel) /\ AppliedOK(NewChannel, {})
      /\ Kept(NewChannel.window, {}, {})
  BY NewChannelFacts
<1>7. ChannelOK(fresh) /\ AppliedOK(fresh, old) /\ Kept(fresh.window, old, {})
  BY <1>2, <1>3, <1>6
<1>8. CASE IsStale(fresh, c.seq)
  <2>1. f.apply = FALSE /\ f.channel = fresh
    BY <1>5, <1>8
  <2> QED BY <1>1, <1>2, <1>7, <2>1
<1>9. CASE ~ IsStale(fresh, c.seq)
  <2>1. /\ ChannelOK(moved) /\ AppliedOK(moved, old)
        /\ moved.last # NoSeq /\ c.seq <= moved.last /\ c.seq \in WindowSeqs(moved)
    BY <1>4, <1>7, <1>9, MoveFacts
  <2>0. Kept(moved.window, old, {c.seq})
    BY <1>4, <1>7, <1>9, MoveKeeps
  <2>2. CASE c.idx \in Seen(moved, c.seq) \/ TotalSeen(moved) >= MaxChunkIndices
    <3>1. f.apply = FALSE /\ f.channel = moved
      BY <1>5, <1>9, <2>2
    <3>2. Kept(moved.window, old, {})
      BY <2>0, <2>1, <2>2, RefusedKeeps
    <3> QED BY <1>1, <1>2, <2>1, <3>1, <3>2
  <2>3. CASE ~ (c.idx \in Seen(moved, c.seq) \/ TotalSeen(moved) >= MaxChunkIndices)
    <3>1. f.apply = TRUE /\ f.channel = Remember(moved, c.seq, c.idx)
      BY <1>5, <1>9, <2>3
    <3>2. /\ ChannelOK(f.channel) /\ AppliedOK(f.channel, old \cup {c})
          /\ c \notin old
      BY <2>1, <2>3, <3>1, RememberFacts
    <3>3. Kept(f.channel.window, old \cup {c}, {})
      BY <2>0, <2>1, <3>1, RememberKeeps
    <3> QED BY <1>1, <1>2, <3>1, <3>2, <3>3
  <2> QED BY <2>2, <2>3
<1> QED BY <1>8, <1>9

(* A chunk that was not applied yet is, while its envelope can still be in *)
(* the window.                                                             *)
LEMMA StragglerApplied ==
  ASSUME NEW ch, ChannelOK(ch),
         NEW applied, Kept(ch.window, applied, {}),
         NEW c, c.seq \in Envelopes, c.idx \in Nat,
         NEW d \in applied, d.seq = c.seq,
         \A e \in applied : ~ (e.seq = c.seq /\ e.idx = c.idx),
         Cardinality({e.seq : e \in {a \in applied : a.seq > c.seq}})
           < EnvelopeSeqWindow,
         Cardinality(applied) < MaxChunkIndices
  PROVE  Filtered(ch, c.seq, c.idx).apply
<1>1. PICK old : old = IF LooksRestarted(ch, c.seq) THEN {} ELSE applied
  OBVIOUS
<1>2. PICK fresh : fresh = IF LooksRestarted(ch, c.seq) THEN NewChannel ELSE ch
  OBVIOUS
<1>3. ChannelOK(fresh) /\ Kept(fresh.window, old, {}) /\ old \subseteq applied
  BY <1>1, <1>2, NewChannelFacts
<1>4. ~ IsStale(fresh, c.seq)
  <2>1. CASE LooksRestarted(ch, c.seq)
    BY <1>2, <2>1 DEF NewChannel, IsStale
  <2>2. ASSUME ~ LooksRestarted(ch, c.seq), c.seq \notin WindowSeqs(ch) PROVE FALSE
    <3>1. PICK w, n : w = ch.window /\ n = Len(ch.window)
      OBVIOUS
    <3>2. ~ \E i \in 1 .. n : w[i].seq = c.seq
      BY <2>2, <3>1, ChannelFacts DEF ChannelOK
    <3>3. n = EnvelopeSeqWindow /\ \A i \in 1 .. n : c.seq < w[i].seq
      BY <3>1, <3>2 DEF Kept
    <3>4. PICK newer : newer = {e.seq : e \in {a \in applied : a.seq > c.seq}}
      OBVIOUS
    <3>5. \A i \in 1 .. n : w[i].seq \in newer
      <4>1. TAKE i \in 1 .. n
      <4>2. w[i].seen # {}
        BY <3>1 DEF Kept
      <4>3. PICK e \in applied : e.seq = w[i].seq
        BY <3>1, <4>2 DEF Kept
      <4>4. c.seq \in Int /\ e.seq \in Int
        BY MetadataAssumption DEF Kept, Envelopes
      <4>5. e.seq > c.seq
        BY <3>3, <4>3, <4>4
      <4> QED BY <3>4, <4>3, <4>5
    <3>6. WindowSeqs(ch) \subseteq newer
      <4>1. \A x \in WindowSeqs(ch) : \E i \in 1 .. n : w[i].seq = x
        BY <3>1, ChannelFacts DEF ChannelOK
      <4> QED BY <3>5, <4>1
    <3>7. IsFiniteSet(newer)
      <4>1. PICK A : A = {a \in applied : a.seq > c.seq}
        OBVIOUS
      <4>2. IsFiniteSet(applied) /\ A \subseteq applied
        BY <4>1 DEF Kept
      <4>3. IsFiniteSet(A)
        BY <4>2, FS_Subset
      <4>4. PICK f : f = [a \in A |-> a.seq]
        OBVIOUS
      <4>5. f \in [A -> newer] /\ \A x \in newer : \E a \in A : f[a] = x
        BY <3>4, <4>1, <4>4
      <4>6. f \in Surjection(A, newer)
        BY <4>5 DEF Surjection
      <4> QED BY <4>3, <4>6, FS_Surjection
    <3>8. Cardinality(WindowSeqs(ch)) = n
      BY <3>1, WindowCount DEF ChannelOK
    <3>9. Cardinality(WindowSeqs(ch)) <= Cardinality(newer)
      BY <3>6, <3>7, FS_Subset
    <3>10. Cardinality(newer) \in Nat /\ EnvelopeSeqWindow \in Nat
      BY <3>7, FS_CardinalityType, EnvelopeAssumption
    <3>11. Cardinality(newer) < EnvelopeSeqWindow
      BY <3>4
    <3>12. EnvelopeSeqWindow <= Cardinality(newer)
      BY <3>3, <3>8, <3>9
    <3> QED BY <3>10, <3>11, <3>12
  <2> QED BY <1>2, <2>1, <2>2 DEF IsStale
<1>5. PICK moved : moved = MoveTo(fresh, c.seq)
  OBVIOUS
<1>6. ChannelOK(moved) /\ c.seq \in WindowSeqs(moved)
  BY <1>3, <1>4, <1>5, MoveFacts DEF AppliedOK
<1>7. Kept(moved.window, old, {c.seq})
  BY <1>3, <1>4, <1>5, MoveKeeps
<1>8. c.idx \notin Seen(moved, c.seq)
  <2>1. SUFFICES ASSUME c.idx \in Seen(moved, c.seq) PROVE FALSE
    OBVIOUS
  <2>2. PICK w : w = moved.window /\ w \in Seq(WindowEntry)
    BY <1>6 DEF ChannelOK, WindowOK
  <2>3. <<c.seq, c.idx>> \in Pairs(w)
    BY <1>6, <2>1, <2>2, ChannelFacts DEF ChannelOK
  <2>4. PICK i \in 1 .. Len(w) : w[i].seq = c.seq /\ c.idx \in w[i].seen
    <3>1. w \in Seq(WindowEntry)
      BY <2>2
    <3> QED BY <2>3, <3>1, WindowFacts
  <2>5. PICK e \in old : e.seq = c.seq /\ e.idx = c.idx
    BY <1>7, <2>2, <2>4 DEF Kept
  <2> QED BY <1>3, <2>5
<1>9. ~ TotalSeen(moved) >= MaxChunkIndices
  <2>1. TotalSeen(moved) <= Cardinality(old)
    BY <1>6, <1>7, KeptTotal
  <2>2. IsFiniteSet(applied) /\ IsFiniteSet(old)
    BY <1>3 DEF Kept
  <2>3. Cardinality(old) <= Cardinality(applied)
    BY <1>3, <2>2, FS_Subset
  <2>4. /\ Cardinality(old) \in Nat /\ Cardinality(applied) \in Nat
        /\ MaxChunkIndices \in Nat
    BY <2>2, FS_CardinalityType, EnvelopeAssumption
  <2>5. TotalSeen(moved) \in Nat
    BY <1>6, FS_CardinalityType, ChannelFacts DEF ChannelOK, WindowOK
  <2> QED BY <2>1, <2>3, <2>4, <2>5
<1>10. Filtered(ch, c.seq, c.idx) =
         [apply |-> TRUE, channel |-> Remember(moved, c.seq, c.idx)]
  BY <1>2, <1>4, <1>5, <1>8, <1>9 DEF Filtered
<1> QED BY <1>10

-----------------------------------------------------------------------------
(* The change cache. *)

Client == [cache : [Keys -> Metadata], gen : Nat, buffer : Seq(Entry),
           flushArmed : BOOLEAN, nextSeq : 0 .. MaxEnvelopes,
           done : SUBSET Entry]

BoundedAbove(D) == \E n \in Nat : \A i \in D : i <= n

EntryMap == UNION {[D -> Entry] : D \in {E \in SUBSET Nat : BoundedAbove(E)}}

SendCall == [kind : {"diff", "snapshot"}, gen : Nat, seq : Envelopes,
             idx : Nat, entries : EntryMap]

(* The entries of a send are those of a function on some naturals. *)
LEMMA EntryMapFacts ==
  ASSUME NEW e
  PROVE  e \in EntryMap <=>
           /\ DOMAIN e \subseteq Nat /\ BoundedAbove(DOMAIN e)
           /\ e \in [DOMAIN e -> Entry]
<1>1. ASSUME e \in EntryMap
      PROVE  /\ DOMAIN e \subseteq Nat /\ BoundedAbove(DOMAIN e)
             /\ e \in [DOMAIN e -> Entry]
  <2>1. PICK D \in SUBSET Nat : BoundedAbove(D) /\ e \in [D -> Entry]
    BY <1>1 DEF EntryMap
  <2>2. DOMAIN e = D
    BY <2>1
  <2> QED BY <2>1, <2>2
<1>2. ASSUME DOMAIN e \in SUBSET Nat, BoundedAbove(DOMAIN e), e \in [DOMAIN e -> Entry]
      PROVE  e \in EntryMap
  <2>1. PICK D : D = DOMAIN e
    OBVIOUS
  <2>2. D \in SUBSET Nat /\ BoundedAbove(D) /\ e \in [D -> Entry]
    BY <1>2, <2>1
  <2>3. [D -> Entry] \in {[F -> Entry] : F \in {E \in SUBSET Nat : BoundedAbove(E)}}
    BY <2>2
  <2> QED BY Zenon, <2>2, <2>3 DEF EntryMap
<1> QED BY <1>1, <1>2

(* A bounded set of naturals has a greatest member. *)
LEMMA GreatestElement ==
  ASSUME NEW T, T \subseteq Nat, T # {}, BoundedAbove(T)
  PROVE  Max(T) \in T
<1>1. PICK n \in Nat : \A i \in T : i <= n
  BY DEF BoundedAbove
<1>2. PICK S : S = {n - i : i \in T}
  OBVIOUS
<1>3. S \subseteq Nat /\ S # {}
  <2>1. \A i \in T : n - i \in Nat
    BY <1>1
  <2> QED BY <1>2, <2>1
<1>4. PICK x \in S : \A y \in S : x <= y
  BY <1>3, LeastElement
<1>5. PICK g \in T : x = n - g
  BY <1>2, <1>4
<1>6. \A i \in T : g >= i
  <2>1. TAKE i \in T
  <2>2. x <= n - i
    BY <1>2, <1>4
  <2> QED BY <1>1, <1>5, <2>2
<1> QED BY <1>5, <1>6 DEF Max

(* MetaCache.commit takes over entries, or leaves what was there. *)
LEMMA CommitFacts ==
  ASSUME NEW cache \in [Keys -> Metadata], NEW e \in EntryMap
  PROVE  /\ Commit(cache, e) \in [Keys -> Metadata]
         /\ \A k \in Keys : \/ Commit(cache, e)[k] = cache[k]
                            \/ <<k, Commit(cache, e)[k]>> \in Range(e)
<1>1. /\ DOMAIN e \subseteq Nat /\ BoundedAbove(DOMAIN e)
      /\ \A i \in DOMAIN e : e[i] \in Keys \X Values
  BY EntryMapFacts DEF Entry
<1>2. PICK new : new = Commit(cache, e)
  OBVIOUS
<1>3. ASSUME NEW k \in Keys
      PROVE  /\ new[k] \in Metadata
             /\ new[k] = cache[k] \/ <<k, new[k]>> \in Range(e)
  <2>1. PICK places : places = {i \in DOMAIN e : e[i][1] = k}
    OBVIOUS
  <2>2. new[k] = IF places = {} THEN cache[k] ELSE e[Max(places)][2]
    BY <1>2, <2>1 DEF Commit
  <2>3. CASE places = {}
    BY <2>2, <2>3
  <2>4. CASE places # {}
    <3>1. BoundedAbove(places) /\ places \subseteq Nat
      BY <1>1, <2>1 DEF BoundedAbove
    <3>2. Max(places) \in places
      BY <2>4, <3>1, GreatestElement
    <3>3. PICK i \in DOMAIN e : i = Max(places) /\ e[i][1] = k
      BY <2>1, <3>2
    <3>4. new[k] = e[i][2] /\ e[i] = <<k, e[i][2]>> /\ e[i][2] \in Values
      BY <1>1, <2>2, <2>4, <3>3
    <3>5. e[i] \in Range(e)
      BY DEF Range
    <3> QED BY <3>4, <3>5 DEF Metadata
  <2> QED BY <2>3, <2>4
<1>4. new = [k \in Keys |-> new[k]]
  BY <1>2 DEF Commit
<1> QED BY <1>2, <1>3, <1>4

(* collectSnapshot *)
LEMMA SnapshotFacts ==
  ASSUME tree \in [Keys -> Metadata]
  PROVE  CollectSnapshot \in EntryMap
<1>1. PICK S : S = {<<k, tree[k]>> : k \in {k \in Included : tree[k] # Unset}}
  OBVIOUS
<1>2. S \subseteq Entry
  BY <1>1, MetadataAssumption DEF Entry, Metadata
<1>3. IsFiniteSet(S)
  <2>1. PICK K : K = {k \in Included : tree[k] # Unset}
    OBVIOUS
  <2>2. IsFiniteSet(Keys) /\ K \subseteq Keys
    BY <2>1, MetadataAssumption
  <2>3. IsFiniteSet(K)
    BY <2>2, FS_Subset
  <2>4. PICK f : f = [k \in K |-> <<k, tree[k]>>]
    OBVIOUS
  <2>5. f \in Surjection(K, S)
    <3>1. f \in [K -> S] /\ \A k \in K : f[k] = <<k, tree[k]>>
      BY <1>1, <2>1, <2>4
    <3>2. \A x \in S : \E k \in K : f[k] = x
      BY <1>1, <2>1, <3>1
    <3> QED BY <3>1, <3>2 DEF Surjection
  <2> QED BY <2>3, <2>5, FS_Surjection
<1>4. PICK n \in Nat : n = Cardinality(S)
  BY <1>3, FS_CardinalityType
<1>5. \E f \in [1 .. n -> S] : IsInjective(f)
  <2>1. PICK f : f \in Bijection(1 .. n, S)
    <3>1. ExistsBijection(1 .. n, S)
      BY <1>3, <1>4, FS_CardinalityType
    <3> QED BY <3>1 DEF ExistsBijection
  <2>2. f \in [1 .. n -> S] /\ \A a, b \in 1 .. n : f[a] = f[b] => a = b
    BY <2>1 DEF Bijection, Injection, Surjection, IsInjective
  <2>3. DOMAIN f = 1 .. n
    BY <2>2
  <2>4. IsInjective(f)
    BY <2>2, <2>3 DEF IsInjective
  <2> QED BY <2>2, <2>4
<1>6. CollectSnapshot \in [1 .. n -> S]
  BY <1>1, <1>4, <1>5 DEF CollectSnapshot, SetToSeq
<1>7. BoundedAbove(1 .. n) /\ 1 .. n \subseteq Nat
  BY DEF BoundedAbove
<1> QED BY <1>2, <1>6, <1>7 DEF EntryMap

(* computeDiff *)
LEMMA DiffFacts ==
  ASSUME NEW cache, NEW buffer \in Seq(Entry)
  PROVE  ComputeDiff(cache, buffer) \in EntryMap
<1>1. PICK n \in Nat : n = Len(buffer) /\ buffer \in [1 .. n -> Entry]
  BY LenProperties
<1>2. PICK D : D = {i \in DOMAIN buffer : cache[buffer[i][1]] # buffer[i][2]}
  OBVIOUS
<1>3. ComputeDiff(cache, buffer) = [i \in D |-> buffer[i]]
  BY <1>2 DEF ComputeDiff, Restrict
<1>4. D \subseteq 1 .. n
  BY <1>1, <1>2
<1>5. BoundedAbove(D) /\ D \in SUBSET Nat
  <2>1. D \subseteq Nat /\ \A i \in D : i <= n
    BY <1>4
  <2> QED BY <2>1 DEF BoundedAbove
<1>6. [i \in D |-> buffer[i]] \in [D -> Entry]
  BY <1>1, <1>4
<1> QED BY <1>3, <1>5, <1>6 DEF EntryMap

-----------------------------------------------------------------------------
(* The inductive invariant. *)

Chunk == [run : Nat, seq : Envelopes, idx : Nat]

GoodSession ==
  {s \in [channel : Channel, applied : SUBSET Chunk, twice : {FALSE}] :
     /\ ChannelOK(s.channel) /\ AppliedOK(s.channel, s.applied)
     /\ Kept(s.channel.window, s.applied, {})}

SenderInv ==
  /\ tree \in [Keys -> Metadata]
  /\ client \in Client
  /\ sends \subseteq SendCall
  /\ run \in Nat /\ spent \in Nat
  /\ CachedWasSent

ReceiverInv ==
  /\ wire \subseteq Chunk
  /\ sessions \in Seq(GoodSession)
  /\ session \in 0 .. Len(sessions)
  /\ \A w \in parked : w.chunk \in wire /\ w.session \in 0 .. Len(sessions)

MetadataIInv == SenderInv /\ ReceiverInv

(* What a client holds, named. *)
LEMMA ClientFacts ==
  ASSUME client \in Client
  PROVE  /\ client.cache \in [Keys -> Metadata] /\ client.gen \in Nat
         /\ client.buffer \in Seq(Entry) /\ client.flushArmed \in BOOLEAN
         /\ client.nextSeq \in 0 .. MaxEnvelopes /\ client.done \subseteq Entry
         /\ client = [cache |-> client.cache, gen |-> client.gen,
                      buffer |-> client.buffer, flushArmed |-> client.flushArmed,
                      nextSeq |-> client.nextSeq, done |-> client.done]
BY DEF Client

(* A send takes the next envelope number, if there is anything to send. *)
LEMMA StartSendFacts ==
  ASSUME NEW c \in Client, c.nextSeq < MaxEnvelopes, sends \subseteq SendCall,
         NEW entries \in EntryMap, NEW kind \in {"diff", "snapshot"},
         StartSend(c, entries, kind)
  PROVE  /\ client' \in Client /\ sends' \subseteq SendCall
         /\ client'.cache = c.cache /\ client'.done = c.done
<1>1. /\ c.cache \in [Keys -> Metadata] /\ c.gen \in Nat
      /\ c.buffer \in Seq(Entry) /\ c.flushArmed \in BOOLEAN
      /\ c.nextSeq \in 0 .. MaxEnvelopes /\ c.done \subseteq Entry
      /\ c = [cache |-> c.cache, gen |-> c.gen, buffer |-> c.buffer,
              flushArmed |-> c.flushArmed, nextSeq |-> c.nextSeq,
              done |-> c.done]
  BY DEF Client
<1>2. /\ MaxEnvelopes \in Nat /\ MaxEnvelopes < HalfSpace /\ HalfSpace \in Nat
  BY MetadataAssumption, HalfSpaceAssumption
<1>3. CASE DOMAIN entries = {}
  BY <1>3 DEF StartSend
<1>4. CASE DOMAIN entries # {}
  <2>1. PICK new : new = [kind |-> kind, gen |-> c.gen, seq |-> c.nextSeq,
                          idx |-> 0, entries |-> entries]
    OBVIOUS
  <2>2. c.nextSeq \in Envelopes /\ 0 \in Nat
    BY <1>1, <1>2 DEF Envelopes
  <2>3. new \in SendCall
    BY <1>1, <2>1, <2>2 DEF SendCall
  <2>4. sends' = sends \cup {new} /\ client' = [c EXCEPT !.nextSeq = Plus(@, 1)]
    BY <1>4, <2>1 DEF StartSend
  <2>5. Plus(c.nextSeq, 1) = c.nextSeq + 1 /\ c.nextSeq + 1 \in 0 .. MaxEnvelopes
    BY <1>1, <1>2 DEF Plus, SeqSpace
  <2>6. client' = [cache |-> c.cache, gen |-> c.gen, buffer |-> c.buffer,
                   flushArmed |-> c.flushArmed, nextSeq |-> Plus(c.nextSeq, 1),
                   done |-> c.done]
    BY <1>1, <2>4
  <2>7. client' \in Client
    BY <1>1, <2>5, <2>6 DEF Client
  <2> QED BY <2>3, <2>4, <2>6, <2>7
<1> QED BY <1>3, <1>4

(* At the start nothing was sent and nothing received. *)
LEMMA MetadataInitInv == MetadataInit => MetadataIInv
<1> SUFFICES ASSUME MetadataInit PROVE MetadataIInv
  OBVIOUS
<1>1. None \in [Keys -> Metadata] /\ \A k \in Keys : None[k] = Unset
  BY DEF None, Metadata
<1>2. << >> \in Seq(Entry) /\ << >> \in Seq(GoodSession) /\ Len(<< >>) = 0
  OBVIOUS
<1>3. 0 \in 0 .. MaxEnvelopes
  BY MetadataAssumption
<1>4. /\ client = [cache |-> None, gen |-> 0, buffer |-> << >>,
                   flushArmed |-> FALSE, nextSeq |-> 0, done |-> {}]
      /\ client.cache = None
  BY DEF MetadataInit, NewClient
<1>5. client \in Client
  BY <1>1, <1>2, <1>3, <1>4 DEF Client
<1>6. CachedWasSent
  BY <1>1, <1>4 DEF CachedWasSent
<1>7. SenderInv
  BY <1>5, <1>6 DEF MetadataInit, SenderInv
<1>8. ReceiverInv
  BY <1>2 DEF MetadataInit, ReceiverInv
<1> QED BY <1>7, <1>8 DEF MetadataIInv

(* What is cached stays sent when the cache and what was sent stay. *)
LEMMA SameCache ==
  ASSUME CachedWasSent, client'.cache = client.cache, client'.done = client.done
  PROVE  CachedWasSent'
BY DEF CachedWasSent

(* The sender's steps. *)
LEMMA SenderStep ==
  ASSUME SenderInv, MetadataNext
  PROVE  SenderInv'
<1>1. /\ tree \in [Keys -> Metadata] /\ client \in Client
      /\ sends \subseteq SendCall /\ run \in Nat /\ spent \in Nat
      /\ CachedWasSent
  BY DEF SenderInv
<1>2. /\ client.cache \in [Keys -> Metadata] /\ client.gen \in Nat
      /\ client.buffer \in Seq(Entry) /\ client.flushArmed \in BOOLEAN
      /\ client.nextSeq \in 0 .. MaxEnvelopes /\ client.done \subseteq Entry
      /\ client = [cache |-> client.cache, gen |-> client.gen,
                   buffer |-> client.buffer, flushArmed |-> client.flushArmed,
                   nextSeq |-> client.nextSeq, done |-> client.done]
  BY <1>1, ClientFacts
<1>3. MaxEnvelopes \in Nat /\ << >> \in Seq(Entry)
  BY MetadataAssumption
<1>4. MaySend => client.nextSeq < MaxEnvelopes
  BY <1>1, <1>2, <1>3 DEF MaySend
<1>5. ASSUME NEW k \in Keys, NEW v \in Metadata, Change(k, v) PROVE SenderInv'
  <2>1. PICK live : live = ExtractLiveMeta(k, v)
    OBVIOUS
  <2>2. live \in Seq(Entry)
    <3>1. CASE live = << >>
      BY <1>3, <3>1
    <3>2. CASE live # << >>
      <4>1. v # Unset /\ live = << <<k, v>> >>
        BY <2>1, <3>2 DEF ExtractLiveMeta
      <4>2. <<k, v>> \in Entry
        BY <4>1 DEF Entry, Metadata
      <4> QED BY <4>1, <4>2
    <3> QED BY <3>1, <3>2
  <2>3. client' = IF live = << >> THEN client
                  ELSE [client EXCEPT !.buffer = @ \o live, !.flushArmed = TRUE]
    BY <1>5, <2>1 DEF Change
  <2>4. client.buffer \o live \in Seq(Entry)
    BY <1>2, <2>2, ConcatProperties
  <2>5. /\ client' \in Client /\ client'.cache = client.cache
        /\ client'.done = client.done
    <3>1. CASE live = << >>
      BY <1>1, <2>3, <3>1
    <3>2. CASE live # << >>
      <4>1. client' = [cache |-> client.cache, gen |-> client.gen,
                       buffer |-> client.buffer \o live, flushArmed |-> TRUE,
                       nextSeq |-> client.nextSeq, done |-> client.done]
        BY <1>2, <2>3, <3>2
      <4> QED BY <1>2, <2>4, <4>1 DEF Client
    <3> QED BY <3>1, <3>2
  <2>6. tree' \in [Keys -> Metadata]
    BY <1>1, <1>5 DEF Change
  <2> QED BY <1>1, <1>5, <2>5, <2>6, SameCache DEF SenderInv, Change
<1>6. ASSUME SelfBecomesKnown PROVE SenderInv'
  BY <1>1, <1>6, SameCache DEF SenderInv, SelfBecomesKnown, counters
<1>7. ASSUME FlushMetaDiff PROVE SenderInv'
  <2>1. PICK c : c = [client EXCEPT !.flushArmed = FALSE, !.buffer = << >>]
    OBVIOUS
  <2>2. c = [cache |-> client.cache, gen |-> client.gen, buffer |-> << >>,
             flushArmed |-> FALSE, nextSeq |-> client.nextSeq,
             done |-> client.done]
    BY <1>2, <2>1
  <2>3. c \in Client
    BY <1>2, <1>3, <2>2 DEF Client
  <2>4. c.nextSeq < MaxEnvelopes /\ c.cache = client.cache /\ c.done = client.done
    <3>1. client.nextSeq < MaxEnvelopes
      BY <1>4, <1>7 DEF FlushMetaDiff
    <3>2. c.nextSeq = client.nextSeq /\ c.cache = client.cache /\ c.done = client.done
      BY <2>2
    <3> QED BY <3>1, <3>2
  <2>5. PICK e \in EntryMap : e = ComputeDiff(client.cache, client.buffer)
    BY <1>2, DiffFacts
  <2>6. StartSend(c, e, "diff")
    BY <1>7, <2>1, <2>5 DEF FlushMetaDiff
  <2>7. /\ client' \in Client /\ sends' \subseteq SendCall
        /\ client'.cache = client.cache /\ client'.done = client.done
    BY <1>1, <2>3, <2>4, <2>6, StartSendFacts
  <2> QED BY <1>1, <1>7, <2>7, SameCache DEF SenderInv, FlushMetaDiff, counters
<1>8. ASSUME SendMetadataSnapshot PROVE SenderInv'
  <2>1. PICK e \in EntryMap : e = CollectSnapshot
    BY <1>1, SnapshotFacts
  <2>2. StartSend(client, e, "snapshot") /\ client.nextSeq < MaxEnvelopes
    BY <1>4, <1>8, <2>1 DEF SendMetadataSnapshot
  <2>3. /\ client' \in Client /\ sends' \subseteq SendCall
        /\ client'.cache = client.cache /\ client'.done = client.done
    BY <1>1, <2>2, StartSendFacts
  <2> QED BY <1>1, <1>8, <2>3, SameCache DEF SenderInv, SendMetadataSnapshot, counters
<1>9. ASSUME NEW s \in sends, SendChunk(s) PROVE SenderInv'
  <2>1. s \in SendCall
    BY <1>1
  <2>2. /\ s.kind \in {"diff", "snapshot"} /\ s.gen \in Nat /\ s.seq \in Envelopes
        /\ s.idx \in Nat /\ s.entries \in EntryMap
        /\ s = [kind |-> s.kind, gen |-> s.gen, seq |-> s.seq, idx |-> s.idx,
                entries |-> s.entries]
    BY <2>1 DEF SendCall
  <2>3. PICK next : next = [s EXCEPT !.idx = @ + 1]
    OBVIOUS
  <2>4. next = [kind |-> s.kind, gen |-> s.gen, seq |-> s.seq, idx |-> s.idx + 1,
                entries |-> s.entries]
    BY <2>2, <2>3
  <2>5. next \in SendCall
    BY <2>2, <2>4 DEF SendCall
  <2>6. sends' \subseteq SendCall
    BY <1>1, <1>9, <2>3, <2>5 DEF SendChunk
  <2> QED BY <1>1, <1>9, <2>6, SameCache DEF SenderInv, SendChunk, counters
<1>10. ASSUME NEW s \in sends, SendEnds(s) PROVE SenderInv'
  <2>1. s.entries \in EntryMap
    BY <1>1 DEF SendCall
  <2>2. PICK sent : sent = (s.idx = PacketCount(s.entries))
    OBVIOUS
  <2>3. PICK cache, done : /\ cache = CacheAfter(client, s, sent)
                           /\ done = IF sent THEN client.done \cup Range(s.entries)
                                     ELSE client.done
    OBVIOUS
  <2>4. client' = [client EXCEPT !.cache = cache, !.done = done]
    BY <1>10, <2>2, <2>3 DEF SendEnds
  <2>5. Range(s.entries) \subseteq Entry
    BY <2>1, EntryMapFacts DEF Range
  <2>6. ASSUME NEW base \in [Keys -> Metadata], sent, cache = Commit(base, s.entries),
               \A k \in Keys : base[k] = Unset \/ base[k] = client.cache[k]
        PROVE  /\ cache \in [Keys -> Metadata]
               /\ \A k \in Keys : cache[k] # Unset => <<k, cache[k]>> \in done
    <3>1. /\ cache \in [Keys -> Metadata]
          /\ \A k \in Keys : \/ cache[k] = base[k]
                             \/ <<k, cache[k]>> \in Range(s.entries)
      BY <2>1, <2>6, CommitFacts
    <3>2. ASSUME NEW k \in Keys, cache[k] # Unset
          PROVE  <<k, cache[k]>> \in done
      <4>1. CASE <<k, cache[k]>> \in Range(s.entries)
        BY <2>3, <2>6, <4>1
      <4>2. CASE cache[k] = client.cache[k]
        BY <1>1, <2>3, <2>6, <3>2, <4>2 DEF CachedWasSent
      <4> QED BY <2>6, <3>1, <3>2, <4>1, <4>2
    <3> QED BY <3>1, <3>2
  <2>7. /\ cache \in [Keys -> Metadata]
        /\ \A k \in Keys : cache[k] # Unset => <<k, cache[k]>> \in done
    <3>1. CASE ~ sent
      BY <1>1, <1>2, <2>3, <3>1 DEF CacheAfter, CachedWasSent
    <3>2. CASE sent /\ s.kind = "snapshot"
      <4>1. cache = Commit(None, s.entries)
        BY <2>3, <3>2 DEF CacheAfter, Replaced
      <4>2. None \in [Keys -> Metadata] /\ \A k \in Keys : None[k] = Unset
        BY DEF None, Metadata
      <4> QED BY <2>6, <3>2, <4>1, <4>2
    <3>3. CASE sent /\ s.kind # "snapshot" /\ client.gen = s.gen
      <4>1. cache = Commit(client.cache, s.entries)
        BY <2>3, <3>3 DEF CacheAfter
      <4> QED BY <1>2, <2>6, <3>3, <4>1
    <3>4. CASE sent /\ s.kind # "snapshot" /\ client.gen # s.gen
      <4>1. cache = client.cache
        BY <2>3, <3>4 DEF CacheAfter
      <4> QED BY <1>1, <1>2, <2>3, <3>4, <4>1 DEF CachedWasSent
    <3> QED BY <3>1, <3>2, <3>3, <3>4
  <2>8. client' = [cache |-> cache, gen |-> client.gen, buffer |-> client.buffer,
                   flushArmed |-> client.flushArmed, nextSeq |-> client.nextSeq,
                   done |-> done]
    BY <1>2, <2>4
  <2>9. done \subseteq Entry
    BY <1>2, <2>3, <2>5
  <2>10. client' \in Client
    BY <1>2, <2>7, <2>8, <2>9 DEF Client
  <2>11. CachedWasSent'
    BY <2>7, <2>8 DEF CachedWasSent
  <2>12. /\ sends' = sends \ {s}
         /\ UNCHANGED <<tree, run, spent>>
    BY <1>10 DEF SendEnds, counters
  <2> QED BY <1>1, <2>10, <2>11, <2>12 DEF SenderInv
<1>11. ASSUME Resubscribe PROVE SenderInv'
  <2>1. client' = [cache |-> None, gen |-> client.gen + 1, buffer |-> client.buffer,
                   flushArmed |-> client.flushArmed, nextSeq |-> client.nextSeq,
                   done |-> client.done]
    BY <1>2, <1>11 DEF Resubscribe
  <2>2. None \in [Keys -> Metadata] /\ \A k \in Keys : None[k] = Unset
    BY DEF None, Metadata
  <2>3. client' \in Client
    BY <1>2, <2>1, <2>2 DEF Client
  <2>4. CachedWasSent'
    BY <2>1, <2>2 DEF CachedWasSent
  <2> QED BY <1>1, <1>11, <2>3, <2>4 DEF SenderInv, Resubscribe, counters
<1>12. ASSUME ClientRestarts PROVE SenderInv'
  <2>1. None \in [Keys -> Metadata] /\ \A k \in Keys : None[k] = Unset
    BY DEF None, Metadata
  <2>2. client' = [cache |-> None, gen |-> 0, buffer |-> << >>,
                   flushArmed |-> FALSE, nextSeq |-> 0, done |-> {}]
    BY <1>12 DEF ClientRestarts, NewClient
  <2>3. client' \in Client
    BY <1>3, <2>1, <2>2 DEF Client
  <2>4. CachedWasSent'
    BY <2>1, <2>2 DEF CachedWasSent
  <2>5. run' = run + 1 /\ spent' = spent + client.nextSeq /\ sends' = {} /\ tree' = tree
    BY <1>12 DEF ClientRestarts
  <2>6. run' \in Nat /\ spent' \in Nat
    BY <1>1, <1>2, <2>5
  <2> QED BY <1>1, <2>3, <2>4, <2>5, <2>6 DEF SenderInv
<1>13. ASSUME UNCHANGED senderVars PROVE SenderInv'
  BY <1>1, <1>13, SameCache DEF SenderInv, senderVars, counters
<1> QED
  BY <1>5, <1>6, <1>7, <1>8, <1>9, <1>10, <1>11, <1>12, <1>13
  DEF MetadataNext, ReceiveMetadata, ProcessMetaEnvelope, SessionEnds

(* A session that takes a chunk. *)
LEMMA ApplyFacts ==
  ASSUME NEW s \in GoodSession, NEW c \in Chunk
  PROVE  Apply(s, c) \in GoodSession
<1>1. /\ s.channel \in Channel /\ s.applied \subseteq Chunk /\ s.twice = FALSE
      /\ ChannelOK(s.channel) /\ AppliedOK(s.channel, s.applied)
      /\ Kept(s.channel.window, s.applied, {})
  BY DEF GoodSession
<1>2. c.seq \in Envelopes /\ c.idx \in Nat
  BY DEF Chunk
<1>3. PICK f : f = Filtered(s.channel, c.seq, c.idx)
  OBVIOUS
<1>4. PICK old : old = IF LooksRestarted(s.channel, c.seq) THEN {} ELSE s.applied
  OBVIOUS
<1>5. PICK now : now = IF f.apply THEN old \cup {c} ELSE old
  OBVIOUS
<1>6. /\ ChannelOK(f.channel) /\ AppliedOK(f.channel, now)
      /\ Kept(f.channel.window, now, {})
      /\ f.apply => c \notin old
  BY <1>1, <1>2, <1>3, <1>4, <1>5, FilterFacts
<1>7. Apply(s, c) = [channel |-> f.channel, applied |-> now,
                     twice |-> s.twice \/ (f.apply /\ c \in old)]
  BY <1>3, <1>4, <1>5 DEF Apply
<1>8. (s.twice \/ (f.apply /\ c \in old)) = FALSE
  BY <1>1, <1>6
<1>9. now \subseteq Chunk /\ f.channel \in Channel
  BY <1>1, <1>4, <1>5, <1>6 DEF ChannelOK
<1>10. Apply(s, c) = [channel |-> f.channel, applied |-> now, twice |-> FALSE]
  BY <1>7, <1>8
<1> QED BY <1>6, <1>9, <1>10 DEF GoodSession

(* A session just made. *)
LEMMA NewSessionFacts == NewSession \in GoodSession
<1>1. /\ ChannelOK(NewChannel) /\ AppliedOK(NewChannel, {})
      /\ Kept(NewChannel.window, {}, {})
  BY NewChannelFacts
<1> QED BY <1>1 DEF NewSession, GoodSession, ChannelOK

(* The network and the receiver. *)
LEMMA ReceiverStep ==
  ASSUME MetadataIInv, MetadataNext
  PROVE  ReceiverInv'
<1>1. /\ wire \subseteq Chunk /\ sessions \in Seq(GoodSession)
      /\ session \in 0 .. Len(sessions)
      /\ \A w \in parked : w.chunk \in wire /\ w.session \in 0 .. Len(sessions)
      /\ sends \subseteq SendCall /\ run \in Nat
  BY DEF MetadataIInv, SenderInv, ReceiverInv
<1>2. PICK n \in Nat : n = Len(sessions)
  BY <1>1, LenProperties
<1>3. ASSUME NEW s \in sends, SendChunk(s) PROVE ReceiverInv'
  <2>1. s.seq \in Envelopes /\ s.idx \in Nat
    BY <1>1 DEF SendCall
  <2>2. [run |-> run, seq |-> s.seq, idx |-> s.idx] \in Chunk
    BY <1>1, <2>1 DEF Chunk
  <2>3. wire' = wire \cup {[run |-> run, seq |-> s.seq, idx |-> s.idx]}
    BY <1>3 DEF SendChunk
  <2>4. sessions' = sessions /\ session' = session /\ parked' = parked
    BY <1>3 DEF SendChunk, receiverVars
  <2> QED BY <1>1, <2>2, <2>3, <2>4 DEF ReceiverInv
<1>4. ASSUME NEW c \in wire, ReceiveMetadata(c) PROVE ReceiverInv'
  <2>1. wire' = wire /\ sessions' = sessions /\ session' = session
    BY <1>4 DEF ReceiveMetadata
  <2>2. \A w \in parked' : w.chunk = c /\ w.session = session
    BY <1>4 DEF ReceiveMetadata
  <2> QED BY <1>1, <1>4, <2>1, <2>2 DEF ReceiverInv
<1>5. ASSUME NEW w \in parked, ProcessMetaEnvelope(w) PROVE ReceiverInv'
  <2>1. PICK s : s = IF w.session # 0 THEN w.session
                     ELSE IF session # 0 THEN session ELSE Len(sessions) + 1
    OBVIOUS
  <2>2. PICK all : all = IF s > Len(sessions) THEN Append(sessions, NewSession)
                         ELSE sessions
    OBVIOUS
  <2>3. /\ sessions' = [all EXCEPT ![s] = Apply(@, w.chunk)]
        /\ session' = IF w.session = 0 THEN s ELSE session
        /\ parked' = parked \ {w} /\ wire' = wire
    BY <1>5, <2>1, <2>2 DEF ProcessMetaEnvelope
  <2>4. w.chunk \in Chunk /\ w.session \in 0 .. n /\ session \in 0 .. n
    BY <1>1, <1>2
  <2>5. s \in 1 .. n + 1
    BY <1>2, <2>1, <2>4
  <2>6. \E m \in Nat : /\ all \in Seq(GoodSession) /\ Len(all) = m
                       /\ n <= m /\ s \in 1 .. m
    <3>1. CASE s > n
      <4>1. s = n + 1
        BY <2>5, <3>1
      <4>2. all = Append(sessions, NewSession)
        BY <1>2, <2>2, <3>1
      <4>3. all \in Seq(GoodSession) /\ Len(all) = n + 1
        BY <1>1, <1>2, <4>2, NewSessionFacts, AppendProperties
      <4> QED BY <4>1, <4>3
    <3>2. CASE ~ s > n
      <4>1. all = sessions /\ s \in 1 .. n
        BY <1>2, <2>2, <2>5, <3>2
      <4> QED BY <1>1, <1>2, <4>1
    <3> QED BY <3>1, <3>2
  <2>7. PICK m \in Nat : /\ all \in Seq(GoodSession) /\ Len(all) = m
                         /\ n <= m /\ s \in 1 .. m
    BY <2>6
  <2>8. all[s] \in GoodSession
    BY <2>7, ElementOfSeq
  <2>9. PICK new \in GoodSession : new = Apply(all[s], w.chunk)
    BY <2>4, <2>8, ApplyFacts
  <2>10. sessions' = [all EXCEPT ![s] = new]
    BY <2>3, <2>9
  <2>11. sessions' \in Seq(GoodSession) /\ Len(sessions') = m
    BY <2>7, <2>10, ExceptSeq
  <2>12. session' \in 0 .. m
    BY <2>3, <2>4, <2>7
  <2>13. \A v \in parked' : v.chunk \in wire /\ v.session \in 0 .. n
    BY <1>1, <1>2, <2>3
  <2>14. \A v \in parked' : v.chunk \in wire /\ v.session \in 0 .. m
    BY <2>7, <2>13
  <2> QED BY <1>1, <2>3, <2>11, <2>12, <2>14 DEF ReceiverInv
<1>6. ASSUME SessionEnds PROVE ReceiverInv'
  <2>1. session' = 0 /\ wire' = wire /\ sessions' = sessions /\ parked' = parked
    BY <1>6 DEF SessionEnds
  <2>2. 0 \in 0 .. n
    OBVIOUS
  <2> QED BY <1>1, <1>2, <2>1, <2>2 DEF ReceiverInv
<1>7. ASSUME UNCHANGED <<wire, receiverVars>> PROVE ReceiverInv'
  BY <1>1, <1>7 DEF ReceiverInv, receiverVars
<1> QED
  BY <1>3, <1>4, <1>5, <1>6, <1>7
  DEF MetadataNext, Change, SelfBecomesKnown, FlushMetaDiff, SendMetadataSnapshot,
      SendEnds, Resubscribe, ClientRestarts

(* The limits of a session, from the shape of its window. *)
LEMMA WindowLimits ==
  ASSUME NEW s \in GoodSession
  PROVE  /\ s.channel.last \in SeqNum \cup {NoSeq}
         /\ Len(s.channel.window) <= EnvelopeSeqWindow
         /\ Cardinality(WindowSeqs(s.channel)) = Len(s.channel.window)
         /\ TotalSeen(s.channel) <= MaxChunkIndices
<1>1. s.channel \in Channel /\ WindowOK(s.channel.window)
  BY DEF GoodSession, ChannelOK
<1>2. /\ s.channel.last \in SeqNum \cup {NoSeq}
      /\ TotalSeen(s.channel) = Cardinality(Pairs(s.channel.window))
      /\ Cardinality(WindowSeqs(s.channel)) = Len(s.channel.window)
  BY <1>1, ChannelFacts, WindowCount
<1> QED BY <1>1, <1>2 DEF WindowOK

(* The invariants the runs check follow. *)
LEMMA MetadataSound == MetadataIInv => MetadataInv /\ AppliedOnce
<1> SUFFICES ASSUME MetadataIInv PROVE MetadataInv /\ AppliedOnce
  OBVIOUS
<1>1. client \in Client /\ CachedWasSent /\ sessions \in Seq(GoodSession)
  BY DEF MetadataIInv, SenderInv, ReceiverInv
<1>2. \A i \in DOMAIN sessions : sessions[i] \in GoodSession
  BY <1>1, LenProperties, ElementOfSeq
<1>3. client.cache \in [Keys -> Metadata] /\ client.nextSeq \in 0 .. MaxEnvelopes
  BY <1>1, ClientFacts
<1>4. MetadataTypeOK
  BY <1>2, <1>3, WindowLimits DEF MetadataTypeOK
<1>5. AppliedOnce
  <2>1. \A i \in DOMAIN sessions : sessions[i].twice = FALSE
    BY <1>2 DEF GoodSession
  <2> QED BY <2>1 DEF AppliedOnce
<1> QED BY <1>1, <1>4, <1>5 DEF MetadataInv

(* Every state of the metadata channel, for any number of keys, sends,     *)
(* starts and sessions, has typed senders and good sessions.               *)
THEOREM MetadataSafe == MetadataSpec => []MetadataIInv
<1>1. MetadataIInv /\ [MetadataNext]_metadataVars => MetadataIInv'
  <2>1. ASSUME MetadataIInv, UNCHANGED metadataVars PROVE MetadataIInv'
    <3>1. SenderInv'
      BY <2>1, SameCache
      DEF MetadataIInv, SenderInv, metadataVars, senderVars, counters
    <3>2. ReceiverInv'
      BY <2>1 DEF MetadataIInv, ReceiverInv, metadataVars, receiverVars
    <3> QED BY <3>1, <3>2 DEF MetadataIInv
  <2> QED BY <2>1, SenderStep, ReceiverStep DEF MetadataIInv
<1> QED BY <1>1, MetadataInitInv, PTL DEF MetadataSpec

(* What the change cache holds was sent to the last chunk, and the window  *)
(* of a session (ENVELOPE_SEQ_WINDOW, MAX_ENVELOPE_CHUNK_INDICES) keeps    *)
(* its limits.                                                             *)
THEOREM CachedWereSent == MetadataSpec => []MetadataInv
<1>1. MetadataIInv => MetadataInv
  BY MetadataSound
<1> QED BY <1>1, MetadataSafe, PTL

(* shouldDropEnvelopeBySeq never lets a chunk through twice between two    *)
(* restarts it sees, whatever the network repeats or delays.               *)
THEOREM ChunksApplyOnce == MetadataSpec => []AppliedOnce
<1>1. MetadataIInv => AppliedOnce
  BY MetadataSound
<1> QED BY <1>1, MetadataSafe, PTL

(* A straggling chunk of an envelope that can still be in the window is    *)
(* never dropped as stale, as a duplicate or for the cap.                  *)
THEOREM StragglersAlwaysLand == MetadataSpec => StragglersLand
<1> DEFINE Lands ==
      \A w \in parked :
        LET s   == w.session
            c   == w.chunk
            old == sessions[s].applied
            newer == {d.seq : d \in {a \in old : a.seq > c.seq}}
        IN  (/\ s # 0 /\ w \notin parked'
             /\ c \notin old
             /\ \E d \in old : d.seq = c.seq /\ d.run = c.run
             /\ \A d \in old : d.run = c.run
             /\ Cardinality(newer) < EnvelopeSeqWindow
             /\ Cardinality(old) < MaxChunkIndices)
            => c \in sessions'[s].applied
<1>1. ASSUME MetadataIInv, MetadataNext PROVE Lands
  <2> SUFFICES
        ASSUME NEW w \in parked, w.session # 0, w \notin parked',
               w.chunk \notin sessions[w.session].applied,
               \E d \in sessions[w.session].applied :
                 d.seq = w.chunk.seq /\ d.run = w.chunk.run,
               \A d \in sessions[w.session].applied : d.run = w.chunk.run,
               Cardinality({d.seq : d \in {a \in sessions[w.session].applied :
                                             a.seq > w.chunk.seq}})
                 < EnvelopeSeqWindow,
               Cardinality(sessions[w.session].applied) < MaxChunkIndices
        PROVE  w.chunk \in sessions'[w.session].applied
    OBVIOUS
  <2>0. PICK s, c, old : /\ s = w.session /\ c = w.chunk
                         /\ old = sessions[w.session].applied
    OBVIOUS
  <2>13. /\ s # 0 /\ c \notin old
         /\ \A e \in old : e.run = c.run
         /\ Cardinality({e.seq : e \in {a \in old : a.seq > c.seq}})
              < EnvelopeSeqWindow
         /\ Cardinality(old) < MaxChunkIndices
    BY <2>0
  <2>14. PICK d \in old : d.seq = c.seq
    BY <2>0
  <2>1. ProcessMetaEnvelope(w)
    <3>1. parked' # parked /\ parked # {}
      OBVIOUS
    <3>2. ~ \E e \in wire : ReceiveMetadata(e)
      BY <3>1 DEF ReceiveMetadata
    <3>3. PICK v \in parked : ProcessMetaEnvelope(v)
      BY <1>1, <3>1, <3>2
      DEF MetadataNext, Change, SelfBecomesKnown, FlushMetaDiff,
          SendMetadataSnapshot, SendChunk, SendEnds, Resubscribe,
          ClientRestarts, SessionEnds, receiverVars
    <3>4. parked' = parked \ {v}
      BY <3>3 DEF ProcessMetaEnvelope
    <3> QED BY <3>3, <3>4
  <2>2. /\ sessions \in Seq(GoodSession) /\ c \in Chunk /\ s \in 0 .. Len(sessions)
    BY <1>1, <2>0 DEF MetadataIInv, ReceiverInv
  <2>3. PICK n \in Nat : n = Len(sessions) /\ DOMAIN sessions = 1 .. n
    BY <2>2, LenProperties
  <2>4. s \in 1 .. n /\ ~ s > n
    BY <2>2, <2>3, <2>13
  <2>5. sessions' = [sessions EXCEPT ![s] = Apply(@, c)]
    BY <2>0, <2>1, <2>3, <2>4, <2>13 DEF ProcessMetaEnvelope
  <2>6. sessions'[s] = Apply(sessions[s], c)
    BY <2>3, <2>4, <2>5
  <2>7. PICK x \in GoodSession : x = sessions[s]
    BY <2>2, <2>3, <2>4, ElementOfSeq
  <2>8. /\ ChannelOK(x.channel) /\ Kept(x.channel.window, old, {})
        /\ x.applied = old /\ old \subseteq Chunk
    BY <2>0, <2>7 DEF GoodSession
  <2>9. \A e \in old : ~ (e.seq = c.seq /\ e.idx = c.idx)
    <3>1. TAKE e \in old
    <3>2. /\ e = [run |-> e.run, seq |-> e.seq, idx |-> e.idx]
          /\ c = [run |-> c.run, seq |-> c.seq, idx |-> c.idx]
      BY <2>2, <2>8 DEF Chunk
    <3>3. e.run = c.run
      BY <2>13
    <3> QED BY <2>13, <3>2, <3>3
  <2>10. c.seq \in Envelopes /\ c.idx \in Nat
    BY <2>2 DEF Chunk
  <2>11. Filtered(x.channel, c.seq, c.idx).apply
    BY <2>8, <2>9, <2>10, <2>13, <2>14, StragglerApplied
  <2>12. c \in Apply(x, c).applied
    BY <2>11 DEF Apply
  <2> QED BY <2>0, <2>6, <2>7, <2>12
<1>2. MetadataIInv /\ [MetadataNext]_metadataVars => [Lands]_metadataVars
  BY <1>1
<1> QED BY <1>2, MetadataSafe, PTL DEF MetadataSpec, StragglersLand

=============================================================================
