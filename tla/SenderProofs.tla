---------------------------- MODULE SenderProofs ----------------------------
(***************************************************************************)
(* The two ends of what a client sends.  First the retransmit queue of     *)
(* ReliableSender, for every size of the sequence space, of the queue and  *)
(* of the budget, and any number of sends under way; then DeltaPipeline,   *)
(* from the tree of the vessel to the batches on their way, for every      *)
(* tree, every rule and every cap.                                         *)
(***************************************************************************)
EXTENDS ReliableSender, DeltaPipeline, SequenceProofs,
        FiniteSetTheorems, SequenceTheorems

(* The constants, and the numbers whose ages can be compared. *)
LEMMA Numbers ==
  /\ HalfSpace \in Nat /\ HalfSpace > 1 /\ SeqSpace = 2 * HalfSpace
  /\ MaxQueue \in Nat /\ MaxQueue > 0
  /\ MaxRetransmits \in Nat
  /\ MaxAhead \in Nat /\ MaxAhead > 0 /\ MaxAhead + 1 <= HalfSpace
BY HalfSpaceAssumption, SenderAssumption DEF SeqSpace

Recent(s) == Age(s) \in 1 .. MaxAhead + 1

(* Of two recent numbers the younger is ahead, by the difference in age. *)
LEMMA AgeOrder ==
  ASSUME nextSeq \in SeqNum, NEW s \in SeqNum, NEW t \in SeqNum,
         Recent(s), Recent(t)
  PROVE  /\ Age(s) \in Nat /\ Age(t) \in Nat
         /\ Age(s) <= Age(t) => Dist(t, s) = Age(t) - Age(s)
         /\ Age(s) > Age(t) => Dist(t, s) = (Age(t) - Age(s)) + SeqSpace
         /\ IsAhead(s, t) <=> Age(s) < Age(t)
BY Numbers DEF Age, Recent, IsAhead, Dist, SeqNum, SeqSpace

(* With the next number, every number but that one is older by one. *)
LEMMA AgeNext ==
  ASSUME nextSeq \in SeqNum, nextSeq' = Succ(nextSeq)
  PROVE  /\ nextSeq' \in SeqNum /\ Age(nextSeq) = 0
         /\ Dist(nextSeq, nextSeq') = 1
         /\ \A s \in SeqNum : Age(s) \in 1 .. MaxAhead
              => Dist(s, nextSeq') = Age(s) + 1
BY Numbers DEF Age, Succ, Plus, Dist, SeqNum, SeqSpace

(* All sets of numbers are finite. *)
LEMMA FiniteSet ==
  ASSUME NEW S, S \subseteq SeqNum
  PROVE  IsFiniteSet(S) /\ Cardinality(S) \in Nat
<1>1. IsFiniteSet(SeqNum)
  BY Numbers, FS_Interval DEF SeqNum
<1> QED BY <1>1, FS_Subset, FS_CardinalityType

-----------------------------------------------------------------------------
(* Oldest *)

LEMMA AgeInRange ==
  ASSUME nextSeq \in SeqNum, NEW s \in SeqNum
  PROVE  Age(s) \in Nat /\ Age(s) < SeqSpace
BY DistType, Numbers DEF Age, SeqNum

(* A queue that is not empty has an oldest packet. *)
LEMMA OldestExists ==
  ASSUME nextSeq \in SeqNum, NEW Q, Q \subseteq SeqNum, Q # {}
  PROVE  \E s \in Q : \A t \in Q : ~ Older(t, s)
<1> DEFINE T == {SeqSpace - Age(s) : s \in Q}
<1>1. T \subseteq Nat /\ T # {}
  BY AgeInRange, Numbers
<1>2. PICK x \in T : \A y \in T : x <= y
  BY <1>1, LeastElement
<1>3. PICK s \in Q : x = SeqSpace - Age(s)
  BY <1>2
<1>4. ASSUME NEW t \in Q
      PROVE  ~ Older(t, s)
  <2>1. SeqSpace - Age(s) <= SeqSpace - Age(t)
    BY <1>2, <1>3
  <2> QED BY <2>1, AgeInRange, Numbers DEF Older
<1> QED BY <1>4

(* Oldest(Q, 1) holds those with none older, and is not empty. *)
LEMMA OldestOne ==
  ASSUME nextSeq \in SeqNum, NEW Q, Q \subseteq SeqNum
  PROVE  /\ \A s : s \in Oldest(Q, 1) <=> s \in Q /\ \A t \in Q : ~ Older(t, s)
         /\ Q # {} => Oldest(Q, 1) # {}
<1>1. ASSUME NEW s \in Q
      PROVE  s \in Oldest(Q, 1) <=> \A t \in Q : ~ Older(t, s)
  <2> DEFINE T == {t \in Q : Older(t, s)}
  <2>1. IsFiniteSet(T) /\ Cardinality(T) \in Nat
    BY FiniteSet
  <2>2. Cardinality(T) < 1 <=> T = {}
    BY <2>1, FS_EmptySet
  <2> QED BY <2>2 DEF Oldest
<1>2. \A s \in Oldest(Q, 1) : s \in Q
  BY DEF Oldest
<1> QED BY <1>1, <1>2, OldestExists

(* Whoever is older than one of the n oldest is one of them. *)
LEMMA OldestClosed ==
  ASSUME nextSeq \in SeqNum, NEW Q, Q \subseteq SeqNum, NEW n \in Nat,
         NEW s \in Oldest(Q, n), NEW t \in Q, Older(t, s)
  PROVE  t \in Oldest(Q, n)
<1> DEFINE S == {u \in Q : Older(u, s)}
           T == {u \in Q : Older(u, t)}
<1>1. s \in Q /\ Cardinality(S) < n
  BY DEF Oldest
<1>2. T \subseteq S
  BY <1>1, AgeInRange DEF Older
<1>3. /\ IsFiniteSet(S) /\ Cardinality(S) \in Nat
      /\ Cardinality(T) \in Nat /\ Cardinality(T) <= Cardinality(S)
  BY <1>2, FiniteSet, FS_Subset
<1> QED BY <1>1, <1>3 DEF Oldest

(* add never lets the queue grow beyond its size. *)
LEMMA EvictionMakesRoom ==
  ASSUME nextSeq \in SeqNum, NEW Q, Q \subseteq SeqNum,
         Cardinality(Q) <= MaxQueue
  PROVE  /\ EvictIfFull(Q) \subseteq Q
         /\ Cardinality(EvictIfFull(Q)) \in Nat
         /\ Cardinality(EvictIfFull(Q)) < MaxQueue
<1>1. IsFiniteSet(Q) /\ Cardinality(Q) \in Nat
  BY FiniteSet
<1>2. CASE Cardinality(Q) < MaxQueue
  BY <1>1, <1>2, Numbers DEF EvictIfFull
<1>3. CASE Cardinality(Q) >= MaxQueue
  <2>1. Q # {}
    BY <1>3, FS_EmptySet, Numbers
  <2>2. PICK s \in Q : s \in Oldest(Q, 1)
    BY <2>1, OldestOne
  <2>3. Q \ Oldest(Q, 1) \subseteq Q \ {s}
    BY <2>2
  <2>4. IsFiniteSet(Q \ {s}) /\ Cardinality(Q \ {s}) = Cardinality(Q) - 1
    BY <1>1, FS_RemoveElement
  <2>5. /\ Cardinality(Q \ Oldest(Q, 1)) \in Nat
        /\ Cardinality(Q \ Oldest(Q, 1)) <= Cardinality(Q) - 1
    BY <2>3, <2>4, FS_Subset, FS_CardinalityType
  <2>6. EvictIfFull(Q) = Q \ Oldest(Q, 1)
    BY <1>3 DEF EvictIfFull
  <2> QED BY <1>1, <2>5, <2>6, Numbers
<1> QED BY <1>1, <1>2, <1>3, Numbers

-----------------------------------------------------------------------------
(* SenderInv, its types apart. *)
Counters ==
  /\ attempts \in [SeqNum -> 0 .. MaxRetransmits]
  /\ nakSends \in [SeqNum -> Nat]
  /\ wire \in [SeqNum -> Nat]
  /\ WithinBudget
  /\ \A s \in SeqNum : nakSends[s] <= attempts[s]

Numbered ==
  /\ nextSeq \in SeqNum /\ used \in 0 .. MaxAhead + 1
  /\ queued \subseteq SeqNum /\ sending \subseteq SeqNum
  /\ burstSends \subseteq SeqNum /\ burstTimer \in BOOLEAN
  /\ lastAckedSeq \in SeqNum \cup {NoSeq}

Ages == \A s \in InUse : Recent(s)

Parts == Counters /\ Numbered /\ Ages /\ AckedNeverQueued /\ QueueBounded

(* Within the budget the counters are bounded. *)
LEMMA BudgetBounds ==
  ASSUME Counters
  PROVE  /\ nakSends \in [SeqNum -> 0 .. MaxRetransmits]
         /\ wire \in [SeqNum -> 0 .. MaxRetransmits + 1]
<1>1. \A s \in SeqNum : /\ nakSends[s] \in 0 .. MaxRetransmits
                        /\ wire[s] \in 0 .. MaxRetransmits + 1
  <2> TAKE s \in SeqNum
  <2>1. /\ nakSends[s] \in Nat /\ wire[s] \in Nat
        /\ attempts[s] \in Nat /\ attempts[s] <= MaxRetransmits
        /\ wire[s] + Underway(s) <= 1 + attempts[s]
        /\ nakSends[s] <= attempts[s]
    BY Numbers DEF Counters, WithinBudget
  <2>2. Underway(s) \in Nat
    BY <2>1 DEF Underway
  <2> QED BY <2>1, <2>2, Numbers
<1> QED BY <1>1 DEF Counters

(* The parts are the invariant. *)
LEMMA ByParts == SenderInv <=> Parts
<1>1. SenderInv => Parts
  BY Numbers DEF SenderInv, Parts, Counters, Numbered, Ages, Recent, TypeOK
<1>2. Parts => SenderInv
  BY BudgetBounds
  DEF SenderInv, Parts, Counters, Numbered, Ages, Recent, TypeOK
<1> QED BY <1>1, <1>2

(* They hold of a new pipeline. *)
LEMMA Start == Init => Parts
<1> SUFFICES ASSUME Init PROVE Parts
  OBVIOUS
<1>1. Counters
  BY Numbers DEF Init, Counters, WithinBudget, Underway
<1>2. Numbered
  <2>1. 0 \in 0 .. MaxAhead + 1
    BY Numbers
  <2> QED BY <2>1, Zenon DEF Init, Numbered
<1>3. InUse = {}
  BY DEF Init, InUse
<1>4. QueueBounded
  BY FS_EmptySet, Numbers DEF Init, QueueBounded
<1> QED BY <1>1, <1>2, <1>3, <1>4 DEF Parts, Ages, AckedNeverQueued, Init

(* A step that takes no number, and brings in use at most the number of    *)
(* its ACK.                                                                *)
LEMMA KeepPreserves ==
  ASSUME Parts, UNCHANGED <<nextSeq, used>>,
         queued' \subseteq queued, sending' \subseteq sending,
         burstSends' \subseteq InUse, burstTimer' \in BOOLEAN, Counters',
         \A s \in SeqNum : nakSends'[s] > 0 => s \in InUse,
         lastAckedSeq' \in SeqNum \cup {NoSeq},
         lastAckedSeq' # NoSeq => Recent(lastAckedSeq'),
         AckedNeverQueued'
  PROVE  Parts'
<1>1. InUse \subseteq SeqNum
  BY DEF Parts, Numbered, InUse
<1>2. Numbered'
  BY <1>1 DEF Parts, Numbered
<1>3. InUse' \subseteq InUse \cup ({lastAckedSeq'} \ {NoSeq})
  BY DEF InUse
<1>4. Ages'
  BY <1>3 DEF Parts, Ages, Recent, Age
<1>5. QueueBounded'
  <2>1. IsFiniteSet(queued) /\ Cardinality(queued) \in Nat
    BY FiniteSet DEF Parts, Numbered
  <2>2. /\ Cardinality(queued') \in Nat
        /\ Cardinality(queued') <= Cardinality(queued)
    BY <2>1, FS_Subset, FS_CardinalityType
  <2> QED BY <2>1, <2>2, Numbers DEF Parts, QueueBounded
<1> QED BY <1>2, <1>4, <1>5 DEF Parts

(* A step that sends and removes, but takes no number and no ACK. *)
LEMMA ShrinkPreserves ==
  ASSUME Parts, UNCHANGED <<nextSeq, used, lastAckedSeq>>,
         queued' \subseteq queued, sending' \subseteq sending,
         burstSends' \subseteq InUse, burstTimer' \in BOOLEAN, Counters',
         \A s \in SeqNum : nakSends'[s] > 0 => s \in InUse
  PROVE  Parts'
<1>1. AckedNeverQueued'
  BY DEF Parts, AckedNeverQueued
<1>2. lastAckedSeq # NoSeq => Recent(lastAckedSeq)
  BY DEF Parts, Ages, InUse
<1> QED BY <1>1, <1>2, KeepPreserves DEF Parts, Numbered

(* The pruning by age only removes, and the oldest first. *)
LEMMA PrunedRemoves ==
  ASSUME Parts, NEW Q1, Pruned(queued, Q1)
  PROVE  Q1 \subseteq queued
BY DEF Pruned

(* Sends and failures: the counters of one number, or of several. *)
LEMMA CountersDrop ==
  ASSUME Counters, attempts' = attempts,
         nakSends' \in [SeqNum -> Nat], wire' \in [SeqNum -> Nat],
         \A s \in SeqNum : /\ nakSends'[s] <= nakSends[s]
                           /\ wire'[s] + Underway(s)' <= wire[s] + Underway(s)
  PROVE  Counters'
<1> SUFFICES ASSUME NEW s \in SeqNum
             PROVE  /\ wire'[s] + Underway(s)' <= 1 + attempts[s]
                    /\ nakSends'[s] <= attempts[s]
  BY DEF Counters, WithinBudget
<1>1. /\ attempts[s] \in Nat /\ nakSends[s] \in Nat /\ wire[s] \in Nat
      /\ nakSends'[s] \in Nat /\ wire'[s] \in Nat
      /\ wire[s] + Underway(s) <= 1 + attempts[s] /\ nakSends[s] <= attempts[s]
  BY Numbers DEF Counters, WithinBudget
<1>2. Underway(s) \in Nat /\ Underway(s)' \in Nat
  BY <1>1 DEF Underway
<1> QED BY <1>1, <1>2

(* A first send that worked. *)
LEMMA SendDonePreserves ==
  ASSUME Parts, SendDone
  PROVE  Parts'
<1>1. PICK s \in sending : /\ wire' = [wire EXCEPT ![s] = @ + 1]
                           /\ sending' = sending \ {s}
  BY DEF SendDone
<1>2. Counters'
  <2>1. wire' \in [SeqNum -> Nat] /\ s \in SeqNum
    BY <1>1 DEF Parts, Counters, Numbered
  <2>2. ASSUME NEW t \in SeqNum
        PROVE  wire'[t] + Underway(t)' <= wire[t] + Underway(t)
    BY <1>1, <2>1 DEF SendDone, burstVars, Underway, Parts, Counters
  <2> QED
    BY <2>1, <2>2, CountersDrop DEF SendDone, Parts, Counters
<1> QED
  BY <1>1, <1>2, PrunedRemoves, ShrinkPreserves
  DEF SendDone, burstVars, InUse, Parts, Numbered

(* A first send that threw. *)
LEMMA SendFailedPreserves ==
  ASSUME Parts, SendFailed
  PROVE  Parts'
<1>1. PICK s \in sending : sending' = sending \ {s}
  BY DEF SendFailed
<1>2. Counters'
  <2>2. ASSUME NEW t \in SeqNum
        PROVE  wire'[t] + Underway(t)' <= wire[t] + Underway(t)
    BY <1>1 DEF SendFailed, burstVars, Underway, Parts, Counters
  <2> QED
    BY <2>2, CountersDrop DEF SendFailed, queueVars, Parts, Counters
<1> QED
  BY <1>1, <1>2, ShrinkPreserves
  DEF SendFailed, queueVars, burstVars, InUse, Parts, Numbered

(* A send of a NAK handler. *)
LEMMA NAKSendPreserves ==
  ASSUME Parts, NEW s \in SeqNum, NAKSend(s)
  PROVE  Parts'
<1>1. /\ nakSends' = [nakSends EXCEPT ![s] = nakSends[s] - 1]
      /\ wire' = [wire EXCEPT ![s] = wire[s] + 1]
      /\ nakSends \in [SeqNum -> Nat] /\ wire \in [SeqNum -> Nat]
      /\ nakSends[s] > 0
  BY DEF NAKSend, Parts, Counters
<1>2. nakSends' \in [SeqNum -> Nat] /\ wire' \in [SeqNum -> Nat]
  BY <1>1
<1>3. ASSUME NEW t \in SeqNum
      PROVE  /\ nakSends'[t] <= nakSends[t]
             /\ wire'[t] + Underway(t)' <= wire[t] + Underway(t)
  BY <1>1 DEF NAKSend, burstVars, Underway
<1>4. Counters'
  BY <1>2, <1>3, CountersDrop DEF NAKSend, queueVars, Parts
<1>5. \A t \in SeqNum : nakSends'[t] > 0 => t \in InUse
  BY <1>1, <1>2, <1>3 DEF InUse
<1> QED
  BY <1>4, <1>5, ShrinkPreserves
  DEF NAKSend, queueVars, burstVars, InUse, Parts, Numbered

(* A NAK handler that gives up the rest of its packets. *)
LEMMA NAKSendFailsPreserves ==
  ASSUME Parts, NEW S \in SUBSET SeqNum, NAKSendFails(S)
  PROVE  Parts'
<1>1. /\ nakSends' = [s \in SeqNum |->
                        IF s \in S THEN nakSends[s] - 1 ELSE nakSends[s]]
      /\ nakSends \in [SeqNum -> Nat] /\ wire \in [SeqNum -> Nat]
      /\ \A s \in S : nakSends[s] > 0
  BY DEF NAKSendFails, Parts, Counters
<1>2. nakSends' \in [SeqNum -> Nat]
  BY <1>1
<1>3. ASSUME NEW t \in SeqNum
      PROVE  /\ nakSends'[t] <= nakSends[t]
             /\ wire'[t] + Underway(t)' <= wire[t] + Underway(t)
  BY <1>1 DEF NAKSendFails, burstVars, Underway
<1>4. Counters'
  BY <1>1, <1>2, <1>3, CountersDrop DEF NAKSendFails, queueVars, Parts
<1>5. \A t \in SeqNum : nakSends'[t] > 0 => t \in InUse
  BY <1>1, <1>2, <1>3 DEF InUse
<1> QED
  BY <1>4, <1>5, ShrinkPreserves
  DEF NAKSendFails, queueVars, burstVars, InUse, Parts, Numbered

(* A send of the burst. *)
LEMMA BurstSendPreserves ==
  ASSUME Parts, BurstSend
  PROVE  Parts'
<1>1. PICK s \in burstSends : /\ burstSends' = burstSends \ {s}
                              /\ wire' = [wire EXCEPT ![s] = wire[s] + 1]
  BY DEF BurstSend, Oldest
<1>2. s \in SeqNum /\ wire \in [SeqNum -> Nat] /\ nakSends \in [SeqNum -> Nat]
  BY DEF Parts, Numbered, Counters
<1>3. wire' \in [SeqNum -> Nat]
  BY <1>1, <1>2
<1>4. ASSUME NEW t \in SeqNum
      PROVE  wire'[t] + Underway(t)' <= wire[t] + Underway(t)
  BY <1>1, <1>2 DEF BurstSend, Underway
<1>5. Counters'
  BY <1>2, <1>3, <1>4, CountersDrop DEF BurstSend, queueVars, Parts
<1> QED
  BY <1>1, <1>5, ShrinkPreserves
  DEF BurstSend, queueVars, InUse, Parts, Numbered

(* A burst that stops. *)
LEMMA BurstFailsPreserves ==
  ASSUME Parts, BurstFails
  PROVE  Parts'
<1>1. /\ wire \in [SeqNum -> Nat] /\ nakSends \in [SeqNum -> Nat]
      /\ burstSends' = {}
  BY DEF BurstFails, Parts, Numbered, Counters
<1>2. ASSUME NEW t \in SeqNum
      PROVE  wire'[t] + Underway(t)' <= wire[t] + Underway(t)
  BY <1>1 DEF BurstFails, Underway
<1>3. Counters'
  BY <1>1, <1>2, CountersDrop DEF BurstFails, queueVars, Parts
<1> QED
  BY <1>1, <1>3, ShrinkPreserves
  DEF BurstFails, queueVars, InUse, Parts, Numbered

(* Charging the packets of S, none of them spent, pays for one more send   *)
(* of each.                                                                *)
LEMMA ChargePays ==
  ASSUME Counters, NEW S, S \subseteq SeqNum,
         \A s \in S : ~ (attempts[s] >= MaxRetransmits),
         attempts' = Charge(S),
         nakSends' \in [SeqNum -> Nat], wire' = wire,
         \A s \in SeqNum :
           /\ Underway(s)' <= Underway(s) + IF s \in S THEN 1 ELSE 0
           /\ nakSends'[s] <= nakSends[s] + IF s \in S THEN 1 ELSE 0
  PROVE  Counters'
<1>1. \A s \in SeqNum :
        /\ attempts[s] \in 0 .. MaxRetransmits /\ attempts[s] \in Nat
        /\ nakSends[s] \in Nat /\ wire[s] \in Nat /\ nakSends'[s] \in Nat
        /\ wire[s] + Underway(s) <= 1 + attempts[s]
        /\ nakSends[s] <= attempts[s]
  BY Numbers DEF Counters, WithinBudget
<1>2. \A s \in SeqNum : Underway(s) \in Nat /\ Underway(s)' \in Nat
  BY <1>1 DEF Underway
<1>3. \A s \in SeqNum :
        attempts'[s] = IF s \in S THEN attempts[s] + 1 ELSE attempts[s]
  BY DEF Charge
<1>4. attempts' \in [SeqNum -> 0 .. MaxRetransmits]
  <2>1. ASSUME NEW s \in SeqNum
        PROVE  (IF s \in S THEN attempts[s] + 1 ELSE attempts[s])
                 \in 0 .. MaxRetransmits
    BY <1>1, Numbers
  <2> QED BY <2>1 DEF Charge
<1>5. ASSUME NEW s \in SeqNum
      PROVE  /\ wire'[s] + Underway(s)' <= 1 + attempts'[s]
             /\ nakSends'[s] <= attempts'[s]
  BY <1>1, <1>2, <1>3
<1> QED BY <1>4, <1>5 DEF Counters, WithinBudget

(* A burst charges for what it will send, and removes only what is spent. *)
LEMMA RunBurstPays ==
  ASSUME Parts, ~ recoveryDrainInFlight, NEW Q, Q \subseteq queued,
         NEW recent, NEW hasSocket \in BOOLEAN, RunBurst(Q, recent, hasSocket),
         UNCHANGED <<sending, nakSends, wire>>
  PROVE  /\ Counters' /\ burstTimer' \in BOOLEAN
         /\ queued' \subseteq Q /\ burstSends' \subseteq Q
         /\ \A s \in Q \ queued' : attempts[s] >= MaxRetransmits
<1> DEFINE chosen == Oldest(Q \ recent, BurstSize)
           toSend == chosen \ Spent(chosen)
<1>0. /\ chosen \subseteq Q /\ Q \subseteq SeqNum /\ burstSends = {}
      /\ Counters
  BY DEF Oldest, Parts, Numbered, recoveryDrainInFlight
<1>1. CASE chosen = {} \/ ~ hasSocket
  <2>1. /\ burstTimer' = FALSE /\ queued' = Q
        /\ UNCHANGED <<attempts, burstSends>>
    BY <1>1 DEF RunBurst
  <2>2. Counters'
    BY <1>0, <2>1 DEF Counters, WithinBudget, Underway
  <2> QED BY <1>0, <2>1, <2>2
<1>2. CASE ~ (chosen = {} \/ ~ hasSocket)
  <2>1. /\ burstTimer' = TRUE /\ queued' = DropSpent(Q, chosen)
        /\ attempts' = Charge(toSend) /\ burstSends' = toSend
    BY <1>2 DEF RunBurst
  <2>2. /\ toSend \subseteq SeqNum
        /\ \A s \in toSend : ~ (attempts[s] >= MaxRetransmits)
    BY <1>0 DEF Spent
  <2> HIDE DEF toSend
  <2>3. \A s \in SeqNum :
          /\ Underway(s)' <= Underway(s) + IF s \in toSend THEN 1 ELSE 0
          /\ nakSends'[s] <= nakSends[s] + IF s \in toSend THEN 1 ELSE 0
    BY <1>0, <2>1 DEF Underway, Counters
  <2>4. Counters'
    BY <1>0, <2>1, <2>2, <2>3, ChargePays DEF Counters
  <2>5. queued' = Q \ Spent(chosen)
    BY <2>1 DEF DropSpent
  <2> QED BY <1>0, <2>1, <2>4, <2>5 DEF Spent, toSend
<1> QED BY <1>1, <1>2

(* A tick of the burst timer removes spent packets only. *)
LEMMA BurstTimerPreserves ==
  ASSUME Parts, NEW recent, NEW hasSocket \in BOOLEAN,
         BurstTimer(recent, hasSocket)
  PROVE  /\ Parts'
         /\ \A s \in queued \ queued' : attempts[s] >= MaxRetransmits
<1>1. /\ Counters' /\ burstTimer' \in BOOLEAN
      /\ queued' \subseteq queued /\ burstSends' \subseteq queued
      /\ \A s \in queued \ queued' : attempts[s] >= MaxRetransmits
  BY RunBurstPays DEF BurstTimer
<1> QED
  BY <1>1, ShrinkPreserves DEF BurstTimer, InUse, Parts, Counters

(* A NAK removes spent packets only, and charges for the others. *)
LEMMA ReceiveNAKPreserves ==
  ASSUME Parts, NEW S \in SUBSET queued, ReceiveNAK(S)
  PROVE  /\ Parts'
         /\ \A s \in queued \ queued' : attempts[s] >= MaxRetransmits
<1> DEFINE wanted == S \cap queued
           toSend == wanted \ Spent(wanted)
<1>1. /\ toSend \subseteq SeqNum /\ toSend \subseteq queued
      /\ \A s \in toSend : ~ (attempts[s] >= MaxRetransmits)
  BY DEF Spent, Parts, Numbered
<1>2. /\ queued' = queued \ Spent(wanted) /\ attempts' = Charge(toSend)
      /\ nakSends' = [s \in SeqNum |->
                        IF s \in toSend THEN nakSends[s] + 1 ELSE nakSends[s]]
  BY DEF ReceiveNAK, DropSpent
<1> HIDE DEF toSend
<1>3. nakSends \in [SeqNum -> Nat] /\ wire \in [SeqNum -> Nat]
  BY DEF Parts, Counters
<1>4. nakSends' \in [SeqNum -> Nat]
  BY <1>2, <1>3
<1>5. \A s \in SeqNum :
        /\ Underway(s)' <= Underway(s) + IF s \in toSend THEN 1 ELSE 0
        /\ nakSends'[s] <= nakSends[s] + IF s \in toSend THEN 1 ELSE 0
  <2> SUFFICES ASSUME NEW s \in SeqNum
               PROVE  /\ Underway(s)' <= Underway(s) + IF s \in toSend THEN 1 ELSE 0
                      /\ nakSends'[s] <= nakSends[s] + IF s \in toSend THEN 1 ELSE 0
    OBVIOUS
  <2>1. sending' = sending /\ burstSends' = burstSends
    BY DEF ReceiveNAK, burstVars
  <2>2. /\ nakSends[s] \in Nat
        /\ nakSends'[s] = IF s \in toSend THEN nakSends[s] + 1 ELSE nakSends[s]
    BY <1>2, <1>3
  <2>3. CASE s \in toSend
    BY <2>1, <2>2, <2>3 DEF Underway
  <2>4. CASE s \notin toSend
    BY <2>1, <2>2, <2>4 DEF Underway
  <2> QED BY <2>3, <2>4
<1>6. Counters'
  BY <1>1, <1>2, <1>4, <1>5, ChargePays DEF Parts, ReceiveNAK
<1>7. \A s \in SeqNum : nakSends'[s] > 0 => s \in InUse
  BY <1>1, <1>2 DEF InUse
<1>8. \A s \in queued \ queued' : attempts[s] >= MaxRetransmits
  BY <1>2 DEF Spent
<1> QED
  BY <1>2, <1>6, <1>7, <1>8, ShrinkPreserves
  DEF ReceiveNAK, burstVars, InUse, Parts, Numbered

(* The metrics prune the queue, or stop the burst timer. *)
LEMMA HousekeepingPreserves ==
  ASSUME Parts, PublishMetrics \/ StopMetricsPublishing
  PROVE  Parts'
<1>1. /\ UNCHANGED <<nextSeq, used, attempts, lastAckedSeq, sending, nakSends,
                     wire, burstSends>>
      /\ queued' \subseteq queued /\ burstTimer' \in BOOLEAN
  BY PrunedRemoves
  DEF PublishMetrics, StopMetricsPublishing, queueVars, burstVars, Parts,
      Numbered
<1>2. Counters'
  BY <1>1 DEF Parts, Counters, WithinBudget, Underway
<1>3. \A s \in SeqNum : nakSends'[s] > 0 => s \in InUse
  BY <1>1 DEF InUse
<1> QED BY <1>1, <1>2, <1>3, ShrinkPreserves DEF InUse, Parts, Numbered

-----------------------------------------------------------------------------
(* Acknowledgements *)

LEMMA SeqNumIsNotNull == NoSeq \notin SeqNum
BY Numbers DEF NoSeq, SeqNum

(* Of the queue, a cumulative ACK removes what is not ahead of it, or of   *)
(* the acknowledgement it does not advance, and nothing else.              *)
LEMMA AckRemovesExactly ==
  ASSUME Parts, NEW a \in SeqNum, Recent(a)
  PROVE  LET new == IF lastAckedSeq = NoSeq \/ IsAhead(a, lastAckedSeq)
                    THEN a ELSE lastAckedSeq
         IN  \A s \in queued :
               s \in Acknowledged(queued, a) <=> ~ IsAhead(s, new)
<1>1. /\ nextSeq \in SeqNum /\ queued \subseteq SeqNum
      /\ \A s \in queued : Recent(s)
      /\ lastAckedSeq # NoSeq
           => lastAckedSeq \in SeqNum /\ Recent(lastAckedSeq)
  BY DEF Parts, Numbered, Ages, InUse
<1>2. \A s \in queued : Age(s) \in Nat /\ Age(s) <= MaxAhead + 1 /\ Age(s) > 0
  BY <1>1, Numbers DEF Recent
<1>3. Age(a) \in Nat /\ Age(a) <= MaxAhead + 1 /\ Age(a) > 0
  BY Numbers DEF Recent
<1> SUFFICES ASSUME NEW s \in queued
             PROVE  LET new == IF \/ lastAckedSeq = NoSeq
                                  \/ IsAhead(a, lastAckedSeq)
                               THEN a ELSE lastAckedSeq
                    IN  s \in Acknowledged(queued, a) <=> ~ IsAhead(s, new)
  OBVIOUS
<1>4. CASE lastAckedSeq = NoSeq
  <2> DEFINE ref == CHOOSE r \in queued : r \in Oldest(queued, 1)
  <2>1. ref \in queued /\ \A t \in queued : ~ Older(t, ref)
    <3>1. \E r \in queued : r \in Oldest(queued, 1)
      BY <1>1, OldestOne
    <3>2. ref \in queued /\ ref \in Oldest(queued, 1)
      BY <3>1
    <3> HIDE DEF ref
    <3> QED BY <1>1, <3>2, OldestOne
  <2>2. s \in Acknowledged(queued, a) <=>
          /\ ~ (Dist(ref, a) >= HalfSpace)
          /\ Dist(ref, s) \in 0 .. Dist(ref, a)
    BY <1>4 DEF Acknowledged
  <2> HIDE DEF ref
  <2>3. Age(s) <= Age(ref)
    BY <1>2, <2>1 DEF Older
  <2>4. Dist(ref, s) = Age(ref) - Age(s)
    BY <1>1, <2>1, <2>3, AgeOrder
  <2>5. /\ Age(a) <= Age(ref) => Dist(ref, a) = Age(ref) - Age(a)
        /\ Age(a) > Age(ref) => Dist(ref, a) = (Age(ref) - Age(a)) + SeqSpace
    BY <1>1, <2>1, AgeOrder
  <2>6. IsAhead(s, a) <=> Age(s) < Age(a)
    BY <1>1, AgeOrder
  <2>7. s \in Acknowledged(queued, a) <=> Age(s) >= Age(a)
    BY <1>2, <1>3, <2>1, <2>2, <2>3, <2>4, <2>5, Numbers
  <2> QED BY <1>2, <1>3, <1>4, <2>6, <2>7
<1>5. CASE lastAckedSeq # NoSeq
  <2> DEFINE ref == lastAckedSeq
  <2>1. ref \in SeqNum /\ Recent(ref)
    BY <1>1, <1>5
  <2>2. s \in Acknowledged(queued, a) <=>
          /\ ~ (Dist(ref, a) >= HalfSpace)
          /\ Dist(ref, s) \in 1 .. Dist(ref, a)
    BY <1>5 DEF Acknowledged
  <2>3. IsAhead(s, ref)
    BY <1>5 DEF Parts, AckedNeverQueued
  <2> HIDE DEF ref
  <2>4. /\ Age(ref) \in Nat /\ Age(ref) <= MaxAhead + 1 /\ Age(ref) > 0
        /\ Age(s) < Age(ref)
    BY <1>1, <2>1, <2>3, AgeOrder, Numbers DEF Recent
  <2>5. Dist(ref, s) = Age(ref) - Age(s)
    BY <1>1, <1>2, <2>1, <2>4, AgeOrder
  <2>6. /\ Age(a) <= Age(ref) => Dist(ref, a) = Age(ref) - Age(a)
        /\ Age(a) > Age(ref) => Dist(ref, a) = (Age(ref) - Age(a)) + SeqSpace
        /\ IsAhead(a, ref) <=> Age(a) < Age(ref)
    BY <1>1, <2>1, AgeOrder
  <2>7. IsAhead(s, a) <=> Age(s) < Age(a)
    BY <1>1, AgeOrder
  <2>8. CASE Age(a) < Age(ref)
    <3>1. s \in Acknowledged(queued, a) <=> Age(s) >= Age(a)
      BY <1>2, <1>3, <2>2, <2>4, <2>5, <2>6, <2>8, Numbers
    <3> QED BY <1>2, <1>3, <2>6, <2>7, <2>8, <3>1 DEF ref
  <2>9. CASE Age(a) >= Age(ref)
    <3>1. s \notin Acknowledged(queued, a)
      BY <1>2, <1>3, <2>2, <2>4, <2>5, <2>6, <2>9, Numbers
    <3>2. ~ IsAhead(a, lastAckedSeq)
      BY <1>3, <2>4, <2>6, <2>9 DEF ref
    <3> QED BY <1>5, <2>3, <3>1, <3>2 DEF ref
  <2> QED BY <1>3, <2>4, <2>8, <2>9
<1> QED BY <1>4, <1>5

(* What an ACK, the pruning and the burst it may start leave of the queue. *)
LEMMA ReceiveACKSteps ==
  ASSUME Parts, NEW a \in SeqNum, NEW afterGap \in BOOLEAN, NEW recent,
         ReceiveACK(a, afterGap, recent)
  PROVE  /\ lastAckedSeq' = IF lastAckedSeq = NoSeq \/ IsAhead(a, lastAckedSeq)
                            THEN a ELSE lastAckedSeq
         /\ Counters' /\ burstTimer' \in BOOLEAN /\ Recent(a)
         /\ burstSends' \subseteq queued \cup burstSends
         /\ \E n \in Nat :
              LET kept == queued \ Acknowledged(queued, a)
                  Q == kept \ Oldest(kept, n)
              IN  /\ queued' \subseteq Q
                  /\ \A s \in Q \ queued' : attempts[s] >= MaxRetransmits
<1> DEFINE kept == queued \ Acknowledged(queued, a)
<1>1. kept \subseteq queued /\ Cardinality(kept) \in Nat
  BY FiniteSet DEF Parts, Numbered
<1>2. Recent(a)
  BY Numbers DEF ReceiveACK, Recent, Parts, Numbered
<1>3. PICK n \in 0 .. Cardinality(kept) :
        LET Q == kept \ Oldest(kept, n) IN
        IF ~ afterGap \/ Q = {}
        THEN queued' = Q /\ UNCHANGED <<attempts, burstVars>>
        ELSE IF recoveryDrainInFlight
        THEN /\ queued' = Q
             /\ burstTimer' = TRUE
             /\ UNCHANGED <<attempts, burstSends>>
        ELSE \E hasSocket \in BOOLEAN : RunBurst(Q, recent, hasSocket)
  BY Zenon DEF ReceiveACK
<1> DEFINE Q == kept \ Oldest(kept, n)
<1>4. UNCHANGED <<sending, nakSends, wire>>
  BY DEF ReceiveACK
<1>5. Q \subseteq queued /\ n \in Nat
  BY <1>1
<1> HIDE DEF kept
<1>6. CASE queued' = Q /\ UNCHANGED <<attempts, burstSends>>
           /\ burstTimer' \in BOOLEAN
  <2>1. Counters'
    BY <1>4, <1>6 DEF Parts, Counters, WithinBudget, Underway
  <2> QED BY <1>2, <1>5, <1>6, <2>1 DEF kept, ReceiveACK
<1>7. CASE ~ recoveryDrainInFlight
           /\ \E hasSocket \in BOOLEAN : RunBurst(Q, recent, hasSocket)
  <2>1. /\ Counters' /\ burstTimer' \in BOOLEAN
        /\ queued' \subseteq Q /\ burstSends' \subseteq Q
        /\ \A s \in Q \ queued' : attempts[s] >= MaxRetransmits
    BY <1>4, <1>5, <1>7, RunBurstPays
  <2> QED BY <1>2, <1>5, <2>1 DEF kept, ReceiveACK
<1> QED BY <1>3, <1>6, <1>7 DEF burstVars, Parts, Numbered

(* An ACK, late or not, leaves nothing acknowledged in the queue. *)
LEMMA ReceiveACKPreserves ==
  ASSUME Parts, NEW a \in SeqNum, NEW afterGap \in BOOLEAN, NEW recent,
         ReceiveACK(a, afterGap, recent)
  PROVE  Parts'
<1>1. PICK n \in Nat :
        queued' \subseteq (queued \ Acknowledged(queued, a))
                         \ Oldest(queued \ Acknowledged(queued, a), n)
  BY ReceiveACKSteps
<1>2. AckedNeverQueued'
  BY <1>1, ReceiveACKSteps, AckRemovesExactly DEF AckedNeverQueued
<1>3. /\ lastAckedSeq' \in SeqNum \cup {NoSeq}
      /\ lastAckedSeq' # NoSeq => Recent(lastAckedSeq')
  BY ReceiveACKSteps DEF Parts, Numbered, Ages, InUse
<1>4. UNCHANGED <<nextSeq, used, sending, nakSends>>
  BY Zenon DEF ReceiveACK
<1>5. /\ Counters' /\ burstTimer' \in BOOLEAN
      /\ burstSends' \subseteq InUse /\ queued' \subseteq queued
  BY <1>1, ReceiveACKSteps DEF InUse
<1>6. \A s \in SeqNum : nakSends'[s] > 0 => s \in InUse
  BY <1>4 DEF InUse
<1> QED
  BY <1>2, <1>3, <1>4, <1>5, <1>6, KeepPreserves

-----------------------------------------------------------------------------
(* A new number is ahead of all, uncharged, and finds room. *)
LEMMA SendDeltaPreserves ==
  ASSUME Parts, SendDelta
  PROVE  Parts'
<1> DEFINE fresh == {s \in SeqNum : Age(s) \in 1 .. MaxAhead}
<1>1. /\ InUse \subseteq fresh /\ nextSeq \in SeqNum /\ nextSeq \notin fresh
      /\ Age(nextSeq) = 0 /\ nextSeq' \in SeqNum
      /\ Dist(nextSeq, nextSeq') = 1
      /\ \A s \in fresh : Dist(s, nextSeq') = Age(s) + 1
  BY AgeNext DEF SendDelta, Parts, Numbered
<1>2. /\ sending' = sending \cup {nextSeq}
      /\ queued' = EvictIfFull(queued) \cup {nextSeq}
      /\ attempts' = [s \in SeqNum |-> IF s \in fresh THEN attempts[s] ELSE 0]
      /\ wire' = [s \in SeqNum |-> IF s \in fresh THEN wire[s] ELSE 0]
      /\ UNCHANGED <<lastAckedSeq, nakSends, burstSends, burstTimer>>
  BY DEF SendDelta, burstVars
<1>3. /\ EvictIfFull(queued) \subseteq queued
      /\ Cardinality(EvictIfFull(queued)) \in Nat
      /\ Cardinality(EvictIfFull(queued)) < MaxQueue
  BY EvictionMakesRoom DEF Parts, Numbered, QueueBounded
<1>4. InUse' \subseteq InUse \cup {nextSeq}
  BY <1>2, <1>3 DEF InUse
<1>5. Ages'
  <2>1. ASSUME NEW s \in InUse'
        PROVE  Dist(s, nextSeq') \in 1 .. MaxAhead + 1
    BY <1>1, <1>4, Numbers
  <2> QED BY <2>1 DEF Ages, Recent, Age
<1>6. Counters'
  <2>1. /\ attempts' \in [SeqNum -> 0 .. MaxRetransmits]
        /\ wire' \in [SeqNum -> Nat]
    BY <1>2, Numbers DEF Parts, Counters
  <2>2. ASSUME NEW s \in SeqNum
        PROVE  /\ wire'[s] + Underway(s)' <= 1 + attempts'[s]
               /\ nakSends'[s] <= attempts'[s]
    <3>1. /\ attempts[s] \in Nat /\ nakSends[s] \in Nat /\ wire[s] \in Nat
          /\ wire[s] + Underway(s) <= 1 + attempts[s]
          /\ nakSends[s] <= attempts[s]
      BY Numbers DEF Parts, Counters, WithinBudget
    <3>2. CASE s \in fresh
      BY <1>1, <1>2, <3>1, <3>2 DEF Underway
    <3>3. CASE s \notin fresh
      <4>1. s \notin burstSends /\ s \notin sending /\ nakSends[s] = 0
        BY <1>1, <3>1, <3>3 DEF InUse
      <4> QED BY <1>2, <3>3, <4>1 DEF Underway
    <3> QED BY <3>2, <3>3
  <2> QED BY <1>2, <2>1, <2>2 DEF Parts, Counters, WithinBudget
<1>7. Numbered'
  BY <1>1, <1>2, <1>3, Numbers DEF SendDelta, Parts, Numbered
<1>8. AckedNeverQueued'
  <2> SUFFICES ASSUME lastAckedSeq # NoSeq, NEW s \in queued'
               PROVE  IsAhead(s, lastAckedSeq)
    BY <1>2 DEF AckedNeverQueued
  <2>1. CASE s \in queued
    BY <2>1 DEF Parts, AckedNeverQueued
  <2>2. CASE s = nextSeq
    <3>1. lastAckedSeq \in fresh
      BY <1>1 DEF InUse
    <3> QED BY <2>2, <3>1, Numbers DEF IsAhead, Age
  <2> QED BY <1>2, <1>3, <2>1, <2>2
<1>9. QueueBounded'
  <2>1. IsFiniteSet(EvictIfFull(queued))
    BY <1>3, FiniteSet DEF Parts, Numbered
  <2>2. Cardinality(queued') <= Cardinality(EvictIfFull(queued)) + 1
    <3>1. PICK E : E = EvictIfFull(queued)
      OBVIOUS
    <3>2. IsFiniteSet(E) /\ Cardinality(E) \in Nat /\ queued' = E \cup {nextSeq}
      BY <1>2, <1>3, <2>1, <3>1
    <3>3. Cardinality(queued') \in {Cardinality(E), Cardinality(E) + 1}
      BY <3>2, FS_AddElement
    <3> QED BY <3>1, <3>2, <3>3
  <2>3. Cardinality(queued') \in Nat
    BY <1>2, <2>1, FS_AddElement, FS_CardinalityType
  <2> QED BY <1>3, <2>2, <2>3, Numbers DEF QueueBounded
<1> QED BY <1>5, <1>6, <1>7, <1>8, <1>9 DEF Parts

(* All steps together. *)
LEMMA NextPreserves ==
  ASSUME Parts, [Next]_vars
  PROVE  Parts'
<1>1. ASSUME NEW a \in SeqNum, NEW afterGap \in BOOLEAN,
             NEW recent \in SUBSET Retransmitted,
             ReceiveACK(a, afterGap, recent)
      PROVE  Parts'
  BY <1>1, ReceiveACKPreserves
<1>2. ASSUME NEW recent \in SUBSET Retransmitted, NEW hasSocket \in BOOLEAN,
             BurstTimer(recent, hasSocket)
      PROVE  Parts'
  BY <1>2, BurstTimerPreserves
<1>3. CASE UNCHANGED vars
  BY <1>3
  DEF vars, queueVars, burstVars, Parts, Counters, Numbered, Ages, Recent, Age,
      InUse, WithinBudget, Underway, AckedNeverQueued, QueueBounded
<1> QED
  BY <1>1, <1>2, <1>3, SendDeltaPreserves, SendDonePreserves,
     SendFailedPreserves, ReceiveNAKPreserves, NAKSendPreserves,
     NAKSendFailsPreserves, BurstSendPreserves, BurstFailsPreserves,
     HousekeepingPreserves
  DEF Next

(* So the parts always hold. *)
LEMMA PartsHold == Spec => []Parts
<1>1. Parts /\ [Next]_vars => Parts'
  BY NextPreserves
<1> QED BY Start, <1>1, PTL DEF Spec

(* The queue of retransmit-queue.ts stays within its size and holds        *)
(* nothing acknowledged, however late, repeated or reordered the ACKs.     *)
THEOREM InductiveInvariant == Spec => []SenderInv
BY PartsHold, ByParts, PTL

(* All who send a packet share its budget: sendDelta, the NAK handlers and *)
(* the burst together hand no packet to the socket more often than         *)
(* maxRetransmits allows, wherever their awaits interleave.                *)
THEOREM BudgetIsShared == Spec => []WithinBudget
<1>1. SenderInv => WithinBudget
  BY DEF SenderInv
<1> QED BY InductiveInvariant, <1>1, PTL

(* A packet is missing from the queue only for a reason that leaves no     *)
(* hole: it is acknowledged, spent, or all that is older is gone as well.  *)
THEOREM NoHoleIsTorn == Spec => NoHoleTorn
<1> DEFINE Reason(s) ==
             \/ lastAckedSeq' # NoSeq /\ ~ IsAhead(s, lastAckedSeq')
             \/ attempts[s] = MaxRetransmits
             \/ \A t \in queued : Older(t, s) => t \notin queued'
           Reasons == \A s \in queued \ queued' : Reason(s)
<1>1. ASSUME Parts, [Next]_vars
      PROVE  Reasons
  <2>0. /\ nextSeq \in SeqNum /\ queued \subseteq SeqNum
        /\ \A s \in queued : attempts[s] <= MaxRetransmits
        /\ \A s \in queued : attempts[s] \in Nat
        /\ \A s \in queued : attempts[s] >= MaxRetransmits
                             => attempts[s] = MaxRetransmits
    BY <1>1, Numbers DEF Parts, Numbered, Counters
  <2>1. CASE queued \ queued' = {}
    BY <2>1
  <2>2. CASE SendDelta
    <3>1. \A s \in queued \ queued' : \A t \in queued : ~ Older(t, s)
      BY <2>0, <2>2, OldestOne DEF SendDelta, EvictIfFull
    <3> QED BY <3>1
  <2>3. CASE Pruned(queued, queued')
    <3>1. PICK n \in 0 .. Cardinality(queued) :
            queued' = queued \ Oldest(queued, n)
      BY <2>3 DEF Pruned
    <3>2. n \in Nat
      BY <2>0, FiniteSet
    <3> QED BY <2>0, <3>1, <3>2, OldestClosed
  <2>4. ASSUME NEW a \in SeqNum, NEW afterGap \in BOOLEAN,
               NEW recent \in SUBSET Retransmitted,
               ReceiveACK(a, afterGap, recent)
        PROVE  Reasons
    <3> DEFINE kept == queued \ Acknowledged(queued, a)
    <3>1. PICK n \in Nat :
            /\ queued' \subseteq kept \ Oldest(kept, n)
            /\ \A s \in (kept \ Oldest(kept, n)) \ queued' :
                 attempts[s] >= MaxRetransmits
      BY <1>1, <2>4, ReceiveACKSteps
    <3>2. \A s \in queued \ kept :
            lastAckedSeq' # NoSeq /\ ~ IsAhead(s, lastAckedSeq')
      <4>1. PICK new : new = IF lastAckedSeq = NoSeq \/ IsAhead(a, lastAckedSeq)
                              THEN a ELSE lastAckedSeq
        OBVIOUS
      <4>2. lastAckedSeq' = new /\ Recent(a)
        BY <1>1, <2>4, <4>1, ReceiveACKSteps
      <4>3. \A s \in queued : s \in Acknowledged(queued, a) <=> ~ IsAhead(s, new)
        BY <1>1, <4>1, <4>2, AckRemovesExactly
      <4>4. new # NoSeq
        BY <4>1, SeqNumIsNotNull
      <4> QED BY <4>2, <4>3, <4>4
    <3> HIDE DEF kept
    <3>3. kept \subseteq queued
      BY DEF kept
    <3>4. ASSUME NEW s \in Oldest(kept, n), NEW t \in queued, Older(t, s)
          PROVE  t \notin queued'
      BY <2>0, <3>1, <3>3, <3>4, OldestClosed
    <3>5. ASSUME NEW s \in queued \ queued'
          PROVE  Reason(s)
      BY <2>0, <3>1, <3>2, <3>3, <3>4
    <3> QED BY <3>5
  <2>5. ASSUME NEW S \in SUBSET queued, ReceiveNAK(S)
        PROVE  Reasons
    BY <1>1, <2>0, <2>5, ReceiveNAKPreserves
  <2>6. ASSUME NEW recent \in SUBSET Retransmitted, NEW hasSocket \in BOOLEAN,
               BurstTimer(recent, hasSocket)
        PROVE  Reasons
    BY <1>1, <2>0, <2>6, BurstTimerPreserves
  <2>7. \/ queued' = queued \/ SendDelta \/ Pruned(queued, queued')
        \/ \E a \in SeqNum, afterGap \in BOOLEAN,
              recent \in SUBSET Retransmitted :
             ReceiveACK(a, afterGap, recent)
        \/ \E S \in SUBSET queued : ReceiveNAK(S)
        \/ \E recent \in SUBSET Retransmitted, hasSocket \in BOOLEAN :
             BurstTimer(recent, hasSocket)
    BY <1>1 DEF Next, SendDone, SendFailed, NAKSend, NAKSendFails, BurstSend,
      BurstFails, PublishMetrics, StopMetricsPublishing, queueVars, vars
  <2> HIDE DEF Reasons
  <2> QED BY <2>1, <2>2, <2>3, <2>4, <2>5, <2>6, <2>7
<1>2. [][Next]_vars /\ []Parts => [][Reasons]_vars
  BY <1>1, PTL
<1> QED BY PartsHold, <1>2, PTL DEF Spec, NoHoleTorn

-----------------------------------------------------------------------------
(* Why a recovery burst ends.  It goes on while its timer stays set and no *)
(* new packet is taken.                                                    *)
BurstGoesOn == burstTimer /\ burstTimer' /\ nextSeq' = nextSeq

(* A queued packet leaves the queue or uses up some of its budget. *)
Spends == \E s \in queued : s \notin queued' \/ attempts'[s] > attempts[s]

(* Nothing is queued, and no budget is restored. *)
NothingReturns ==
  queued' \subseteq queued /\ \A s \in SeqNum : attempts'[s] >= attempts[s]

(* Charging restores no budget. *)
LEMMA ChargeSpends ==
  ASSUME Parts, NEW S, attempts' = Charge(S)
  PROVE  /\ \A s \in SeqNum : attempts'[s] >= attempts[s]
         /\ \A s \in SeqNum : s \in S => attempts'[s] > attempts[s]
<1>1. \A s \in SeqNum : attempts[s] \in Nat
  BY Numbers DEF Parts, Counters
<1>2. \A s \in SeqNum :
        attempts'[s] = IF s \in S THEN attempts[s] + 1 ELSE attempts[s]
  BY DEF Charge
<1> QED BY <1>1, <1>2

(* A burst that does not stop its timer spends. *)
LEMMA RunBurstSpends ==
  ASSUME Parts, NEW Q, Q \subseteq queued, NEW recent, NEW hasSocket,
         RunBurst(Q, recent, hasSocket)
  PROVE  NothingReturns /\ (burstTimer' => Spends)
<1> DEFINE chosen == Oldest(Q \ recent, BurstSize)
           toSend == chosen \ Spent(chosen)
<1>1. chosen \subseteq Q /\ Q \subseteq SeqNum
  BY DEF Oldest, Parts, Numbered
<1>2. CASE chosen = {} \/ ~ hasSocket
  <2>1. burstTimer' = FALSE /\ queued' = Q /\ attempts' = attempts
    BY <1>2 DEF RunBurst
  <2>2. \A s \in SeqNum : attempts[s] \in Nat
    BY Numbers DEF Parts, Counters
  <2> QED BY <2>1, <2>2 DEF NothingReturns
<1>3. CASE ~ (chosen = {} \/ ~ hasSocket)
  <2>1. queued' = Q \ Spent(chosen) /\ attempts' = Charge(toSend)
    BY <1>3 DEF RunBurst, DropSpent
  <2>2. PICK s : s \in chosen
    BY <1>3
  <2>3. s \in Spent(chosen) \/ s \in toSend
    BY <2>2
  <2>4. s \in queued /\ s \in SeqNum
    BY <1>1, <2>2
  <2> HIDE DEF chosen, toSend
  <2>5. Spends
    BY <2>1, <2>3, <2>4, ChargeSpends DEF Spends
  <2>6. NothingReturns
    BY <2>1, ChargeSpends DEF NothingReturns
  <2> QED BY <2>5, <2>6
<1> QED BY <1>2, <1>3

(* An ACK removes, and may run a burst. *)
LEMMA ReceiveACKSpends ==
  ASSUME Parts, NEW a \in SeqNum, NEW afterGap \in BOOLEAN, NEW recent,
         ReceiveACK(a, afterGap, recent), burstTimer'
  PROVE  NothingReturns /\ (Spends \/ burstSends' = burstSends)
<1> DEFINE kept == queued \ Acknowledged(queued, a)
<1>1. PICK n \in 0 .. Cardinality(kept) :
        LET Q == kept \ Oldest(kept, n) IN
        IF ~ afterGap \/ Q = {}
        THEN queued' = Q /\ UNCHANGED <<attempts, burstVars>>
        ELSE IF recoveryDrainInFlight
        THEN /\ queued' = Q
             /\ burstTimer' = TRUE
             /\ UNCHANGED <<attempts, burstSends>>
        ELSE \E hasSocket \in BOOLEAN : RunBurst(Q, recent, hasSocket)
  BY Zenon DEF ReceiveACK
<1> DEFINE Q == kept \ Oldest(kept, n)
<1>2. Q \subseteq queued
  OBVIOUS
<1> HIDE DEF kept
<1>3. \/ queued' = Q /\ attempts' = attempts /\ burstSends' = burstSends
      \/ \E hasSocket \in BOOLEAN : RunBurst(Q, recent, hasSocket)
  BY <1>1 DEF burstVars
<1> HIDE DEF Q
<1>4. CASE queued' = Q /\ attempts' = attempts /\ burstSends' = burstSends
  <2>1. \A s \in SeqNum : attempts[s] \in Nat
    BY Numbers DEF Parts, Counters
  <2> QED BY <1>2, <1>4, <2>1 DEF NothingReturns
<1>5. CASE \E hasSocket \in BOOLEAN : RunBurst(Q, recent, hasSocket)
  BY <1>2, <1>5, RunBurstSpends
<1> QED BY <1>3, <1>4, <1>5

(* While the burst goes on nothing returns, and it takes up sends only for *)
(* what it charges.                                                        *)
LEMMA StepSpends ==
  ASSUME Parts, [Next]_vars, BurstGoesOn
  PROVE  NothingReturns /\ (Spends \/ burstSends' \subseteq burstSends)
<1>1. /\ nextSeq \in SeqNum /\ \A s \in SeqNum : attempts[s] \in Nat
      /\ burstTimer' /\ nextSeq' = nextSeq
  BY Numbers DEF Parts, Numbered, Counters, BurstGoesOn
<1>2. CASE queued' \subseteq queued /\ attempts' = attempts
           /\ burstSends' \subseteq burstSends
  BY <1>1, <1>2 DEF NothingReturns
<1>3. ~ SendDelta
  <2> SUFFICES ASSUME SendDelta PROVE FALSE
    OBVIOUS
  <2>1. nextSeq = Succ(nextSeq) /\ nextSeq \in SeqNum
    BY <1>1 DEF SendDelta
  <2>2. PICK n \in SeqNum : n = nextSeq
    BY <2>1
  <2>3. Succ(n) # n
    BY Numbers DEF Succ, Plus, SeqNum, SeqSpace
  <2> QED BY <2>1, <2>2, <2>3
<1>4. CASE SendDone \/ PublishMetrics
  <2>1. queued' \subseteq queued
    BY <1>4, PrunedRemoves DEF SendDone, PublishMetrics
  <2> QED BY <1>2, <1>4, <2>1 DEF SendDone, PublishMetrics, burstVars
<1>5. CASE SendFailed \/ StopMetricsPublishing
  BY <1>2, <1>5 DEF SendFailed, StopMetricsPublishing, queueVars, burstVars
<1>6. CASE \E s \in SeqNum : NAKSend(s)
  BY <1>2, <1>6 DEF NAKSend, queueVars, burstVars
<1>7. CASE \E S \in SUBSET SeqNum : NAKSendFails(S)
  BY <1>2, <1>7 DEF NAKSendFails, queueVars, burstVars
<1>8. CASE BurstSend \/ BurstFails
  BY <1>2, <1>8 DEF BurstSend, BurstFails, queueVars
<1>9. ASSUME NEW a \in SeqNum, NEW afterGap \in BOOLEAN,
             NEW recent \in SUBSET Retransmitted,
             ReceiveACK(a, afterGap, recent)
      PROVE  NothingReturns /\ (Spends \/ burstSends' \subseteq burstSends)
  BY <1>1, <1>9, ReceiveACKSpends
<1>10. ASSUME NEW S \in SUBSET queued, ReceiveNAK(S)
       PROVE  NothingReturns /\ burstSends' \subseteq burstSends
  <2> DEFINE wanted == S \cap queued
             toSend == wanted \ Spent(wanted)
  <2>1. /\ queued' = queued \ Spent(wanted) /\ attempts' = Charge(toSend)
        /\ burstSends' = burstSends
    BY <1>10 DEF ReceiveNAK, DropSpent, burstVars
  <2> HIDE DEF wanted, toSend
  <2> QED BY <2>1, ChargeSpends DEF NothingReturns
<1>11. ASSUME NEW recent \in SUBSET Retransmitted, NEW hasSocket \in BOOLEAN,
              BurstTimer(recent, hasSocket)
       PROVE  NothingReturns /\ Spends
  BY <1>1, <1>11, RunBurstSpends DEF BurstTimer
<1>12. CASE UNCHANGED vars
  BY <1>2, <1>12 DEF vars, queueVars, burstVars
<1> QED BY <1>3, <1>4, <1>5, <1>6, <1>7, <1>8, <1>9, <1>10, <1>11, <1>12
  DEF Next

(* The steps that fairness grants a burst: a send leaves those that are    *)
(* left fewer, and a tick of the timer spends.                             *)
LEMMA BurstStepSpends ==
  ASSUME Parts, BurstGoesOn
  PROVE  /\ BurstSend \/ BurstFails
              => burstSends' \subseteq burstSends /\ burstSends' # burstSends
         /\ BurstTimer({}, TRUE) => Spends
<1>1. ASSUME BurstSend
      PROVE  burstSends' \subseteq burstSends /\ burstSends' # burstSends
  <2>1. PICK s \in Oldest(burstSends, 1) : burstSends' = burstSends \ {s}
    BY <1>1 DEF BurstSend
  <2>2. s \in burstSends
    BY DEF Oldest
  <2> QED BY <2>1, <2>2
<1>2. ~ BurstFails
  BY DEF BurstFails, BurstGoesOn
<1>3. ASSUME BurstTimer({}, TRUE)
      PROVE  Spends
  BY <1>3, RunBurstSpends DEF BurstTimer, BurstGoesOn
<1> QED BY <1>1, <1>2, <1>3

(* The argument behind BurstEnds, but for the fairness of the interval     *)
(* timer and the socket: while a burst goes on, no handler queues a packet *)
(* or restores its budget, runRecoveryBurst takes up sends only for what   *)
(* it charges, each of them leaves fewer, and a tick of its timer spends   *)
(* some of a budget that maxRetransmits bounds.                            *)
THEOREM BurstSpendsBudget ==
  Spec => /\ [][BurstGoesOn => /\ NothingReturns
                               /\ Spends \/ burstSends' \subseteq burstSends]_vars
          /\ [][BurstGoesOn /\ (BurstSend \/ BurstFails)
                  => burstSends' \subseteq burstSends
                     /\ burstSends' # burstSends]_vars
          /\ [][BurstGoesOn /\ BurstTimer({}, TRUE) => Spends]_vars
<1> DEFINE Steady == BurstGoesOn => /\ NothingReturns
                                    /\ Spends \/ burstSends' \subseteq burstSends
           Sends == BurstGoesOn /\ (BurstSend \/ BurstFails)
                      => burstSends' \subseteq burstSends
                         /\ burstSends' # burstSends
           Ticks == BurstGoesOn /\ BurstTimer({}, TRUE) => Spends
<1>1. Parts /\ [Next]_vars => [Steady]_vars
  BY StepSpends
<1>2. Parts /\ [Next]_vars => [Sends]_vars
  BY BurstStepSpends
<1>3. Parts /\ [Next]_vars => [Ticks]_vars
  BY BurstStepSpends
<1> HIDE DEF Steady, Sends, Ticks
<1>4. Spec => [][Steady]_vars /\ [][Sends]_vars /\ [][Ticks]_vars
  BY PartsHold, <1>1, <1>2, <1>3, PTL DEF Spec
<1> QED BY <1>4 DEF Steady, Sends, Ticks

-----------------------------------------------------------------------------
(* A sequence is the function it is. *)
LEMMA SeqFacts ==
  ASSUME NEW S, NEW s \in Seq(S)
  PROVE  /\ Len(s) \in Nat /\ DOMAIN s = 1 .. Len(s)
         /\ \A i \in 1 .. Len(s) : s[i] \in S
         /\ Range(s) = {s[i] : i \in 1 .. Len(s)} /\ Range(s) \subseteq S
         /\ s = << >> <=> Len(s) = 0
         /\ s = << >> => Range(s) = {}
<1>1. /\ Len(s) \in Nat /\ DOMAIN s = 1 .. Len(s)
      /\ \A i \in 1 .. Len(s) : s[i] \in S
  BY LenProperties, ElementOfSeq
<1>2. Range(s) = {s[i] : i \in 1 .. Len(s)}
  BY <1>1 DEF Range
<1>3. s = << >> <=> Len(s) = 0
  BY EmptySeq
<1> QED BY <1>1, <1>2, <1>3

(* A sequence with one more element, or without its first. *)
LEMMA AppendFacts ==
  ASSUME NEW S, NEW s \in Seq(S), NEW x \in S
  PROVE  /\ Append(s, x) \in Seq(S) /\ Len(Append(s, x)) = Len(s) + 1
         /\ \A i \in 1 .. Len(s) : Append(s, x)[i] = s[i]
         /\ Append(s, x)[Len(s) + 1] = x
         /\ Range(Append(s, x)) = Range(s) \cup {x}
<1> DEFINE w == Append(s, x)
<1>1. /\ w \in Seq(S) /\ Len(w) = Len(s) + 1
      /\ \A i \in 1 .. Len(s) : w[i] = s[i]
      /\ w[Len(s) + 1] = x
  BY AppendProperties
<1> HIDE DEF w
<1>2. /\ Len(s) \in Nat
      /\ Range(w) = {w[i] : i \in 1 .. Len(s) + 1}
      /\ Range(s) = {s[i] : i \in 1 .. Len(s)}
  BY <1>1, SeqFacts
<1>3. \A i \in 1 .. Len(s) + 1 : w[i] \in Range(s) \cup {x}
  BY <1>1, <1>2
<1>4. x \in Range(w) /\ \A i \in 1 .. Len(s) : s[i] \in Range(w)
  BY <1>1, <1>2
<1>5. Range(w) = Range(s) \cup {x}
  BY <1>2, <1>3, <1>4
<1> QED BY <1>1, <1>5 DEF w

LEMMA TailFacts ==
  ASSUME NEW S, NEW s \in Seq(S), s # << >>
  PROVE  /\ s[1] \in S /\ Tail(s) \in Seq(S) /\ Len(Tail(s)) = Len(s) - 1
         /\ Len(s) \in Nat \ {0}
         /\ \A i \in 1 .. Len(s) - 1 : Tail(s)[i] = s[i + 1]
         /\ Range(s) = Range(Tail(s)) \cup {s[1]}
<1> DEFINE w == Tail(s)
<1>1. /\ w \in Seq(S) /\ Len(w) = Len(s) - 1 /\ Len(s) \in Nat \ {0}
      /\ \A i \in 1 .. Len(s) - 1 : w[i] = s[i + 1]
  BY HeadTailProperties, EmptySeq
<1> HIDE DEF w
<1>2. /\ Range(w) = {w[i] : i \in 1 .. Len(s) - 1}
      /\ Range(s) = {s[i] : i \in 1 .. Len(s)} /\ s[1] \in S
  BY <1>1, SeqFacts
<1>3. \A i \in 1 .. Len(s) : s[i] \in Range(w) \cup {s[1]}
  <2> SUFFICES ASSUME NEW i \in 1 .. Len(s), i # 1
               PROVE  s[i] \in Range(w)
    OBVIOUS
  <2>1. i - 1 \in 1 .. Len(s) - 1 /\ w[i - 1] = s[(i - 1) + 1]
    BY <1>1
  <2> QED BY <1>2, <2>1
<1>4. /\ s[1] \in Range(s)
      /\ \A i \in 1 .. Len(s) - 1 : i + 1 \in 1 .. Len(s) /\ w[i] \in Range(s)
  BY <1>1, <1>2
<1>5. Range(s) = Range(w) \cup {s[1]}
  BY <1>2, <1>3, <1>4
<1> QED BY <1>1, <1>2, <1>5 DEF w

(* A piece of a sequence. *)
LEMMA SubSeqFacts ==
  ASSUME NEW S, NEW s \in Seq(S), NEW m \in 1 .. Len(s) + 1, NEW n \in 0 .. Len(s),
         m <= n + 1
  PROVE  /\ SubSeq(s, m, n) \in Seq(S) /\ Len(SubSeq(s, m, n)) = (n - m) + 1
         /\ \A i \in 1 .. (n - m) + 1 : SubSeq(s, m, n)[i] = s[(m + i) - 1]
         /\ Range(SubSeq(s, m, n)) = {s[i] : i \in m .. n}
<1> DEFINE w == SubSeq(s, m, n)
<1>1. Len(s) \in Nat /\ \A i \in m .. n : s[i] \in S
  BY SeqFacts
<1>2. /\ w \in Seq(S) /\ Len(w) = IF m <= n THEN n - m + 1 ELSE 0
      /\ \A i \in 1 .. n - m + 1 : w[i] = s[m + i - 1]
  BY <1>1, SubSeqProperties
<1> HIDE DEF w
<1>3. Len(w) = (n - m) + 1
  BY <1>1, <1>2
<1>4. Range(w) = {w[i] : i \in 1 .. (n - m) + 1}
  BY <1>2, <1>3, SeqFacts
<1>5. \A i \in 1 .. (n - m) + 1 : (m + i) - 1 \in m .. n /\ w[i] = s[(m + i) - 1]
  BY <1>1, <1>2
<1>6. \A i \in m .. n : s[i] \in Range(w)
  <2> SUFFICES ASSUME NEW i \in m .. n PROVE s[i] \in Range(w)
    OBVIOUS
  <2>1. (i - m) + 1 \in 1 .. (n - m) + 1 /\ (m + ((i - m) + 1)) - 1 = i
    BY <1>1
  <2>2. w[(i - m) + 1] = s[i]
    BY <1>5, <2>1
  <2> QED BY <1>4, <2>1, <2>2
<1>7. Range(w) = {s[i] : i \in m .. n}
  <2>1. ASSUME NEW x \in Range(w) PROVE x \in {s[i] : i \in m .. n}
    <3>1. PICK i \in 1 .. (n - m) + 1 : x = w[i]
      BY <1>4
    <3>2. (m + i) - 1 \in m .. n /\ x = s[(m + i) - 1]
      BY <1>5, <3>1
    <3> QED BY <3>2
  <2> QED BY <1>6, <2>1
<1> QED BY <1>2, <1>3, <1>5, <1>7 DEF w

(* What removing one place makes of a sequence. *)
LEMMA RemoveAtFacts ==
  ASSUME NEW S, NEW s \in Seq(S), NEW k \in 1 .. Len(s)
  PROVE  /\ RemoveAt(s, k) \in Seq(S)
         /\ Len(RemoveAt(s, k)) = Len(s) - 1
         /\ \A i \in 1 .. Len(s) - 1 :
              RemoveAt(s, k)[i] = IF i < k THEN s[i] ELSE s[i + 1]
<1> DEFINE a == SubSeq(s, 1, k - 1)
           b == SubSeq(s, k + 1, Len(s))
<1>1. Len(s) \in Nat
  BY SeqFacts
<1>2. /\ a \in Seq(S) /\ Len(a) = k - 1
      /\ \A i \in 1 .. k - 1 : a[i] = s[i]
  <2>1. /\ a \in Seq(S) /\ Len(a) = ((k - 1) - 1) + 1
        /\ \A i \in 1 .. ((k - 1) - 1) + 1 : a[i] = s[(1 + i) - 1]
    BY <1>1, SubSeqFacts
  <2> HIDE DEF a
  <2> QED BY <1>1, <2>1
<1>3. /\ b \in Seq(S) /\ Len(b) = Len(s) - k
      /\ \A i \in 1 .. Len(s) - k : b[i] = s[k + i]
  <2>1. /\ b \in Seq(S) /\ Len(b) = (Len(s) - (k + 1)) + 1
        /\ \A i \in 1 .. (Len(s) - (k + 1)) + 1 : b[i] = s[((k + 1) + i) - 1]
    BY <1>1, SubSeqFacts
  <2> HIDE DEF b
  <2> QED BY <1>1, <2>1
<1>4. RemoveAt(s, k) = a \o b
  BY DEF RemoveAt
<1> HIDE DEF a, b
<1>5. /\ a \o b \in Seq(S) /\ Len(a \o b) = Len(a) + Len(b)
      /\ \A i \in 1 .. Len(a) + Len(b) :
           (a \o b)[i] = IF i <= Len(a) THEN a[i] ELSE b[i - Len(a)]
  BY <1>2, <1>3, ConcatProperties
<1>6. ASSUME NEW i \in 1 .. Len(s) - 1
      PROVE  (a \o b)[i] = IF i < k THEN s[i] ELSE s[i + 1]
  <2>1. CASE i < k
    <3>1. i \in 1 .. k - 1 /\ i <= Len(a) /\ i \in 1 .. Len(a) + Len(b)
      BY <1>1, <1>2, <1>3, <2>1
    <3> QED BY <1>2, <1>5, <2>1, <3>1
  <2>2. CASE ~ (i < k)
    <3>1. (a \o b)[i] = b[i - Len(a)]
      <4>1. i \in 1 .. Len(a) + Len(b) /\ ~ (i <= Len(a))
        BY <1>1, <1>2, <1>3, <2>2
      <4> QED BY <1>5, <4>1
    <3>2. i - (k - 1) \in 1 .. Len(s) - k
      BY <1>1, <2>2
    <3>3. b[i - (k - 1)] = s[k + (i - (k - 1))]
      BY <1>3, <3>2
    <3> QED BY <1>1, <1>2, <2>2, <3>1, <3>3
  <2> QED BY <2>1, <2>2
<1>7. Len(a) + Len(b) = Len(s) - 1
  BY <1>1, <1>2, <1>3
<1>8. Len(a \o b) = Len(s) - 1
  BY <1>5, <1>7
<1> QED BY <1>4, <1>5, <1>6, <1>8

(* A sequence made from a finite set has its elements. *)
LEMMA SetToSeqFacts ==
  ASSUME NEW S, IsFiniteSet(S)
  PROVE  SetToSeq(S) \in Seq(S) /\ Range(SetToSeq(S)) = S
<1> DEFINE n == Cardinality(S)
           f == SetToSeq(S)
<1>1. n \in Nat /\ ExistsBijection(1 .. n, S)
  BY FS_CardinalityType
<1>2. \E g \in [1 .. n -> S] : IsInjective(g)
  BY <1>1 DEF ExistsBijection, Bijection, Injection
<1>3. f \in [1 .. n -> S] /\ IsInjective(f)
  BY <1>2 DEF SetToSeq
<1> HIDE DEF f
<1>4. f \in Injection(1 .. n, S)
  BY <1>3 DEF Injection
<1>5. Cardinality(1 .. n) = n
  BY <1>1, FS_Interval
<1>6. f \in Surjection(1 .. n, S)
  BY <1>4, <1>5, FS_Injection
<1>7. f \in Seq(S)
  BY <1>1, <1>3, SeqDef
<1>8. Range(f) = S
  BY <1>3, <1>6 DEF Range, Surjection
<1> QED BY <1>7, <1>8 DEF f

-----------------------------------------------------------------------------
(* The deltas of a batch go through the stages one after the other: the    *)
(* function of Stages exists, and is what its definition says.             *)
LEMMA StagesStep ==
  ASSUME NEW throttle, NEW batch \in Seq(Delta)
  PROVE  /\ Stages(throttle, batch)[0] = [throttle |-> throttle, out |-> << >>]
         /\ \A n \in 1 .. Len(batch) :
              Stages(throttle, batch)[n]
                = Prepare(Stages(throttle, batch)[n - 1], batch[n])
<1> DEFINE base == [throttle |-> throttle, out |-> << >>]
           Runs(f, m) == f = [n \in 0 .. m |-> IF n = 0 THEN base
                                               ELSE Prepare(f[n - 1], batch[n])]
           L == Len(batch)
           a == Stages(throttle, batch)
<1>1. L \in Nat
  BY SeqFacts
<1>2. ASSUME NEW m \in 0 .. L - 1, NEW f, Runs(f, m)
      PROVE  \E g : Runs(g, m + 1)
  <2> DEFINE g == [n \in 0 .. m + 1 |-> IF n <= m THEN f[n]
                                        ELSE Prepare(f[m], batch[m + 1])]
  <2>1. \A n \in 0 .. m : f[n] = IF n = 0 THEN base ELSE Prepare(f[n - 1], batch[n])
    BY <1>2
  <2>2. ASSUME NEW n \in 0 .. m + 1
        PROVE  g[n] = IF n = 0 THEN base ELSE Prepare(g[n - 1], batch[n])
    <3>1. CASE n = 0
      BY <1>1, <2>1, <3>1
    <3>2. CASE n \in 1 .. m
      <4>1. g[n] = f[n] /\ g[n - 1] = f[n - 1] /\ n # 0 /\ n \in 0 .. m
        BY <1>1, <3>2
      <4> QED BY <2>1, <4>1
    <3>3. CASE n = m + 1
      <4>1. g[n] = Prepare(f[m], batch[m + 1]) /\ g[n - 1] = f[m] /\ n # 0
        BY <1>1, <3>3
      <4> QED BY <3>3, <4>1
    <3>4. n = 0 \/ n \in 1 .. m \/ n = m + 1
      BY <1>1
    <3> QED BY <3>1, <3>2, <3>3, <3>4
  <2>3. g = [n \in 0 .. m + 1 |-> g[n]]
    OBVIOUS
  <2> HIDE DEF g
  <2>4. Runs(g, m + 1)
    BY <2>2, <2>3
  <2> QED BY <2>4
<1> DEFINE Bad == {m \in 0 .. L : ~ \E f : Runs(f, m)}
<1>3. Bad = {}
  <2> SUFFICES ASSUME Bad # {} PROVE FALSE
    OBVIOUS
  <2> HIDE DEF Runs
  <2>0. Bad \subseteq Nat
    BY <1>1
  <2> HIDE DEF Bad
  <2>1. PICK m \in Bad : \A k \in Bad : m <= k
    BY <2>0, LeastElement
  <2> USE DEF Bad
  <2>2. m # 0
    <3> DEFINE z == [n \in 0 .. 0 |-> base]
    <3>1. \A n \in 0 .. 0 : n = 0
      OBVIOUS
    <3>2. Runs(z, 0)
      BY <3>1 DEF Runs
    <3> HIDE DEF z
    <3>3. \E f : Runs(f, 0)
      BY <3>2
    <3> QED BY <3>3
  <2>3. m - 1 \in 0 .. L - 1 /\ m - 1 \notin Bad /\ m - 1 \in 0 .. L /\ (m - 1) + 1 = m
    BY <1>1, <2>1, <2>2
  <2>4. PICK f : Runs(f, m - 1)
    BY <2>3
  <2>5. \E g : Runs(g, (m - 1) + 1)
    BY <1>2, <2>3, <2>4
  <2> QED BY <2>1, <2>3, <2>5
<1>4. L \notin Bad /\ L \in 0 .. L
  BY <1>1, <1>3
<1>5. PICK f : Runs(f, L)
  BY <1>4
<1>6. a = CHOOSE acc : acc = [n \in 0 .. L |-> IF n = 0 THEN base
                                ELSE Prepare(acc[n - 1], batch[n])]
  BY DEF Stages
<1> HIDE DEF a
<1>7. a = [n \in 0 .. L |-> IF n = 0 THEN base ELSE Prepare(a[n - 1], batch[n])]
  BY <1>5, <1>6
<1>8. \A n \in 0 .. L : a[n] = IF n = 0 THEN base ELSE Prepare(a[n - 1], batch[n])
  BY <1>7
<1> QED BY <1>1, <1>8 DEF a

(* What holds of the start of a batch and is handed on from each delta to  *)
(* the next, holds in the end.                                             *)
LEMMA StagesKeep ==
  ASSUME NEW throttle, NEW batch \in Seq(Delta), NEW Q,
         [throttle |-> throttle, out |-> << >>] \in Q[0],
         \A n \in 1 .. Len(batch) : \A q \in Q[n - 1] : Prepare(q, batch[n]) \in Q[n]
  PROVE  Stages(throttle, batch)[Len(batch)] \in Q[Len(batch)]
<1> DEFINE a == Stages(throttle, batch)
           L == Len(batch)
           Bad == {n \in 0 .. L : a[n] \notin Q[n]}
<1>1. /\ L \in Nat /\ a[0] \in Q[0]
      /\ \A n \in 1 .. L : a[n] = Prepare(a[n - 1], batch[n])
  BY StagesStep, SeqFacts
<1> HIDE DEF a
<1>2. Bad = {}
  <2> SUFFICES ASSUME Bad # {} PROVE FALSE
    OBVIOUS
  <2>0. Bad \subseteq Nat
    BY <1>1
  <2> HIDE DEF Bad
  <2>1. PICK m \in Bad : \A k \in Bad : m <= k
    BY <2>0, LeastElement
  <2> USE DEF Bad
  <2>2. m # 0
    BY <1>1, <2>1
  <2>3. m \in 1 .. L /\ m - 1 \in 0 .. L /\ m - 1 \notin Bad
    BY <1>1, <2>1, <2>2
  <2>4. a[m - 1] \in Q[m - 1]
    BY <2>3
  <2>5. a[m] \in Q[m]
    BY <1>1, <2>3, <2>4
  <2> QED BY <2>1, <2>5
<1> QED BY <1>1, <1>2 DEF a

-----------------------------------------------------------------------------
Entry == ThrottleEntry(Leaves, Int)
Accumulated == [throttle : Seq(Entry), out : Seq(Delta)]

Allowed(l) == IsPathAllowed(PathOf[l], Filter)
Rounded(d) == RoundTo(d.value, Precision[d.leaf])

(* No key twice. *)
Distinct(th) == \A i, j \in DOMAIN th : th[i].key = th[j].key => i = j

LEMMA RoundType ==
  ASSUME NEW v \in Int, NEW u \in Nat \ {0}
  PROVE  RoundTo(v, u) \in Int
<1>1. 2 * v + u \in Int /\ 2 * u \in Nat \ {0}
  OBVIOUS
<1>2. (2 * v + u) \div (2 * u) \in Int
  BY <1>1
<1> DEFINE q == (2 * v + u) \div (2 * u)
<1> HIDE DEF q
<1>3. u * q \in Int
  BY <1>2 DEF q
<1> QED BY <1>3 DEF RoundTo, q

LEMMA RoundedType ==
  ASSUME NEW d \in Delta
  PROVE  /\ Rounded(d) \in Int /\ d.leaf \in Leaves /\ d.value \in Int
         /\ [d EXCEPT !.value = Rounded(d)] \in Delta
         /\ [d EXCEPT !.value = Rounded(d)].leaf = d.leaf
         /\ [d EXCEPT !.value = Rounded(d)].value = Rounded(d)
<1>1. d.value \in Int /\ d.leaf \in Leaves
  BY DEF Delta
<1>2. Precision[d.leaf] \in Nat \ {0}
  BY <1>1, PipelineAssumption
<1>3. Rounded(d) \in Int
  BY <1>1, <1>2, RoundType DEF Rounded
<1> QED BY <1>1, <1>3 DEF Delta

(* The leaves of some deltas. *)
LEMMA LeavesFacts ==
  ASSUME NEW s \in Seq(Delta)
  PROVE  /\ LeavesOf(s) = {s[i].leaf : i \in 1 .. Len(s)}
         /\ LeavesOf(s) = {d.leaf : d \in Range(s)}
         /\ LeavesOf(s) \subseteq Leaves
         /\ s = << >> => LeavesOf(s) = {}
         /\ \A d \in Delta : LeavesOf(Append(s, d)) = LeavesOf(s) \cup {d.leaf}
<1>1. /\ Len(s) \in Nat /\ DOMAIN s = 1 .. Len(s)
      /\ \A i \in 1 .. Len(s) : s[i] \in Delta
      /\ Range(s) = {s[i] : i \in 1 .. Len(s)} /\ Range(s) \subseteq Delta
      /\ s = << >> => Range(s) = {}
  BY SeqFacts
<1>2. LeavesOf(s) = {s[i].leaf : i \in 1 .. Len(s)}
  BY <1>1 DEF LeavesOf
<1>3. LeavesOf(s) = {d.leaf : d \in Range(s)}
  BY <1>1, <1>2
<1>4. \A d \in Delta : d.leaf \in Leaves
  BY DEF Delta
<1>5. ASSUME NEW d \in Delta
      PROVE  LeavesOf(Append(s, d)) = LeavesOf(s) \cup {d.leaf}
  <2> DEFINE w == Append(s, d)
  <2>1. w \in Seq(Delta) /\ Range(w) = Range(s) \cup {d}
    BY AppendFacts
  <2> HIDE DEF w
  <2>2. DOMAIN w = 1 .. Len(w) /\ Range(w) = {w[i] : i \in 1 .. Len(w)}
    BY <2>1, SeqFacts
  <2>3. LeavesOf(w) = {e.leaf : e \in Range(w)}
    BY <2>2 DEF LeavesOf
  <2>4. LeavesOf(w) = LeavesOf(s) \cup {d.leaf}
    BY <1>3, <2>1, <2>3
  <2> QED BY <2>4 DEF w
<1> QED BY <1>1, <1>2, <1>3, <1>4, <1>5

(* i is the last of the first n places at which s has leaf l. *)
LastAmong(s, l, i, n) ==
  i \in 1 .. n /\ s[i].leaf = l /\ \A j \in 1 .. n : s[j].leaf = l => j <= i

LEMMA LastExists ==
  ASSUME NEW s \in Seq(Delta), NEW l \in LeavesOf(s)
  PROVE  \E i \in 1 .. Len(s) : LastAmong(s, l, i, Len(s))
<1>1. Len(s) \in Nat /\ DOMAIN s = 1 .. Len(s)
  BY SeqFacts
<1>0. \A x \in 1 .. Len(s) : Len(s) - x \in Nat
  BY <1>1
<1> DEFINE T == {n \in Nat : \E i \in 1 .. Len(s) : s[i].leaf = l /\ n = Len(s) - i}
<1>2. PICK i \in 1 .. Len(s) : s[i].leaf = l
  BY <1>1 DEF LeavesOf
<1>3. Len(s) - i \in T
  BY <1>1, <1>2
<1>4. PICK n \in T : \A m \in T : n <= m
  <2>1. T \subseteq Nat /\ T # {}
    BY <1>3
  <2> HIDE DEF T
  <2> QED BY <2>1, LeastElement
<1>5. PICK k \in 1 .. Len(s) : s[k].leaf = l /\ n = Len(s) - k
  BY <1>4
<1>6. ASSUME NEW j \in 1 .. Len(s), s[j].leaf = l PROVE j <= k
  <2>0. j \in 1 .. Len(s) /\ Len(s) - j \in Nat
    BY <1>0, Zenon
  <2>a. \E m \in 1 .. Len(s) : s[m].leaf = l /\ Len(s) - j = Len(s) - m
    BY <1>6, <2>0, Zenon
  <2>1. Len(s) - j \in T
    BY <2>0, <2>a
  <2>2. n <= Len(s) - j
    BY <1>4, <2>1
  <2> QED BY <1>1, <1>5, <2>2
<1> QED BY <1>5, <1>6 DEF LastAmong

(* What the receiver has after some deltas, and after one more. *)
LEMMA ShownFacts ==
  ASSUME NEW out \in Seq(Delta)
  PROVE  /\ \A l \in Leaves \ LeavesOf(out) : Shown(out)[l] = receiver[l]
         /\ \A l \in LeavesOf(out) : \E v \in Int : Shown(out)[l] = {v}
         /\ Shown(out) = [l \in Leaves |-> Shown(out)[l]]
         /\ \A e \in Delta : \A l \in Leaves :
              Shown(Append(out, e))[l] = IF l = e.leaf THEN {e.value}
                                                       ELSE Shown(out)[l]
<1> DEFINE IsLast(s, l, i) == /\ i \in DOMAIN s /\ s[i].leaf = l
                            /\ \A j \in DOMAIN s : s[j].leaf = l => j <= i
<1>1. ASSUME NEW s \in Seq(Delta), NEW l \in Leaves, NEW i, IsLast(s, l, i)
      PROVE  Shown(s)[l] = {s[i].value}
  <2>1. DOMAIN s \subseteq Int
    BY SeqFacts
  <2>2. l \in LeavesOf(s)
    BY <1>1 DEF LeavesOf
  <2>3. \A j : IsLast(s, l, j) => j = i
    BY <1>1, <2>1
  <2> DEFINE k == CHOOSE k \in DOMAIN s :
                    /\ s[k].leaf = l
                    /\ \A j \in DOMAIN s : s[j].leaf = l => j <= k
  <2>4. IsLast(s, l, k)
    BY <1>1
  <2>5. k = i
    BY <2>3, <2>4
  <2>6. Shown(s)[l] = {s[k].value}
    BY <2>2 DEF Shown
  <2> QED BY <2>5, <2>6
<1>2. ASSUME NEW s \in Seq(Delta), NEW l \in LeavesOf(s)
      PROVE  \E i : IsLast(s, l, i)
  <2>1. /\ DOMAIN s = 1 .. Len(s)
        /\ \E i \in 1 .. Len(s) : LastAmong(s, l, i, Len(s))
    BY SeqFacts, LastExists
  <2> QED BY <2>1 DEF LastAmong
<1>3. /\ \A l \in Leaves \ LeavesOf(out) : Shown(out)[l] = receiver[l]
      /\ Shown(out) = [l \in Leaves |-> Shown(out)[l]]
  BY DEF Shown
<1>4. ASSUME NEW l \in LeavesOf(out) PROVE \E v \in Int : Shown(out)[l] = {v}
  <2>1. PICK i : IsLast(out, l, i)
    BY <1>2
  <2>2. l \in Leaves
    BY LeavesFacts
  <2>3. Shown(out)[l] = {out[i].value}
    BY <1>1, <2>1, <2>2
  <2>4. out[i] \in Delta
    BY <2>1, SeqFacts
  <2>5. out[i].value \in Int
    BY <2>4 DEF Delta
  <2> QED BY <2>3, <2>5
<1>5. ASSUME NEW e \in Delta, NEW l \in Leaves
      PROVE  Shown(Append(out, e))[l] = IF l = e.leaf THEN {e.value}
                                                      ELSE Shown(out)[l]
  <2> DEFINE w == Append(out, e)
  <2>1. /\ w \in Seq(Delta) /\ Len(w) = Len(out) + 1
        /\ \A i \in 1 .. Len(out) : w[i] = out[i]
        /\ w[Len(out) + 1] = e
    BY AppendFacts
  <2>2. LeavesOf(w) = LeavesOf(out) \cup {e.leaf}
    BY LeavesFacts
  <2> HIDE DEF w
  <2>3. /\ Len(out) \in Nat /\ DOMAIN out = 1 .. Len(out)
        /\ DOMAIN w = 1 .. Len(out) + 1
    BY <2>1, SeqFacts
  <2>4. CASE l = e.leaf
    <3>1. IsLast(w, l, Len(out) + 1)
      BY <2>1, <2>3, <2>4
    <3>2. Shown(w)[l] = {w[Len(out) + 1].value}
      BY <1>1, <2>1, <3>1
    <3> QED BY <2>1, <2>4, <3>2 DEF w
  <2>5. CASE l # e.leaf /\ l \in LeavesOf(out)
    <3>1. PICK i : IsLast(out, l, i)
      BY <1>2, <2>5
    <3>2. IsLast(w, l, i)
      BY <2>1, <2>3, <2>5, <3>1
    <3>3. Shown(out)[l] = {out[i].value} /\ Shown(w)[l] = {w[i].value}
      BY <1>1, <2>1, <3>1, <3>2
    <3>4. w[i] = out[i]
      BY <2>1, <2>3, <3>1
    <3> QED BY <2>5, <3>3, <3>4 DEF w
  <2>6. CASE l # e.leaf /\ l \notin LeavesOf(out)
    <3>1. l \notin LeavesOf(w)
      BY <2>2, <2>6
    <3>2. Shown(w)[l] = receiver[l]
      BY <3>1 DEF Shown
    <3> QED BY <1>3, <2>6, <3>2 DEF w
  <2> QED BY <2>4, <2>5, <2>6
<1> QED BY <1>3, <1>4, <1>5

(* Nothing more to show, nothing changes; and what is to be shown changes  *)
(* only with the receiver and with what is being sent.                     *)
LEMMA ShownNothing ==
  ASSUME receiver = [l \in Leaves |-> receiver[l]]
  PROVE  Shown(<< >>) = receiver
<1>1. LeavesOf(<< >>) = {}
  BY LeavesFacts, EmptySeq
<1> QED BY <1>1 DEF Shown

LEMMA NothingInFlight ==
  ASSUME inFlight' = Idle, receiver' = [l \in Leaves |-> receiver'[l]]
  PROVE  ToBeShown' = receiver'
<1>1. LeavesOf(<< >>) = {} /\ inFlight'.out = << >>
  BY LeavesFacts, EmptySeq DEF Idle
<1> QED BY <1>1 DEF ToBeShown, Shown

LEMMA SameShown ==
  ASSUME receiver' = receiver, inFlight' = inFlight
  PROVE  ToBeShown' = ToBeShown
BY DEF ToBeShown, Shown

(* Keys that are distinct are those of which there is one entry.           *)
LEMMA DistinctIsOnce ==
  ASSUME NEW th \in Seq(Entry)
  PROVE  Distinct(th) <=> \A l \in Leaves : Cardinality(Lasts(th, l)) <= 1
<1>1. /\ Len(th) \in Nat /\ DOMAIN th = 1 .. Len(th)
      /\ \A i \in 1 .. Len(th) : th[i] \in Entry
  BY SeqFacts
<1>2. \A i \in DOMAIN th : th[i].key \in Leaves
  BY <1>1 DEF Entry, ThrottleEntry
<1>3. ASSUME NEW l \in Leaves
      PROVE  IsFiniteSet(Lasts(th, l)) /\ Cardinality(Lasts(th, l)) \in Nat
  <2>1. IsFiniteSet(1 .. Len(th)) /\ Lasts(th, l) \subseteq 1 .. Len(th)
    BY <1>1, FS_Interval DEF Lasts
  <2>2. IsFiniteSet(Lasts(th, l))
    BY <2>1, FS_Subset
  <2> QED BY <2>2, FS_CardinalityType
<1>4. ASSUME Distinct(th), NEW l \in Leaves
      PROVE  Cardinality(Lasts(th, l)) <= 1
  <2>1. CASE Lasts(th, l) = {}
    BY <2>1, FS_EmptySet
  <2>2. CASE Lasts(th, l) # {}
    <3>1. PICK i \in Lasts(th, l) : TRUE
      BY <2>2
    <3>2. \A j \in Lasts(th, l) : j = i
      BY <1>4, <3>1 DEF Distinct, Lasts
    <3>3. Lasts(th, l) = {i}
      BY <3>1, <3>2
    <3>4. Cardinality({i}) = 1
      BY FS_Singleton
    <3>5. Cardinality(Lasts(th, l)) = 1
      BY <3>3, <3>4
    <3> QED BY <3>5
  <2> QED BY <2>1, <2>2
<1>5. ASSUME \A l \in Leaves : Cardinality(Lasts(th, l)) <= 1,
             NEW i \in DOMAIN th, NEW j \in DOMAIN th, th[i].key = th[j].key
      PROVE  i = j
  <2> DEFINE l == th[i].key
  <2>1. l \in Leaves /\ i \in Lasts(th, l) /\ j \in Lasts(th, l)
    BY <1>2, <1>5 DEF Lasts
  <2>2. IsFiniteSet(Lasts(th, l)) /\ Cardinality(Lasts(th, l)) \in 0 .. 1
    BY <1>3, <1>5, <2>1
  <2>3. Cardinality(Lasts(th, l)) # 0
    BY <2>1, <2>2, FS_EmptySet
  <2>4. Cardinality(Lasts(th, l)) = 1
    BY <2>2, <2>3
  <2>5. \E x : Lasts(th, l) = {x}
    BY <2>2, <2>4, FS_Singleton
  <2> QED BY <2>1, <2>5
<1> QED BY <1>4, <1>5 DEF Distinct

(* Recording a value leaves one entry for its key and drops others only.   *)
LEMMA RecordFacts ==
  ASSUME NEW th \in Seq(Entry), Distinct(th), Len(th) <= ThrottleMax,
         NEW k \in Leaves, NEW v \in Int
  PROVE  /\ RecordSentValue(th, k, v) \in Seq(Entry)
         /\ Distinct(RecordSentValue(th, k, v))
         /\ Len(RecordSentValue(th, k, v)) <= ThrottleMax
         /\ \A e \in Range(RecordSentValue(th, k, v)) :
              \/ e.key = k /\ e.value = v
              \/ e.key # k /\ e \in Range(th)
<1> DEFINE new == [key |-> k, value |-> v, fresh |-> TRUE]
           kept == IF Lasts(th, k) # {}
                   THEN RemoveAt(th, CHOOSE i \in Lasts(th, k) : TRUE)
                   ELSE IF Len(th) >= ThrottleMax THEN Tail(th) ELSE th
           r == RecordSentValue(th, k, v)
<1>1. /\ Len(th) \in Nat /\ DOMAIN th = 1 .. Len(th)
      /\ Range(th) = {th[i] : i \in 1 .. Len(th)}
      /\ th = << >> <=> Len(th) = 0
      /\ ThrottleMax \in Nat \ {0}
  BY SeqFacts, ThrottleAssumption
<1>2. new \in Entry
  BY DEF Entry, ThrottleEntry
<1>3. r = Append(kept, new)
  BY DEF RecordSentValue
<1>4. /\ kept \in Seq(Entry) /\ Len(kept) + 1 <= ThrottleMax
      /\ \A i \in 1 .. Len(kept) : kept[i] \in Range(th) /\ kept[i].key # k
      /\ \A i, j \in 1 .. Len(kept) : kept[i].key = kept[j].key => i = j
  <2>1. CASE Lasts(th, k) # {}
    <3> DEFINE m == CHOOSE i \in Lasts(th, k) : TRUE
    <3>1. m \in 1 .. Len(th) /\ th[m].key = k /\ kept = RemoveAt(th, m)
      BY <1>1, <2>1 DEF Lasts
    <3> HIDE DEF m, kept
    <3>2. /\ kept \in Seq(Entry) /\ Len(kept) = Len(th) - 1
          /\ \A i \in 1 .. Len(th) - 1 :
               kept[i] = IF i < m THEN th[i] ELSE th[i + 1]
      BY <3>1, RemoveAtFacts
    <3> DEFINE place(i) == IF i < m THEN i ELSE i + 1
    <3>3. \A i \in 1 .. Len(th) - 1 : /\ place(i) \in 1 .. Len(th)
                                      /\ place(i) # m /\ kept[i] = th[place(i)]
      BY <1>1, <3>1, <3>2
    <3>4. \A i, j \in 1 .. Len(th) - 1 : place(i) = place(j) => i = j
      BY <1>1, <3>1
    <3> HIDE DEF place
    <3>5. \A i \in 1 .. Len(kept) : kept[i] \in Range(th) /\ kept[i].key # k
      <4> SUFFICES ASSUME NEW i \in 1 .. Len(kept)
                   PROVE  kept[i] \in Range(th) /\ kept[i].key # k
        OBVIOUS
      <4>1. /\ place(i) \in 1 .. Len(th) /\ place(i) # m
            /\ kept[i] = th[place(i)]
        BY <3>2, <3>3
      <4>2. th[place(i)].key # k
        BY <1>1, <3>1, <4>1 DEF Distinct
      <4> QED BY <1>1, <4>1, <4>2
    <3>6. \A i, j \in 1 .. Len(kept) : kept[i].key = kept[j].key => i = j
      BY <1>1, <3>2, <3>3, <3>4 DEF Distinct
    <3>7. Len(kept) + 1 <= ThrottleMax
      BY <1>1, <3>2
    <3> QED BY <3>2, <3>5, <3>6, <3>7
  <2>2. CASE Lasts(th, k) = {} /\ Len(th) >= ThrottleMax
    <3>1. kept = Tail(th) /\ th # << >>
      BY <1>1, <2>2
    <3>2. /\ Tail(th) \in Seq(Entry) /\ Len(Tail(th)) = Len(th) - 1
          /\ \A i \in 1 .. Len(th) - 1 : Tail(th)[i] = th[i + 1]
      BY <3>1, TailFacts
    <3> HIDE DEF kept
    <3>3. \A i \in 1 .. Len(th) - 1 : i + 1 \in 1 .. Len(th) /\ kept[i] = th[i + 1]
      BY <1>1, <3>1, <3>2
    <3>4. \A i \in 1 .. Len(th) : th[i].key # k
      BY <1>1, <2>2 DEF Lasts
    <3>5. \A i, j \in 1 .. Len(kept) : kept[i].key = kept[j].key => i + 1 = j + 1
      BY <1>1, <3>1, <3>2, <3>3 DEF Distinct
    <3>6. \A i, j \in 1 .. Len(kept) : kept[i].key = kept[j].key => i = j
      BY <1>1, <3>1, <3>2, <3>5
    <3>7. Len(kept) + 1 <= ThrottleMax
      BY <1>1, <3>1, <3>2
    <3> QED BY <1>1, <3>1, <3>2, <3>3, <3>4, <3>6, <3>7
  <2>3. CASE Lasts(th, k) = {} /\ ~ (Len(th) >= ThrottleMax)
    <3>1. kept = th
      BY <2>3
    <3> HIDE DEF kept
    <3>2. \A i \in 1 .. Len(th) : th[i].key # k
      BY <1>1, <2>3 DEF Lasts
    <3> QED BY <1>1, <2>3, <3>1, <3>2 DEF Distinct
  <2> QED BY <2>1, <2>2, <2>3
<1> HIDE DEF kept, r, new
<1>5. /\ r \in Seq(Entry) /\ Len(r) = Len(kept) + 1
      /\ \A i \in 1 .. Len(kept) : r[i] = kept[i]
      /\ r[Len(kept) + 1] = new
      /\ Range(r) = Range(kept) \cup {new}
  BY <1>2, <1>3, <1>4, AppendFacts
<1>6. /\ Len(kept) \in Nat /\ DOMAIN r = 1 .. Len(kept) + 1
      /\ Range(kept) = {kept[i] : i \in 1 .. Len(kept)}
  BY <1>4, <1>5, SeqFacts
<1>7. new.key = k /\ new.value = v
  BY DEF new
<1>8. Distinct(r)
  <2> SUFFICES ASSUME NEW i \in 1 .. Len(kept) + 1, NEW j \in 1 .. Len(kept) + 1,
                      r[i].key = r[j].key
               PROVE  i = j
    BY <1>6 DEF Distinct
  <2>1. i \in 1 .. Len(kept) \/ i = Len(kept) + 1
    BY <1>6
  <2>2. j \in 1 .. Len(kept) \/ j = Len(kept) + 1
    BY <1>6
  <2> QED BY <1>4, <1>5, <1>7, <2>1, <2>2
<1>9. \A e \in Range(r) : \/ e.key = k /\ e.value = v
                          \/ e.key # k /\ e \in Range(th)
  BY <1>4, <1>5, <1>6, <1>7
<1> QED BY <1>4, <1>5, <1>8, <1>9 DEF r

-----------------------------------------------------------------------------
(* What an entry of the throttle says: the value sent in this batch or, if *)
(* there is none, what an entry of th0 said.                               *)
Says(th0, out, e) ==
  IF e.key \in LeavesOf(out) THEN Shown(out)[e.key] = {e.value}
  ELSE \E f \in Range(th0) : f.key = e.key /\ f.value = e.value

(* What holds when the first n deltas of a batch have been prepared, with  *)
(* the throttle th0 before.                                                *)
Handed(th0, batch, n, q) ==
  /\ Distinct(q.throttle) /\ Len(q.throttle) <= ThrottleMax
  /\ \A l \in LeavesOf(q.out) : Allowed(l) /\ \E i \in 1 .. n : batch[i].leaf = l
  /\ \A i \in 1 .. n : Allowed(batch[i].leaf) /\ Unruled(batch[i].leaf)
                         => batch[i].leaf \in LeavesOf(q.out)
  /\ \A e \in Range(q.throttle) : ~ Unruled(e.key) /\ Says(th0, q.out, e)
  /\ \A l \in Leaves : \A i \in 1 .. n :
       /\ Allowed(l) /\ ~ Rules[l].interval /\ l \notin lost \ LeavesOf(q.out)
       /\ LastAmong(batch, l, i, n)
       => \A v \in Shown(q.out)[l] : Shows(l, v, batch[i].value)

(* The throttle before the batch told what the receiver had. *)
Told(th0) ==
  \A e \in Range(th0) : /\ ~ Unruled(e.key)
                        /\ e.key \notin lost => receiver[e.key] \subseteq {e.value}

LEMMA LastAmongStep ==
  ASSUME NEW s \in Seq(Delta), NEW n \in 1 .. Len(s), NEW l, NEW i \in 1 .. n,
         LastAmong(s, l, i, n)
  PROVE  /\ s[n].leaf = l => i = n
         /\ s[n].leaf # l => i \in 1 .. n - 1 /\ LastAmong(s, l, i, n - 1)
<1>1. Len(s) \in Nat
  BY SeqFacts
<1>2. s[n].leaf = l => i = n
  BY <1>1 DEF LastAmong
<1>3. s[n].leaf # l => i # n
  BY DEF LastAmong
<1> QED BY <1>1, <1>2, <1>3 DEF LastAmong

(* A delta that the path filter holds back. *)
LEMMA SkipKeeps ==
  ASSUME NEW th0, NEW batch \in Seq(Delta), NEW n \in 1 .. Len(batch),
         NEW q \in Accumulated, Handed(th0, batch, n - 1, q),
         ~ Allowed(batch[n].leaf)
  PROVE  Handed(th0, batch, n, q)
<1>1. Len(batch) \in Nat /\ n \in Nat /\ 1 .. n = (1 .. n - 1) \cup {n}
  BY SeqFacts
<1>2. ASSUME NEW l \in Leaves, NEW i \in 1 .. n, Allowed(l), ~ Rules[l].interval,
             l \notin lost \ LeavesOf(q.out), LastAmong(batch, l, i, n)
      PROVE  \A v \in Shown(q.out)[l] : Shows(l, v, batch[i].value)
  <2>1. batch[n].leaf # l
    BY <1>2
  <2>2. i \in 1 .. n - 1 /\ LastAmong(batch, l, i, n - 1)
    BY <1>2, <2>1, LastAmongStep
  <2> QED BY <1>2, <2>2 DEF Handed
<1>3. \A i \in 1 .. n : Allowed(batch[i].leaf) /\ Unruled(batch[i].leaf)
                         => batch[i].leaf \in LeavesOf(q.out)
  BY <1>1 DEF Handed
<1>4. \A l \in LeavesOf(q.out) : Allowed(l) /\ \E i \in 1 .. n : batch[i].leaf = l
  BY <1>1 DEF Handed
<1> QED BY <1>2, <1>3, <1>4 DEF Handed

(* A delta that a rule holds back. *)
LEMMA DropKeeps ==
  ASSUME NEW th0, Told(th0), NEW batch \in Seq(Delta), NEW n \in 1 .. Len(batch),
         NEW q \in Accumulated, Handed(th0, batch, n - 1, q),
         Allowed(batch[n].leaf), ~ Unruled(batch[n].leaf),
         NEW e \in Range(q.throttle), e.key = batch[n].leaf,
         Rules[e.key].interval \/ Abs(Rounded(batch[n]) - e.value) < Rules[e.key].deadband
  PROVE  Handed(th0, batch, n, q)
<1>1. Len(batch) \in Nat /\ n \in Nat /\ 1 .. n = (1 .. n - 1) \cup {n}
  BY SeqFacts
<1>0. q.out \in Seq(Delta) /\ q.throttle \in Seq(Entry) /\ e \in Entry
  BY SeqFacts DEF Accumulated
<1>t. e.value \in Int /\ Rounded(batch[n]) \in Int /\ batch[n].leaf \in Leaves
  BY <1>0, SeqFacts, RoundedType DEF Entry, ThrottleEntry
<1>2. ASSUME NEW l \in Leaves, NEW i \in 1 .. n, Allowed(l), ~ Rules[l].interval,
             l \notin lost \ LeavesOf(q.out), LastAmong(batch, l, i, n)
      PROVE  \A v \in Shown(q.out)[l] : Shows(l, v, batch[i].value)
  <2>1. CASE batch[n].leaf # l
    <3>1. i \in 1 .. n - 1 /\ LastAmong(batch, l, i, n - 1)
      BY <1>2, <2>1, LastAmongStep
    <3> QED BY <1>2, <3>1 DEF Handed
  <2>2. CASE batch[n].leaf = l
    <3>1. i = n
      BY <1>2, <2>2, LastAmongStep
    <3>2. Abs(Rounded(batch[n]) - e.value) < Rules[l].deadband
      BY <1>2, <2>2
    <3>3. Abs(e.value - Rounded(batch[n])) = Abs(Rounded(batch[n]) - e.value)
      BY <1>t DEF Abs
    <3>4. Shows(l, e.value, batch[i].value)
      BY <2>2, <3>1, <3>2, <3>3 DEF Shows, Rounded
    <3>5. Shown(q.out)[l] \subseteq {e.value}
      <4>1. Says(th0, q.out, e)
        BY DEF Handed
      <4>2. CASE l \in LeavesOf(q.out)
        BY <2>2, <4>1, <4>2 DEF Says
      <4>3. CASE l \notin LeavesOf(q.out)
        <5>1. PICK f \in Range(th0) : f.key = e.key /\ f.value = e.value
          BY <2>2, <4>1, <4>3 DEF Says
        <5>2. receiver[l] \subseteq {e.value}
          BY <1>2, <2>2, <4>3, <5>1 DEF Told
        <5>3. Shown(q.out)[l] = receiver[l]
          BY <1>0, <4>3, ShownFacts
        <5> QED BY <5>2, <5>3
      <4> QED BY <4>2, <4>3
    <3> QED BY <3>4, <3>5
  <2> QED BY <2>1, <2>2
<1>3. \A i \in 1 .. n : Allowed(batch[i].leaf) /\ Unruled(batch[i].leaf)
                         => batch[i].leaf \in LeavesOf(q.out)
  BY <1>1 DEF Handed
<1>4. \A l \in LeavesOf(q.out) : Allowed(l) /\ \E i \in 1 .. n : batch[i].leaf = l
  BY <1>1 DEF Handed
<1> QED BY <1>2, <1>3, <1>4 DEF Handed

(* A delta that is sent, and recorded if there is a rule. *)
LEMMA SendKeeps ==
  ASSUME NEW th0, NEW batch \in Seq(Delta), NEW n \in 1 .. Len(batch),
         NEW q \in Accumulated, Handed(th0, batch, n - 1, q),
         Allowed(batch[n].leaf),
         NEW th \in Seq(Entry), Distinct(th), Len(th) <= ThrottleMax,
         \A e \in Range(th) :
           \/ /\ e.key = batch[n].leaf /\ e.value = Rounded(batch[n])
              /\ ~ Unruled(e.key)
           \/ e.key # batch[n].leaf /\ e \in Range(q.throttle),
         NEW p \in Accumulated,
         p = [throttle |-> th,
              out |-> Append(q.out, [batch[n] EXCEPT !.value = Rounded(batch[n])])]
  PROVE  Handed(th0, batch, n, p)
<1> DEFINE d == [batch[n] EXCEPT !.value = Rounded(batch[n])]
<1>1. Len(batch) \in Nat /\ n \in Nat /\ 1 .. n = (1 .. n - 1) \cup {n} /\ batch[n] \in Delta
  BY SeqFacts
<1>2. /\ q.out \in Seq(Delta) /\ p.out = Append(q.out, d) /\ p.throttle = th
  BY DEF Accumulated
<1>3. /\ d \in Delta /\ d.leaf = batch[n].leaf /\ d.value = Rounded(batch[n])
      /\ d.leaf \in Leaves
  BY <1>1, RoundedType
<1> HIDE DEF d
<1>4. LeavesOf(p.out) = LeavesOf(q.out) \cup {d.leaf}
  <2>1. PICK o : o = q.out
    OBVIOUS
  <2>2. o \in Seq(Delta) /\ p.out = Append(o, d)
    BY <1>2, <2>1
  <2>3. LeavesOf(Append(o, d)) = LeavesOf(o) \cup {d.leaf}
    BY <1>3, <2>2, LeavesFacts
  <2> QED BY <2>1, <2>2, <2>3
<1>5. \A l \in Leaves : Shown(p.out)[l] = IF l = d.leaf THEN {d.value}
                                                        ELSE Shown(q.out)[l]
  <2>1. PICK o : o = q.out
    OBVIOUS
  <2>2. o \in Seq(Delta) /\ p.out = Append(o, d)
    BY <1>2, <2>1
  <2>3. \A l \in Leaves :
          Shown(Append(o, d))[l] = IF l = d.leaf THEN {d.value} ELSE Shown(o)[l]
    BY <1>3, <2>2, ShownFacts
  <2> QED BY <2>1, <2>2, <2>3
<1>6. ASSUME NEW l \in Leaves, NEW i \in 1 .. n, Allowed(l), ~ Rules[l].interval,
             l \notin lost \ LeavesOf(p.out), LastAmong(batch, l, i, n)
      PROVE  \A v \in Shown(p.out)[l] : Shows(l, v, batch[i].value)
  <2>1. CASE batch[n].leaf # l
    <3>1. i \in 1 .. n - 1 /\ LastAmong(batch, l, i, n - 1)
      BY <1>6, <2>1, LastAmongStep
    <3>2. l \notin lost \ LeavesOf(q.out) /\ Shown(p.out)[l] = Shown(q.out)[l]
      BY <1>3, <1>4, <1>5, <1>6, <2>1
    <3> QED BY <1>6, <3>1, <3>2 DEF Handed
  <2>2. CASE batch[n].leaf = l
    <3>1. i = n
      BY <1>6, <2>2, LastAmongStep
    <3>2. Shown(p.out)[l] = {Rounded(batch[n])}
      BY <1>3, <1>5, <2>2
    <3> QED BY <2>2, <3>1, <3>2 DEF Shows, Rounded
  <2> QED BY <2>1, <2>2
<1>7. ASSUME NEW e \in Range(p.throttle)
      PROVE  ~ Unruled(e.key) /\ Says(th0, p.out, e)
  <2>0. e.key \in Leaves
    <3>1. Range(th) \subseteq Entry
      BY SeqFacts
    <3>2. e \in Entry
      BY <1>2, <3>1
    <3> QED BY <3>2 DEF Entry, ThrottleEntry
  <2>1. CASE /\ e.key = batch[n].leaf /\ e.value = Rounded(batch[n])
             /\ ~ Unruled(e.key)
    BY <1>3, <1>4, <1>5, <2>0, <2>1 DEF Says
  <2>2. CASE e.key # batch[n].leaf /\ e \in Range(q.throttle)
    <3>1. ~ Unruled(e.key) /\ Says(th0, q.out, e)
      BY <2>2 DEF Handed
    <3>2. Shown(p.out)[e.key] = Shown(q.out)[e.key]
      BY <1>3, <1>5, <2>0, <2>2
    <3>3. e.key \in LeavesOf(p.out) <=> e.key \in LeavesOf(q.out)
      BY <1>3, <1>4, <2>2
    <3> QED BY <3>1, <3>2, <3>3 DEF Says
  <2> QED BY <1>2, <1>7, <2>1, <2>2
<1>8. \A i \in 1 .. n : Allowed(batch[i].leaf) /\ Unruled(batch[i].leaf)
                         => batch[i].leaf \in LeavesOf(p.out)
  BY <1>1, <1>3, <1>4 DEF Handed
<1>9. \A l \in LeavesOf(p.out) : Allowed(l) /\ \E i \in 1 .. n : batch[i].leaf = l
  BY <1>1, <1>3, <1>4 DEF Handed
<1> QED BY <1>2, <1>6, <1>7, <1>8, <1>9 DEF Handed

(* One more delta is prepared. *)
LEMMA PrepareKeeps ==
  ASSUME NEW th0, Told(th0), NEW batch \in Seq(Delta), NEW n \in 1 .. Len(batch),
         NEW q \in Accumulated, Handed(th0, batch, n - 1, q)
  PROVE  /\ Prepare(q, batch[n]) \in Accumulated
         /\ Handed(th0, batch, n, Prepare(q, batch[n]))
<1> DEFINE d == batch[n]
           rule == Rules[d.leaf]
           v == Rounded(d)
           e == [d EXCEPT !.value = v]
<1>1. d \in Delta
  BY SeqFacts
<1>2. /\ d.leaf \in Leaves /\ v \in Int /\ e \in Delta
      /\ q.out \in Seq(Delta) /\ q.throttle \in Seq(Entry)
  BY <1>1, RoundedType DEF Accumulated
<1>3. rule.deadband \in Nat /\ rule.interval \in BOOLEAN
  BY <1>2, PipelineAssumption
<1>4. Append(q.out, e) \in Seq(Delta)
  BY <1>2, AppendFacts
<1>5. CASE ~ Allowed(d.leaf)
  <2>1. Prepare(q, d) = q
    BY <1>5 DEF Prepare, Allowed
  <2> QED BY <1>5, <2>1, SkipKeeps
<1>6. CASE Allowed(d.leaf) /\ Unruled(d.leaf)
  <2> DEFINE p == [throttle |-> q.throttle, out |-> Append(q.out, e)]
  <2> DEFINE longer == Append(q.out, e)
  <2>1. \A x : [q EXCEPT !.out = x] = [throttle |-> q.throttle, out |-> x]
    BY DEF Accumulated
  <2>2. [q EXCEPT !.out = longer] = p
    BY <2>1
  <2>3. Prepare(q, d) = [q EXCEPT !.out = Append(q.out, e)]
    BY <1>6 DEF Prepare, Throttle, Allowed, Unruled, Rounded
  <2>4. p \in Accumulated
    BY <1>2, <1>4 DEF Accumulated
  <2>5. \A f \in Range(q.throttle) : f.key # d.leaf
    BY <1>6 DEF Handed
  <2>6. Distinct(q.throttle) /\ Len(q.throttle) <= ThrottleMax
    BY DEF Handed
  <2>7. Handed(th0, batch, n, p)
    BY <1>2, <1>6, <2>4, <2>5, <2>6, SendKeeps
  <2> QED BY <2>2, <2>3, <2>4, <2>7
<1>7. CASE /\ Allowed(d.leaf) /\ ~ Unruled(d.leaf)
           /\ ShouldDropValue(q.throttle, d.leaf, v, rule)
  <2>1. Prepare(q, d) = q
    BY <1>7 DEF Prepare, Throttle, Allowed, Unruled, Rounded
  <2>2. PICK i \in DOMAIN q.throttle :
          /\ q.throttle[i].key = d.leaf
          /\ \/ rule.interval /\ q.throttle[i].fresh
             \/ rule.deadband > 0 /\ Abs(v - q.throttle[i].value) < rule.deadband
    BY <1>7 DEF ShouldDropValue, Lasts
  <2>3. q.throttle[i] \in Range(q.throttle)
    BY <2>2 DEF Range
  <2>4. Rules[d.leaf].interval \/ Abs(Rounded(batch[n]) - q.throttle[i].value) < Rules[d.leaf].deadband
    BY <2>2
  <2>5. Handed(th0, batch, n, q)
    BY <1>7, <2>2, <2>3, <2>4, DropKeeps
  <2> QED BY <2>1, <2>5
<1>8. CASE /\ Allowed(d.leaf) /\ ~ Unruled(d.leaf)
           /\ ~ ShouldDropValue(q.throttle, d.leaf, v, rule)
  <2> DEFINE th == RecordSentValue(q.throttle, d.leaf, v)
             p == [throttle |-> th, out |-> Append(q.out, e)]
  <2>1. Prepare(q, d) = p
    BY <1>8 DEF Prepare, Throttle, Allowed, Unruled, Rounded
  <2>2. Distinct(q.throttle) /\ Len(q.throttle) <= ThrottleMax
    BY DEF Handed
  <2>3. /\ th \in Seq(Entry) /\ Distinct(th) /\ Len(th) <= ThrottleMax
        /\ \A f \in Range(th) : \/ f.key = d.leaf /\ f.value = v
                                \/ f.key # d.leaf /\ f \in Range(q.throttle)
    BY <1>2, <2>2, RecordFacts
  <2> HIDE DEF th
  <2>4. p \in Accumulated
    BY <1>2, <1>4, <2>3 DEF Accumulated
  <2>5. Handed(th0, batch, n, p)
    BY <1>8, <2>3, <2>4, SendKeeps
  <2> QED BY <2>1, <2>4, <2>5
<1> QED BY <1>5, <1>6, <1>7, <1>8

(* What preparing a whole batch gives. *)
LEMMA PreparedFacts ==
  ASSUME NEW c, c.throttle \in Seq(Entry), Distinct(c.throttle),
         Len(c.throttle) <= ThrottleMax, Told(c.throttle), NEW batch \in Seq(Delta)
  PROVE  /\ Prepared(c, batch) \in Accumulated
         /\ Handed(c.throttle, batch, Len(batch), Prepared(c, batch))
<1> DEFINE Q == [n \in 0 .. Len(batch) |->
                   {q \in Accumulated : Handed(c.throttle, batch, n, q)}]
           zero == [throttle |-> c.throttle, out |-> << >>]
<1>0. Len(batch) \in Nat
  BY SeqFacts
<1>1. zero \in Accumulated /\ zero.throttle = c.throttle /\ zero.out = << >>
  BY EmptySeq DEF Accumulated
<1> HIDE DEF zero
<1>2. << >> \in Seq(Delta) /\ LeavesOf(<< >>) = {}
  BY LeavesFacts, EmptySeq
<1>3. Handed(c.throttle, batch, 0, zero)
  <2>1. \A e \in Range(c.throttle) : ~ Unruled(e.key)
    BY DEF Told
  <2>2. \A e \in Range(c.throttle) : Says(c.throttle, << >>, e)
    BY <1>2 DEF Says
  <2>3. 1 .. 0 = {}
    OBVIOUS
  <2> QED BY <1>1, <1>2, <2>1, <2>2, <2>3 DEF Handed
<1>4. zero \in Q[0]
  BY <1>0, <1>1, <1>3
<1>5. ASSUME NEW n \in 1 .. Len(batch), NEW q \in Q[n - 1]
      PROVE  Prepare(q, batch[n]) \in Q[n]
  <2>1. n - 1 \in 0 .. Len(batch) /\ n \in 0 .. Len(batch)
    BY <1>0
  <2>2. q \in Accumulated /\ Handed(c.throttle, batch, n - 1, q)
    BY <1>5, <2>1
  <2>3. /\ Prepare(q, batch[n]) \in Accumulated
        /\ Handed(c.throttle, batch, n, Prepare(q, batch[n]))
    BY <2>2, PrepareKeeps
  <2> QED BY <2>1, <2>3
<1> HIDE DEF Q
<1>6. Stages(c.throttle, batch)[Len(batch)] \in Q[Len(batch)]
  BY <1>4, <1>5, StagesKeep DEF zero
<1> USE DEF Q
<1>7. /\ Stages(c.throttle, batch)[Len(batch)] \in Accumulated
      /\ Handed(c.throttle, batch, Len(batch), Stages(c.throttle, batch)[Len(batch)])
  BY <1>0, <1>6
<1> QED BY <1>7 DEF Prepared

-----------------------------------------------------------------------------
(* The deltas of s after which nothing more comes of their leaves. *)
LastDeltas(s) ==
  {s[i] : i \in {i \in DOMAIN s : \A j \in DOMAIN s : j > i => s[j].leaf # s[i].leaf}}

LEMMA LastOfAppend ==
  ASSUME NEW s \in Seq(Delta), NEW d \in Delta, NEW e \in LastDeltas(Append(s, d))
  PROVE  e = d \/ (e.leaf # d.leaf /\ e \in LastDeltas(s))
<1> DEFINE w == Append(s, d)
<1>1. /\ w \in Seq(Delta) /\ Len(w) = Len(s) + 1
      /\ \A i \in 1 .. Len(s) : w[i] = s[i]
      /\ w[Len(s) + 1] = d
  BY AppendFacts
<1> HIDE DEF w
<1>2. /\ Len(s) \in Nat /\ DOMAIN s = 1 .. Len(s) /\ DOMAIN w = 1 .. Len(s) + 1
  BY <1>1, SeqFacts
<1>3. PICK i \in DOMAIN w : /\ e = w[i]
                            /\ \A j \in DOMAIN w : j > i => w[j].leaf # w[i].leaf
  BY DEF LastDeltas, w
<1>4. CASE i = Len(s) + 1
  BY <1>1, <1>3, <1>4
<1>5. CASE i \in 1 .. Len(s)
  <2>1. Len(s) + 1 \in DOMAIN w /\ Len(s) + 1 > i
    BY <1>2, <1>5
  <2>2. e.leaf # d.leaf
    BY <1>1, <1>3, <2>1
  <2>3. \A j \in 1 .. Len(s) : j > i => s[j].leaf # s[i].leaf
    BY <1>1, <1>2, <1>3, <1>5
  <2>4. e = s[i]
    BY <1>1, <1>3, <1>5
  <2> QED BY <1>2, <1>5, <2>2, <2>3, <2>4 DEF LastDeltas
<1> QED BY <1>2, <1>3, <1>4, <1>5

(* A sequence cut in two. *)
LEMMA CutFacts ==
  ASSUME NEW s \in Seq(Delta), NEW k \in 0 .. Len(s)
  PROVE  /\ SubSeq(s, 1, k) \in Seq(Delta) /\ Len(SubSeq(s, 1, k)) = k
         /\ SubSeq(s, k + 1, Len(s)) \in Seq(Delta)
         /\ Len(SubSeq(s, k + 1, Len(s))) = Len(s) - k
         /\ Range(SubSeq(s, 1, k)) \subseteq Range(s)
         /\ Range(SubSeq(s, k + 1, Len(s))) \subseteq Range(s)
         /\ LeavesOf(s) = LeavesOf(SubSeq(s, 1, k)) \cup LeavesOf(SubSeq(s, k + 1, Len(s)))
         /\ LastDeltas(SubSeq(s, k + 1, Len(s))) \subseteq LastDeltas(s)
         /\ \A l \in Leaves \ LeavesOf(SubSeq(s, k + 1, Len(s))) : \A i \in 1 .. k :
              LastAmong(SubSeq(s, 1, k), l, i, k) => SubSeq(s, 1, k)[i] \in LastDeltas(s)
<1> DEFINE a == SubSeq(s, 1, k)
           b == SubSeq(s, k + 1, Len(s))
<1>1. /\ Len(s) \in Nat /\ DOMAIN s = 1 .. Len(s) /\ k \in Nat /\ k <= Len(s)
      /\ Range(s) = {s[i] : i \in 1 .. Len(s)}
  BY SeqFacts
<1>2. /\ a \in Seq(Delta) /\ Len(a) = k /\ Range(a) = {s[i] : i \in 1 .. k}
      /\ \A i \in 1 .. k : a[i] = s[i]
  <2>1. 1 \in 1 .. Len(s) + 1 /\ 1 <= k + 1
    BY <1>1
  <2>2. /\ a \in Seq(Delta) /\ Len(a) = (k - 1) + 1 /\ Range(a) = {s[i] : i \in 1 .. k}
        /\ \A i \in 1 .. (k - 1) + 1 : a[i] = s[(1 + i) - 1]
    BY <1>1, <2>1, SubSeqFacts
  <2> HIDE DEF a
  <2> QED BY <1>1, <2>2
<1>3. /\ b \in Seq(Delta) /\ Len(b) = Len(s) - k
      /\ Range(b) = {s[i] : i \in k + 1 .. Len(s)}
      /\ \A i \in 1 .. Len(s) - k : b[i] = s[k + i]
  <2>1. k + 1 \in 1 .. Len(s) + 1 /\ Len(s) \in 0 .. Len(s) /\ k + 1 <= Len(s) + 1
    BY <1>1
  <2> DEFINE m == k + 1
             n == Len(s)
  <2>3. m \in 1 .. Len(s) + 1 /\ n \in 0 .. Len(s) /\ m <= n + 1
    BY <2>1
  <2> HIDE DEF m, n
  <2>4. /\ SubSeq(s, m, n) \in Seq(Delta) /\ Len(SubSeq(s, m, n)) = (n - m) + 1
        /\ \A i \in 1 .. (n - m) + 1 : SubSeq(s, m, n)[i] = s[(m + i) - 1]
        /\ Range(SubSeq(s, m, n)) = {s[i] : i \in m .. n}
    BY <2>3, SubSeqFacts
  <2>2. /\ b \in Seq(Delta) /\ Len(b) = (Len(s) - (k + 1)) + 1
        /\ Range(b) = {s[i] : i \in k + 1 .. Len(s)}
        /\ \A i \in 1 .. (Len(s) - (k + 1)) + 1 : b[i] = s[((k + 1) + i) - 1]
    BY <2>4 DEF m, n
  <2> HIDE DEF b
  <2> QED BY <1>1, <2>2
<1> HIDE DEF a, b
<1>4. /\ LeavesOf(s) = {d.leaf : d \in Range(s)}
      /\ LeavesOf(a) = {d.leaf : d \in Range(a)}
      /\ LeavesOf(b) = {d.leaf : d \in Range(b)}
  BY <1>2, <1>3, LeavesFacts
<1>5. Range(s) = Range(a) \cup Range(b)
  <2>1. 1 .. Len(s) = (1 .. k) \cup (k + 1 .. Len(s))
    BY <1>1
  <2> QED BY <1>1, <1>2, <1>3, <2>1
<1>6. LeavesOf(s) = LeavesOf(a) \cup LeavesOf(b)
  BY <1>4, <1>5
<1>7. ASSUME NEW e \in LastDeltas(b) PROVE e \in LastDeltas(s)
  <2>1. DOMAIN b = 1 .. Len(s) - k
    BY <1>3, SeqFacts
  <2>2. PICK i \in 1 .. Len(s) - k : /\ e = b[i]
                                     /\ \A j \in 1 .. Len(s) - k : j > i => b[j].leaf # b[i].leaf
    BY <1>7, <2>1 DEF LastDeltas
  <2>3. k + i \in 1 .. Len(s) /\ e = s[k + i]
    BY <1>1, <1>3, <2>2
  <2>4. ASSUME NEW j \in 1 .. Len(s), j > k + i PROVE s[j].leaf # s[k + i].leaf
    <3>1. j - k \in 1 .. Len(s) - k /\ j - k > i /\ k + (j - k) = j
      BY <1>1, <2>2, <2>4
    <3>2. b[j - k] = s[j]
      BY <1>3, <3>1
    <3> QED BY <1>3, <2>2, <3>1, <3>2
  <2> QED BY <1>1, <2>3, <2>4 DEF LastDeltas
<1>8. ASSUME NEW l \in Leaves \ LeavesOf(b), NEW i \in 1 .. k, LastAmong(a, l, i, k)
      PROVE  a[i] \in LastDeltas(s)
  <2>1. a[i] = s[i] /\ i \in 1 .. Len(s)
    BY <1>1, <1>2
  <2>2. ASSUME NEW j \in 1 .. Len(s), j > i PROVE s[j].leaf # s[i].leaf
    <3>1. CASE j \in 1 .. k
      BY <1>1, <1>2, <1>8, <2>2, <3>1 DEF LastAmong
    <3>2. CASE j \in k + 1 .. Len(s)
      <4>1. s[j] \in Range(b)
        BY <1>3, <3>2
      <4>2. s[j].leaf \in LeavesOf(b)
        BY <1>4, <4>1
      <4> QED BY <1>8, <2>1, <4>2 DEF LastAmong
    <3> QED BY <1>1, <3>1, <3>2
  <2> QED BY <1>1, <2>1, <2>2 DEF LastDeltas
<1> QED BY <1>2, <1>3, <1>5, <1>6, <1>7, <1>8 DEF a, b

(* The leaves of a part of a sequence. *)
LEMMA PartLeaves ==
  ASSUME NEW s \in Seq(Delta), NEW m \in Nat \ {0}, NEW n \in 0 .. Len(s)
  PROVE  /\ SubSeq(s, m, n) \in Seq(Delta)
         /\ LeavesOf(SubSeq(s, m, n)) = {s[i].leaf : i \in m .. n}
         /\ LeavesOf(SubSeq(s, m, n)) \subseteq Leaves
<1> DEFINE w == SubSeq(s, m, n)
<1>1. Len(s) \in Nat /\ n \in Nat
  BY SeqFacts
<1>2. CASE m <= n
  <2>1. m \in 1 .. Len(s) + 1 /\ m <= n + 1
    BY <1>1, <1>2
  <2>2. /\ w \in Seq(Delta) /\ Len(w) = (n - m) + 1
        /\ \A i \in 1 .. (n - m) + 1 : w[i] = s[(m + i) - 1]
        /\ Range(w) = {s[i] : i \in m .. n}
    BY <2>1, SubSeqFacts
  <2> HIDE DEF w
  <2>3. LeavesOf(w) = {e.leaf : e \in Range(w)} /\ LeavesOf(w) \subseteq Leaves
    BY <2>2, LeavesFacts
  <2>4. LeavesOf(w) = {s[i].leaf : i \in m .. n}
    BY <2>2, <2>3
  <2> QED BY <2>2, <2>3, <2>4 DEF w
<1>3. CASE ~ (m <= n)
  <2>1. m \in Int /\ n \in Int /\ n < m /\ m .. n = {}
    BY <1>1, <1>3
  <2>2. w = << >>
    BY <2>1, SubSeqEmpty
  <2>3. << >> \in Seq(Delta) /\ LeavesOf(<< >>) = {}
    BY LeavesFacts, EmptySeq
  <2> QED BY <2>1, <2>2, <2>3
<1> QED BY <1>2, <1>3

-----------------------------------------------------------------------------
(* What the replays ps have still to feed. *)
Feeds(ps) == UNION {Range(ps[i]) : i \in DOMAIN ps}
NoneEmpty(ps) == \A i \in DOMAIN ps : ps[i] # << >>

(* A replay more. *)
LEMMA OneMoreReplay ==
  ASSUME NEW ps \in Seq(Seq(Delta)), NEW s \in Seq(Delta)
  PROVE  /\ Append(ps, s) \in Seq(Seq(Delta))
         /\ Feeds(Append(ps, s)) = Feeds(ps) \cup Range(s)
         /\ NoneEmpty(ps) /\ s # << >> => NoneEmpty(Append(ps, s))
<1> DEFINE qs == Append(ps, s)
<1>1. /\ qs \in Seq(Seq(Delta)) /\ Len(qs) = Len(ps) + 1
      /\ \A i \in 1 .. Len(ps) : qs[i] = ps[i]
      /\ qs[Len(ps) + 1] = s
  BY AppendFacts
<1> HIDE DEF qs
<1>2. /\ Len(ps) \in Nat /\ DOMAIN ps = 1 .. Len(ps)
      /\ DOMAIN qs = (1 .. Len(ps)) \cup {Len(ps) + 1}
  BY <1>1, SeqFacts
<1>3. ASSUME NEW e PROVE e \in Feeds(qs) <=> e \in Feeds(ps) \cup Range(s)
  BY <1>1, <1>2 DEF Feeds
<1>4. NoneEmpty(ps) /\ s # << >> => NoneEmpty(qs)
  BY <1>1, <1>2 DEF NoneEmpty
<1> QED BY <1>1, <1>3, <1>4 DEF qs

(* A replay less. *)
LEMMA OneReplayLess ==
  ASSUME NEW ps \in Seq(Seq(Delta)), NEW k \in 1 .. Len(ps)
  PROVE  /\ RemoveAt(ps, k) \in Seq(Seq(Delta))
         /\ Feeds(RemoveAt(ps, k)) \subseteq Feeds(ps)
         /\ Feeds(ps) \subseteq Feeds(RemoveAt(ps, k)) \cup Range(ps[k])
         /\ NoneEmpty(ps) => NoneEmpty(RemoveAt(ps, k))
<1> DEFINE qs == RemoveAt(ps, k)
           place(i) == IF i < k THEN i ELSE i + 1
<1>1. /\ qs \in Seq(Seq(Delta)) /\ Len(qs) = Len(ps) - 1
      /\ \A i \in 1 .. Len(ps) - 1 : qs[i] = IF i < k THEN ps[i] ELSE ps[i + 1]
  BY RemoveAtFacts
<1> HIDE DEF qs
<1>2. /\ Len(ps) \in Nat /\ DOMAIN ps = 1 .. Len(ps) /\ DOMAIN qs = 1 .. Len(ps) - 1
  BY <1>1, SeqFacts
<1>3. \A i \in 1 .. Len(ps) - 1 : place(i) \in 1 .. Len(ps) /\ qs[i] = ps[place(i)]
  <2>1. \A i \in 1 .. Len(ps) - 1 : place(i) \in 1 .. Len(ps)
    BY <1>2
  <2>2. \A i \in 1 .. Len(ps) - 1 : qs[i] = ps[place(i)]
    BY <1>1
  <2> QED BY <2>1, <2>2
<1>4. \A j \in 1 .. Len(ps) : j = k \/ \E i \in 1 .. Len(ps) - 1 : qs[i] = ps[j]
  <2> SUFFICES ASSUME NEW j \in 1 .. Len(ps), j # k
               PROVE  \E i \in 1 .. Len(ps) - 1 : qs[i] = ps[j]
    OBVIOUS
  <2>1. CASE j < k
    <3>1. j \in 1 .. Len(ps) - 1
      BY <1>2, <2>1
    <3>2. qs[j] = ps[j]
      BY <1>1, <2>1, <3>1
    <3> QED BY <3>1, <3>2
  <2>2. CASE j > k
    <3>1. j - 1 \in 1 .. Len(ps) - 1 /\ ~ (j - 1 < k) /\ (j - 1) + 1 = j
      BY <1>2, <2>2
    <3>2. qs[j - 1] = ps[j]
      BY <1>1, <3>1
    <3> QED BY <3>1, <3>2
  <2> QED BY <1>2, <2>1, <2>2
<1> HIDE DEF place
<1>5. Feeds(qs) \subseteq Feeds(ps)
  BY <1>2, <1>3 DEF Feeds
<1>6. Feeds(ps) \subseteq Feeds(qs) \cup Range(ps[k])
  BY <1>2, <1>4 DEF Feeds
<1>7. NoneEmpty(ps) => NoneEmpty(qs)
  BY <1>2, <1>3 DEF NoneEmpty
<1> QED BY <1>1, <1>5, <1>6, <1>7 DEF qs

(* A replay that has fed one delta. *)
LEMMA ChunkFacts ==
  ASSUME NEW ps \in Seq(Seq(Delta)), NoneEmpty(ps), NEW k \in 1 .. Len(ps)
  PROVE  /\ ps[k][1] \in Feeds(ps) /\ ps[k][1] \in Delta
         /\ AfterChunk(ps, k) \in Seq(Seq(Delta))
         /\ Feeds(AfterChunk(ps, k)) \subseteq Feeds(ps)
         /\ Feeds(ps) \subseteq Feeds(AfterChunk(ps, k)) \cup {ps[k][1]}
         /\ NoneEmpty(AfterChunk(ps, k))
<1> DEFINE s == ps[k]
<1>1. /\ Len(ps) \in Nat /\ DOMAIN ps = 1 .. Len(ps)
      /\ s \in Seq(Delta) /\ s # << >> /\ k \in DOMAIN ps
  BY SeqFacts DEF NoneEmpty
<1>2. /\ s[1] \in Delta /\ Tail(s) \in Seq(Delta) /\ Len(Tail(s)) = Len(s) - 1
      /\ Len(s) \in Nat \ {0} /\ Range(s) = Range(Tail(s)) \cup {s[1]}
  BY <1>1, TailFacts
<1>3. s[1] \in Feeds(ps)
  BY <1>1, <1>2 DEF Feeds
<1>t. (Tail(s) = << >> <=> Len(Tail(s)) = 0) /\ (Tail(s) = << >> => Range(Tail(s)) = {})
  <2>1. \A t \in Seq(Delta) : /\ t = << >> <=> Len(t) = 0
                              /\ t = << >> => Range(t) = {}
    BY SeqFacts
  <2> QED BY <1>2, <2>1
<1>4. CASE Len(s) = 1
  <2>1. AfterChunk(ps, k) = RemoveAt(ps, k)
    BY <1>4 DEF AfterChunk
  <2>2. Tail(s) = << >> /\ Range(Tail(s)) = {}
    BY <1>2, <1>4, <1>t
  <2>3. Range(s) = {s[1]}
    BY <1>2, <2>2
  <2>4. /\ RemoveAt(ps, k) \in Seq(Seq(Delta))
        /\ Feeds(RemoveAt(ps, k)) \subseteq Feeds(ps)
        /\ Feeds(ps) \subseteq Feeds(RemoveAt(ps, k)) \cup Range(s)
        /\ NoneEmpty(RemoveAt(ps, k))
    BY OneReplayLess
  <2> QED BY <1>2, <1>3, <2>1, <2>3, <2>4
<1>5. CASE Len(s) # 1
  <2> DEFINE qs == [ps EXCEPT ![k] = Tail(s)]
  <2>1. AfterChunk(ps, k) = qs
    BY <1>5 DEF AfterChunk
  <2>2. qs \in Seq(Seq(Delta))
    BY <1>1, <1>2, ExceptSeq
  <2>3. /\ DOMAIN qs = DOMAIN ps /\ qs[k] = Tail(s)
        /\ \A i \in DOMAIN ps : i # k => qs[i] = ps[i]
    BY <1>1
  <2>4. Tail(s) # << >>
    BY <1>2, <1>5, <1>t
  <2> HIDE DEF qs
  <2>5. Feeds(qs) \subseteq Feeds(ps)
    <3> SUFFICES ASSUME NEW e \in Feeds(qs) PROVE e \in Feeds(ps)
      OBVIOUS
    <3>1. PICK i \in DOMAIN ps : e \in Range(qs[i])
      BY <2>3 DEF Feeds
    <3>2. e \in Range(ps[i])
      BY <1>2, <2>3, <3>1
    <3> QED BY <3>2 DEF Feeds
  <2>6. Feeds(ps) \subseteq Feeds(qs) \cup {s[1]}
    <3> SUFFICES ASSUME NEW e \in Feeds(ps), e # s[1] PROVE e \in Feeds(qs)
      OBVIOUS
    <3>1. PICK i \in DOMAIN ps : e \in Range(ps[i])
      BY DEF Feeds
    <3>2. e \in Range(qs[i])
      BY <1>2, <2>3, <3>1
    <3> QED BY <2>3, <3>2 DEF Feeds
  <2>7. NoneEmpty(qs)
    BY <2>3, <2>4 DEF NoneEmpty
  <2> QED BY <1>2, <1>3, <2>1, <2>2, <2>5, <2>6, <2>7
<1> QED BY <1>4, <1>5

-----------------------------------------------------------------------------
(* A snapshot has the current value of every leaf published, except those  *)
(* whose source is unknown.                                                *)
LEMMA SnapshotFacts ==
  ASSUME tree \in [Leaves -> [value : Int, at : Stamps]]
  PROVE  /\ Snapshot \in Seq(Delta)
         /\ Range(Snapshot) = {CurrentDelta(l) : l \in Published \ Unattributed}
<1> DEFINE P == Published \ Unattributed
           f == [l \in P |-> CurrentDelta(l)]
           S == {CurrentDelta(l) : l \in P}
<1>1. P \subseteq Leaves /\ IsFiniteSet(P)
  BY PipelineAssumption, FS_Subset DEF Published
<1>2. f \in [P -> S] /\ \A x \in S : \E l \in P : f[l] = x
  OBVIOUS
<1>3. f \in Surjection(P, S)
  BY <1>2 DEF Surjection
<1>4. IsFiniteSet(S)
  BY <1>1, <1>3, FS_Surjection
<1>5. S \subseteq Delta
  BY <1>1 DEF CurrentDelta, Delta
<1> HIDE DEF S
<1>6. SetToSeq(S) \in Seq(S) /\ Range(SetToSeq(S)) = S
  BY <1>4, SetToSeqFacts
<1>7. SetToSeq(S) \in Seq(Delta)
  BY <1>5, <1>6, SeqMonotonic
<1>8. Snapshot = SetToSeq(S)
  BY DEF Snapshot, S
<1> QED BY <1>6, <1>7, <1>8 DEF S

(* No timestamp is later than the last. *)
LEMMA LastStampFacts ==
  ASSUME tree \in [Leaves -> [value : Int, at : Stamps]], NEW l \in Leaves
  PROVE  /\ LastStamp \in Stamps
         /\ \A k \in Leaves : tree[k].at <= LastStamp
<1> DEFINE T == {MaxPublished - tree[k].at : k \in Leaves}
<1>1. MaxPublished \in Nat
  BY PipelineAssumption
<1>2. \A k \in Leaves : tree[k].at \in Stamps
  OBVIOUS
<1>3. T \subseteq Nat /\ T # {}
  BY <1>1, <1>2 DEF Stamps
<1>4. PICK n \in T : \A m \in T : n <= m
  <2> HIDE DEF T
  <2> QED BY <1>3, LeastElement
<1>5. PICK k \in Leaves : n = MaxPublished - tree[k].at
  BY <1>4
<1>6. ASSUME NEW j \in Leaves PROVE tree[j].at <= tree[k].at
  <2>1. MaxPublished - tree[j].at \in T
    OBVIOUS
  <2>2. MaxPublished - tree[k].at <= MaxPublished - tree[j].at
    BY <1>4, <1>5, <2>1
  <2>3. tree[j].at \in Stamps /\ tree[k].at \in Stamps
    BY <1>2
  <2> HIDE DEF T
  <2> QED BY <1>1, <2>2, <2>3 DEF Stamps
<1>7. \E x \in Stamps : /\ \E j \in Leaves : tree[j].at = x
                        /\ \A j \in Leaves : tree[j].at <= x
  BY <1>2, <1>6
<1> QED BY <1>7 DEF LastStamp

-----------------------------------------------------------------------------
LEMMA ClientFacts ==
  ASSUME NEW c \in Client
  PROVE  /\ c.buffer \in Seq(Delta) /\ c.recent \in Seq(Delta)
         /\ c.pumps \in Seq(Seq(Delta)) /\ c.throttle \in Seq(Entry)
         /\ {c.ready, c.recovering, c.retry, c.delivers, c.limited} \subseteq BOOLEAN
         /\ Fed(c) = Feeds(c.pumps)
         /\ \A ps \in Seq(Seq(Delta)) : [c EXCEPT !.pumps = ps] \in Client
BY DEF Client, Entry, Fed, Feeds

(* A replay starts from what the tree has, if sending is not paused. *)
LEMMA ReplayFacts ==
  ASSUME tree \in [Leaves -> [value : Int, at : Stamps]], NEW c \in Client
  PROVE  /\ Replay(c) \in Client
         /\ Replay(c) = [c EXCEPT !.pumps = Replay(c).pumps]
         /\ Fed(c) \subseteq Fed(Replay(c))
         /\ Fed(Replay(c)) \subseteq
              Fed(c) \cup {CurrentDelta(l) : l \in Published \ Unattributed}
         /\ c.ready => \A l \in Published \ Unattributed :
                         CurrentDelta(l) \in Fed(Replay(c))
         /\ NoneEmpty(c.pumps) => NoneEmpty(Replay(c).pumps)
<1> DEFINE S == {CurrentDelta(l) : l \in Published \ Unattributed}
<1>1. Snapshot \in Seq(Delta) /\ Range(Snapshot) = S
  BY SnapshotFacts
<1>2. Snapshot = << >> => S = {}
  BY <1>1, SeqFacts
<1>3. c.pumps \in Seq(Seq(Delta)) /\ c = [c EXCEPT !.pumps = c.pumps]
  BY DEF Client
<1>4. CASE c.ready /\ Snapshot # << >>
  <2> DEFINE ps == Append(c.pumps, Snapshot)
  <2>1. Replay(c) = [c EXCEPT !.pumps = ps]
    BY <1>4 DEF Replay
  <2>2. /\ ps \in Seq(Seq(Delta)) /\ Feeds(ps) = Feeds(c.pumps) \cup Range(Snapshot)
        /\ NoneEmpty(c.pumps) /\ Snapshot # << >> => NoneEmpty(ps)
    BY <1>1, <1>3, OneMoreReplay
  <2> HIDE DEF ps
  <2>3. /\ [c EXCEPT !.pumps = ps] \in Client
        /\ [c EXCEPT !.pumps = ps].pumps = ps
    BY <2>2 DEF Client
  <2>4. Fed(c) = Feeds(c.pumps) /\ Fed([c EXCEPT !.pumps = ps]) = Feeds(ps)
    BY <2>3, ClientFacts
  <2> QED BY <1>1, <1>4, <2>1, <2>2, <2>3, <2>4
<1>5. CASE ~ (c.ready /\ Snapshot # << >>)
  <2>1. Replay(c) = c
    BY <1>5 DEF Replay
  <2>2. c.ready => Published \ Unattributed = {}
    BY <1>2, <1>5
  <2> QED BY <1>3, <2>1, <2>2
<1> QED BY <1>4, <1>5

(* What processDelta makes of a delta it accepts. *)
LEMMA ProcessFacts ==
  ASSUME NEW c \in Client, Len(c.buffer) <= BufferCap, Len(c.recent) <= RecentMax,
         NEW d \in Delta, Accepts(c, d)
  PROVE  /\ ProcessDelta(c, d) \in Client
         /\ ProcessDelta(c, d) = [c EXCEPT !.recent = ProcessDelta(c, d).recent,
                                           !.buffer = ProcessDelta(c, d).buffer]
         /\ Len(ProcessDelta(c, d).buffer) <= BufferCap
         /\ Len(ProcessDelta(c, d).recent) <= RecentMax
         /\ Range(ProcessDelta(c, d).recent) \subseteq Range(c.recent) \cup {d}
         /\ Range(ProcessDelta(c, d).buffer) \subseteq Range(c.buffer) \cup {d}
         /\ \A e \in LastDeltas(ProcessDelta(c, d).buffer) :
              e = d \/ (e.leaf # d.leaf /\ e \in LastDeltas(c.buffer))
<1> DEFINE recent == IF Len(c.recent) >= RecentMax THEN Append(Tail(c.recent), d)
                                                   ELSE Append(c.recent, d)
           rest == IF Overflows(c) THEN SubSeq(c.buffer, DropCount + 1, Len(c.buffer))
                                   ELSE c.buffer
           buffer == Append(rest, d)
           p == ProcessDelta(c, d)
<1>1. /\ c.buffer \in Seq(Delta) /\ c.recent \in Seq(Delta)
      /\ BufferCap \in Nat /\ DropCount \in 1 .. BufferCap /\ RecentMax \in Nat \ {0}
      /\ Len(c.buffer) \in Nat /\ Len(c.recent) \in Nat
  BY ClientFacts, SeqFacts, PipelineAssumption
<1>2. /\ rest \in Seq(Delta) /\ Len(rest) + 1 <= BufferCap
      /\ Range(rest) \subseteq Range(c.buffer)
      /\ LastDeltas(rest) \subseteq LastDeltas(c.buffer)
  <2>1. CASE Overflows(c)
    <3>1. DropCount \in 0 .. Len(c.buffer)
      BY <1>1, <2>1 DEF Overflows
    <3>2. /\ SubSeq(c.buffer, DropCount + 1, Len(c.buffer)) \in Seq(Delta)
          /\ Len(SubSeq(c.buffer, DropCount + 1, Len(c.buffer))) = Len(c.buffer) - DropCount
          /\ Range(SubSeq(c.buffer, DropCount + 1, Len(c.buffer))) \subseteq Range(c.buffer)
          /\ LastDeltas(SubSeq(c.buffer, DropCount + 1, Len(c.buffer)))
                \subseteq LastDeltas(c.buffer)
      BY <1>1, <3>1, CutFacts
    <3>4. rest = SubSeq(c.buffer, DropCount + 1, Len(c.buffer))
      BY <2>1
    <3> HIDE DEF rest
    <3>6. Len(rest) + 1 <= BufferCap
      BY <1>1, <3>2, <3>4
    <3> QED BY <3>2, <3>4, <3>6
  <2>2. CASE ~ Overflows(c)
    <3>1. rest = c.buffer
      BY <2>2
    <3>2. Len(c.buffer) + 1 <= BufferCap
      BY <1>1, <2>2 DEF Overflows
    <3> QED BY <1>1, <3>1, <3>2
  <2> QED BY <2>1, <2>2
<1>3. /\ recent \in Seq(Delta) /\ Len(recent) <= RecentMax
      /\ Range(recent) \subseteq Range(c.recent) \cup {d}
  <2>1. CASE Len(c.recent) >= RecentMax
    <3>1. c.recent # << >>
      BY <1>1, <2>1, SeqFacts
    <3>2. /\ Tail(c.recent) \in Seq(Delta) /\ Len(Tail(c.recent)) = Len(c.recent) - 1
          /\ Range(c.recent) = Range(Tail(c.recent)) \cup {c.recent[1]}
      BY <1>1, <3>1, TailFacts
    <3> DEFINE t == Tail(c.recent)
    <3> HIDE DEF t
    <3>3. t \in Seq(Delta) /\ Len(t) = Len(c.recent) - 1 /\ Range(t) \subseteq Range(c.recent)
      BY <3>2 DEF t
    <3>4. /\ Append(t, d) \in Seq(Delta) /\ Len(Append(t, d)) = Len(t) + 1
          /\ Range(Append(t, d)) = Range(t) \cup {d}
      BY <3>3, AppendFacts
    <3>5. recent = Append(t, d)
      BY <2>1 DEF t
    <3> HIDE DEF recent
    <3> QED BY <1>1, <3>3, <3>4, <3>5
  <2>2. CASE ~ (Len(c.recent) >= RecentMax)
    <3>1. /\ Append(c.recent, d) \in Seq(Delta)
          /\ Len(Append(c.recent, d)) = Len(c.recent) + 1
          /\ Range(Append(c.recent, d)) = Range(c.recent) \cup {d}
      BY <1>1, AppendFacts
    <3>2. recent = Append(c.recent, d)
      BY <2>2
    <3> HIDE DEF recent
    <3> QED BY <1>1, <2>2, <3>1, <3>2
  <2> QED BY <2>1, <2>2
<1>4. p = [c EXCEPT !.recent = recent, !.buffer = buffer]
  BY DEF ProcessDelta, EnforceBufferCap, Remember, Overflows, Client
<1> HIDE DEF recent, rest, p
<1>5. /\ buffer \in Seq(Delta) /\ Len(buffer) = Len(rest) + 1
      /\ Range(buffer) = Range(rest) \cup {d}
  BY <1>2, AppendFacts
<1>6. \A e \in LastDeltas(buffer) : e = d \/ (e.leaf # d.leaf /\ e \in LastDeltas(c.buffer))
  BY <1>2, LastOfAppend
<1> HIDE DEF buffer
<1>7. /\ p \in Client /\ p.recent = recent /\ p.buffer = buffer
  BY <1>3, <1>4, <1>5 DEF Client
<1>8. Len(buffer) <= BufferCap
  BY <1>2, <1>5
<1> QED BY <1>2, <1>3, <1>4, <1>5, <1>6, <1>7, <1>8 DEF p

(* What it makes of the buffer of which the first u are being sent: how    *)
(* many of them are left, and what it cuts off besides.                    *)
LeftUnderway(c, u) ==
  IF Overflows(c) THEN IF u > DropCount THEN u - DropCount ELSE 0 ELSE u

CutFrom(c, u) ==
  IF Overflows(c) THEN LeavesOf(SubSeq(c.buffer, u + 1, DropCount)) ELSE {}

LEMMA ProcessWaiting ==
  ASSUME NEW c \in Client, NEW d \in Delta, Accepts(c, d),
         NEW u \in 0 .. Len(c.buffer)
  PROVE  LET b == ProcessDelta(c, d).buffer
             w == LeftUnderway(c, u)
         IN  /\ w \in 0 .. u /\ w <= Len(b)
             /\ d.leaf \in LeavesOf(SubSeq(b, w + 1, Len(b)))
             /\ LeavesOf(SubSeq(c.buffer, u + 1, Len(c.buffer)))
                  \subseteq LeavesOf(SubSeq(b, w + 1, Len(b))) \cup CutFrom(c, u)
             /\ CutFrom(c, u) \subseteq Leaves
<1> PICK w : w = IF Overflows(c)
                   THEN IF u > DropCount THEN u - DropCount ELSE 0
                   ELSE u
  OBVIOUS
<1> PICK cut : cut = IF Overflows(c)
                       THEN LeavesOf(SubSeq(c.buffer, u + 1, DropCount))
                       ELSE {}
  OBVIOUS
<1> PICK b : b = ProcessDelta(c, d).buffer
  OBVIOUS
<1> DEFINE s == c.buffer
           n == Len(s)
           k == IF Overflows(c) THEN DropCount ELSE 0
<1>1. /\ s \in Seq(Delta) /\ n \in Nat
      /\ BufferCap \in Nat /\ DropCount \in 1 .. BufferCap
      /\ Overflows(c) => n >= BufferCap
  BY ClientFacts, SeqFacts, PipelineAssumption DEF Overflows
<1>2. k \in 0 .. n /\ k \in Nat
  BY <1>1
<1>3. w = (IF u > k THEN u - k ELSE 0) /\ u \in Nat /\ u <= n
  BY <1>1
<1>4. SubSeq(s, 1, n) = s
  BY <1>1, SubSeqFull
<1>5. b = Append(SubSeq(s, k + 1, n), d)
  <2>1. b = Append(IF Overflows(c) THEN SubSeq(s, DropCount + 1, n) ELSE s, d)
    BY DEF ProcessDelta, EnforceBufferCap, Remember, Overflows, Client
  <2>2. CASE Overflows(c)
    BY <2>1, <2>2
  <2>3. CASE ~ Overflows(c)
    <3>1. k + 1 = 1
      BY <2>3
    <3> QED BY <1>4, <2>1, <2>3, <3>1
  <2> QED BY <2>2, <2>3
<1>6. cut = {s[i].leaf : i \in u + 1 .. k} /\ cut \subseteq Leaves
  <2>1. u + 1 \in Nat \ {0}
    BY <1>3
  <2>2. CASE Overflows(c)
    <3>1. DropCount \in 0 .. Len(s)
      BY <1>2, <2>2
    <3> QED BY <1>1, <2>1, <2>2, <3>1, PartLeaves
  <2>3. CASE ~ Overflows(c)
    <3>1. u + 1 .. k = {}
      BY <1>3, <2>3
    <3> QED BY <2>3, <3>1
  <2> QED BY <2>2, <2>3
<1> HIDE DEF k
<1>7. LeavesOf(SubSeq(s, u + 1, n)) = {s[i].leaf : i \in u + 1 .. n}
  <2>1. u + 1 \in Nat \ {0} /\ n \in 0 .. Len(s)
    BY <1>1, <1>3
  <2> QED BY <1>1, <2>1, PartLeaves
<1> HIDE DEF s, n
<1>8. /\ b \in Seq(Delta) /\ Len(b) = (n - k) + 1
      /\ \A i \in 1 .. n - k : b[i] = s[k + i]
      /\ b[(n - k) + 1] = d
  <2> DEFINE t == SubSeq(s, k + 1, n)
  <2>1. PICK m : m = k + 1
    OBVIOUS
  <2>5. m \in 1 .. Len(s) + 1 /\ n \in 0 .. Len(s) /\ m <= n + 1
    BY <1>1, <1>2, <2>1 DEF n
  <2>6. /\ SubSeq(s, m, n) \in Seq(Delta) /\ Len(SubSeq(s, m, n)) = (n - m) + 1
        /\ \A i \in 1 .. (n - m) + 1 : SubSeq(s, m, n)[i] = s[(m + i) - 1]
        /\ Range(SubSeq(s, m, n)) = {s[i] : i \in m .. n}
    BY <1>1, <2>5, SubSeqFacts
  <2>2. /\ t \in Seq(Delta) /\ Len(t) = (n - (k + 1)) + 1
        /\ \A i \in 1 .. (n - (k + 1)) + 1 : t[i] = s[((k + 1) + i) - 1]
    BY <2>1, <2>6
  <2> HIDE DEF t
  <2>3. Len(t) = n - k /\ \A i \in 1 .. n - k : t[i] = s[k + i]
    BY <1>1, <1>2, <2>2
  <2>4. /\ Append(t, d) \in Seq(Delta) /\ Len(Append(t, d)) = Len(t) + 1
        /\ \A i \in 1 .. Len(t) : Append(t, d)[i] = t[i]
        /\ Append(t, d)[Len(t) + 1] = d
    BY <2>2, AppendFacts
  <2> QED BY <1>5, <2>3, <2>4 DEF t
<1>9. w \in 0 .. u /\ w <= n - k /\ n - k \in Nat
  BY <1>1, <1>2, <1>3
<1>10. LeavesOf(SubSeq(b, w + 1, Len(b))) = {b[i].leaf : i \in w + 1 .. Len(b)}
  <2>1. w + 1 \in Nat \ {0} /\ Len(b) \in 0 .. Len(b)
    BY <1>8, <1>9
  <2> QED BY <1>8, <2>1, PartLeaves
<1>11. d.leaf \in LeavesOf(SubSeq(b, w + 1, Len(b)))
  <2>1. (n - k) + 1 \in w + 1 .. Len(b)
    BY <1>8, <1>9
  <2> QED BY <1>8, <1>10, <2>1
<1>12. ASSUME NEW i \in u + 1 .. n
       PROVE  s[i].leaf \in LeavesOf(SubSeq(b, w + 1, Len(b))) \cup cut
  <2>1. CASE i <= k
    <3>1. i \in u + 1 .. k
      BY <1>2, <1>3, <2>1
    <3> QED BY <1>6, <3>1 DEF s
  <2>2. CASE ~ (i <= k)
    <3>1. i - k \in 1 .. n - k /\ i - k \in w + 1 .. Len(b) /\ k + (i - k) = i
      BY <1>1, <1>2, <1>3, <1>8, <1>9, <2>2
    <3>2. b[i - k] = s[i]
      BY <1>8, <3>1
    <3> QED BY <1>10, <3>1, <3>2
  <2> QED BY <2>1, <2>2
<1>13. w <= Len(b)
  BY <1>8, <1>9
<1>14. LeavesOf(SubSeq(s, u + 1, n)) = {s[i].leaf : i \in u + 1 .. n}
  BY <1>7 DEF s, n
<1>15. LeavesOf(SubSeq(s, u + 1, n)) \subseteq LeavesOf(SubSeq(b, w + 1, Len(b))) \cup cut
  BY <1>12, <1>14
<1>16. w = LeftUnderway(c, u) /\ cut = CutFrom(c, u)
  BY DEF LeftUnderway, CutFrom
<1> QED BY <1>6, <1>9, <1>11, <1>13, <1>15, <1>16 DEF s, n

-----------------------------------------------------------------------------
Trees == [Leaves -> [value : Int, at : Stamps]]

(* processDelta gets d, and the replays have ps left; if d is a value just *)
(* published, its timestamp is later than any other.                       *)
FeedStep(d, ps) ==
  /\ NoneEmpty(ps) /\ Feeds(ps) \subseteq Fed(client)
  /\ Fed(client) \subseteq Feeds(ps) \cup {d}
  /\ client' = ProcessDelta([client EXCEPT !.pumps = ps], d)
  /\ Noted(client, d)
  /\ receiver' = receiver /\ inFlight' = inFlight
  /\ tree' \in Trees
  /\ d.at <= tree'[d.leaf].at
  /\ d.at = tree'[d.leaf].at => d.value = tree'[d.leaf].value
  /\ \A l \in Leaves :
       \/ tree'[l] = tree[l]
       \/ l = d.leaf /\ tree'[l].at = d.at /\ \A k \in Leaves : tree[k].at < d.at

(* What becomes of it if it is accepted. *)
Taken(d) ==
  /\ Range(client'.recent) \subseteq Range(client.recent) \cup {d}
  /\ Range(client'.buffer) \subseteq Range(client.buffer) \cup {d}
  /\ underway' \in 0 .. underway /\ underway' <= Len(client'.buffer)
  /\ d.leaf \in LeavesOf(Waiting')
  /\ LeavesOf(Waiting) \subseteq LeavesOf(Waiting') \cup lost'
  /\ \A e \in LastDeltas(client'.buffer) :
       e = d \/ (e.leaf # d.leaf /\ e \in LastDeltas(client.buffer))
  /\ newest' = [newest EXCEPT ![d.leaf] = IF d.at > @ THEN d.at ELSE @]
  /\ latest' = [latest EXCEPT ![d.leaf] = d.at]
  /\ primed' = primed \cup {d.leaf}
  /\ lost \subseteq lost' /\ lost' \subseteq Leaves

LEMMA FeedOutcome ==
  ASSUME PipelineIInv, NEW d \in Delta, NEW ps \in Seq(Seq(Delta)), FeedStep(d, ps)
  PROVE  /\ client' \in Client
         /\ Len(client'.buffer) <= BufferCap /\ Len(client'.recent) <= RecentMax
         /\ client'.ready = client.ready /\ client'.recovering = client.recovering
         /\ client'.retry = client.retry /\ client'.delivers = client.delivers
         /\ client'.throttle = client.throttle
         /\ Fed(client)' = Feeds(ps) /\ NoneEmpty(client'.pumps)
         /\ Accepts(client, d) => Taken(d)
         /\ ~ Accepts(client, d) => /\ client'.recent = client.recent
                                    /\ client'.buffer = client.buffer
                                    /\ UNCHANGED history
<1> DEFINE c == [client EXCEPT !.pumps = ps]
<1>1. /\ client \in Client /\ Len(client.buffer) <= BufferCap
      /\ Len(client.recent) <= RecentMax /\ lost \subseteq Leaves
      /\ underway \in 0 .. Len(client.buffer)
  BY ClientFacts, SeqFacts DEF PipelineIInv, PipelineTypeOK, InFlight
<1>2. /\ c \in Client /\ c.pumps = ps /\ c.buffer = client.buffer
      /\ c.recent = client.recent /\ c.ready = client.ready
      /\ c.recovering = client.recovering /\ c.retry = client.retry
      /\ c.delivers = client.delivers /\ c.throttle = client.throttle
  BY <1>1 DEF Client
<1>3. /\ Accepts(c, d) <=> Accepts(client, d)
      /\ Overflows(c) <=> Overflows(client)
  BY <1>2 DEF Accepts, SuppressDuplicate, Overflows
<1>4. client' = ProcessDelta(c, d)
  BY DEF FeedStep
<1> HIDE DEF c
<1>5. CASE Accepts(client, d)
  <2> DEFINE p == ProcessDelta(c, d)
  <2>1. /\ p \in Client
        /\ p = [c EXCEPT !.recent = p.recent, !.buffer = p.buffer]
        /\ Len(p.buffer) <= BufferCap /\ Len(p.recent) <= RecentMax
        /\ Range(p.recent) \subseteq Range(c.recent) \cup {d}
        /\ Range(p.buffer) \subseteq Range(c.buffer) \cup {d}
        /\ \A e \in LastDeltas(p.buffer) :
             e = d \/ (e.leaf # d.leaf /\ e \in LastDeltas(c.buffer))
    BY <1>1, <1>2, <1>3, <1>5, ProcessFacts
  <2> HIDE DEF p
  <2>2. /\ p.pumps = ps /\ p.ready = client.ready /\ p.recovering = client.recovering
        /\ p.retry = client.retry /\ p.delivers = client.delivers
        /\ p.throttle = client.throttle
    BY <1>2, <2>1 DEF Client
  <2>3. client' = p
    BY <1>4 DEF p
  <2>4. /\ newest' = [newest EXCEPT ![d.leaf] = IF d.at > @ THEN d.at ELSE @]
        /\ latest' = [latest EXCEPT ![d.leaf] = d.at]
        /\ primed' = primed \cup {d.leaf}
    BY <1>5 DEF FeedStep, Noted
  <2>7. PICK cut : cut = CutFrom(client, underway)
    OBVIOUS
  <2>8. lost' = lost \cup cut /\ underway' = LeftUnderway(client, underway)
    BY <1>5, <2>7 DEF FeedStep, Noted, CutFrom, LeftUnderway
  <2>9. PICK b : b = p.buffer
    OBVIOUS
  <2>10. /\ underway' \in 0 .. underway /\ underway' <= Len(b)
         /\ d.leaf \in LeavesOf(SubSeq(b, underway' + 1, Len(b)))
         /\ LeavesOf(SubSeq(client.buffer, underway + 1, Len(client.buffer)))
              \subseteq LeavesOf(SubSeq(b, underway' + 1, Len(b))) \cup cut
         /\ cut \subseteq Leaves
    <3>1. CutFrom(c, underway) = cut /\ LeftUnderway(c, underway) = underway'
      BY <1>2, <1>3, <2>7, <2>8 DEF CutFrom, LeftUnderway
    <3>2. Accepts(c, d) /\ underway \in 0 .. Len(c.buffer)
      BY <1>1, <1>2, <1>3, <1>5
    <3>3. /\ LeftUnderway(c, underway) \in 0 .. underway
          /\ LeftUnderway(c, underway) <= Len(b)
          /\ d.leaf \in LeavesOf(SubSeq(b, LeftUnderway(c, underway) + 1, Len(b)))
          /\ LeavesOf(SubSeq(c.buffer, underway + 1, Len(c.buffer)))
               \subseteq LeavesOf(SubSeq(b, LeftUnderway(c, underway) + 1, Len(b)))
                         \cup CutFrom(c, underway)
          /\ CutFrom(c, underway) \subseteq Leaves
      BY <1>2, <2>9, <3>2, ProcessWaiting DEF p
    <3> QED BY <1>2, <3>1, <3>3
  <2>11. /\ Waiting = SubSeq(client.buffer, underway + 1, Len(client.buffer))
         /\ Waiting' = SubSeq(b, underway' + 1, Len(b))
    BY <2>3, <2>9 DEF Waiting
  <2>5. Taken(d)
    <3>1. client'.recent = p.recent /\ client'.buffer = p.buffer
      BY <2>3
    <3>2. lost \subseteq lost' /\ lost' \subseteq Leaves /\ cut \subseteq lost'
      BY <1>1, <2>8, <2>10
    <3>3. /\ d.leaf \in LeavesOf(Waiting')
          /\ LeavesOf(Waiting) \subseteq LeavesOf(Waiting') \cup lost'
      BY <2>10, <2>11, <3>2
    <3>4. underway' \in 0 .. underway /\ underway' <= Len(client'.buffer)
      BY <2>9, <2>10, <3>1
    <3>5. /\ Range(client'.recent) \subseteq Range(client.recent) \cup {d}
          /\ Range(client'.buffer) \subseteq Range(client.buffer) \cup {d}
      BY <1>2, <2>1, <3>1
    <3>6. \A e \in LastDeltas(client'.buffer) :
            e = d \/ (e.leaf # d.leaf /\ e \in LastDeltas(client.buffer))
      BY <1>2, <2>1, <3>1
    <3> QED BY <2>4, <3>2, <3>3, <3>4, <3>5, <3>6 DEF Taken
  <2>6. Fed(client)' = Feeds(ps)
    BY <2>2, <2>3 DEF Fed, Feeds
  <2> QED BY <1>5, <2>1, <2>2, <2>3, <2>5, <2>6 DEF FeedStep
<1>6. CASE ~ Accepts(client, d)
  <2>1. client' = c /\ UNCHANGED history
    BY <1>3, <1>4, <1>6 DEF ProcessDelta, FeedStep, Noted
  <2>2. Fed(client)' = Feeds(ps)
    BY <1>2, <2>1 DEF Fed, Feeds
  <2> QED BY <1>1, <1>2, <1>6, <2>1, <2>2 DEF FeedStep
<1> QED BY <1>5, <1>6

(* Everything that is fed, kept or remembered has a leaf. *)
LEMMA DeltasTyped ==
  ASSUME PipelineIInv
  PROVE  /\ Range(client.buffer) \subseteq Delta /\ Range(client.recent) \subseteq Delta
         /\ Fed(client) \subseteq Delta
<1>1. /\ client.buffer \in Seq(Delta) /\ client.recent \in Seq(Delta)
      /\ client.pumps \in Seq(Seq(Delta)) /\ Fed(client) = Feeds(client.pumps)
  BY ClientFacts DEF PipelineIInv, PipelineTypeOK
<1>2. Range(client.buffer) \subseteq Delta /\ Range(client.recent) \subseteq Delta
  BY <1>1, SeqFacts
<1>3. \A i \in DOMAIN client.pumps : client.pumps[i] \in Seq(Delta)
  BY <1>1, SeqFacts
<1>4. \A i \in DOMAIN client.pumps : Range(client.pumps[i]) \subseteq Delta
  BY <1>3, SeqFacts
<1> QED BY <1>1, <1>2, <1>4 DEF Feeds

(* The tree never goes back, and what changes in it is what is fed. *)
LEMMA FeedTree ==
  ASSUME PipelineIInv, NEW d \in Delta, NEW ps \in Seq(Seq(Delta)), FeedStep(d, ps),
         NEW l \in Leaves
  PROVE  /\ tree[l].at \in Nat /\ tree'[l].at \in Nat /\ d.at \in Nat /\ d.leaf \in Leaves
         /\ newest[l] \in Stamps /\ latest[l] \in Stamps /\ d.at \in Stamps
         /\ newest[l] \in Nat /\ latest[l] \in Nat
         /\ latest[l] <= newest[l] /\ newest[l] <= tree[l].at /\ tree[l].at <= tree'[l].at
         /\ \/ tree'[l] = tree[l]
            \/ l = d.leaf /\ tree'[l].at = d.at /\ tree[l].at < d.at
<1>1. /\ newest \in [Leaves -> Stamps] /\ latest \in [Leaves -> Stamps]
      /\ tree \in Trees /\ tree' \in Trees /\ Stamps \subseteq Nat
      /\ d.leaf \in Leaves /\ d.at \in Stamps
  BY DEF PipelineIInv, FeedStep, Trees, Stamps, Delta
<1>2. /\ tree[l].at \in Nat /\ tree'[l].at \in Nat
      /\ newest[l] \in Nat /\ latest[l] \in Nat
  BY <1>1 DEF Trees
<1>3. latest[l] <= newest[l] /\ newest[l] <= tree[l].at
  BY DEF PipelineIInv, Dated
<1>4. \/ tree'[l] = tree[l]
      \/ l = d.leaf /\ tree'[l].at = d.at /\ tree[l].at < d.at
  BY DEF FeedStep
<1>5. tree[l].at <= tree'[l].at
  BY <1>2, <1>4
<1> QED BY <1>1, <1>2, <1>3, <1>4, <1>5

LEMMA FeedHistory ==
  ASSUME PipelineIInv, NEW d \in Delta, NEW ps \in Seq(Seq(Delta)), FeedStep(d, ps)
  PROVE  /\ newest' \in [Leaves -> Stamps] /\ latest' \in [Leaves -> Stamps]
         /\ \A l \in Leaves : /\ newest[l] <= newest'[l] /\ newest'[l] \in Nat
                              /\ newest'[l] <= tree'[l].at /\ latest'[l] <= newest'[l]
         /\ Accepts(client, d) => newest'[d.leaf] >= d.at /\ latest'[d.leaf] = d.at
         /\ \A l \in Leaves : l # d.leaf => latest'[l] = latest[l]
<1>1. /\ newest \in [Leaves -> Stamps] /\ latest \in [Leaves -> Stamps]
      /\ d.leaf \in Leaves /\ d.at \in Stamps /\ d.at <= tree'[d.leaf].at
  BY DEF PipelineIInv, FeedStep, Delta
<1>2. CASE Accepts(client, d)
  <2>1. Taken(d)
    BY <1>2, FeedOutcome
  <2>2. /\ newest' = [newest EXCEPT ![d.leaf] = IF d.at > newest[d.leaf] THEN d.at ELSE newest[d.leaf]]
        /\ latest' = [latest EXCEPT ![d.leaf] = d.at]
    BY <2>1 DEF Taken
  <2>3. \A l \in Leaves : l # d.leaf => newest'[l] = newest[l] /\ latest'[l] = latest[l]
    BY <1>1, <2>2
  <2>4. /\ newest'[d.leaf] = IF d.at > newest[d.leaf] THEN d.at ELSE newest[d.leaf]
        /\ latest'[d.leaf] = d.at
    BY <1>1, <2>2
  <2>5. newest' \in [Leaves -> Stamps] /\ latest' \in [Leaves -> Stamps]
    BY <1>1, <2>2
  <2>6. ASSUME NEW l \in Leaves
        PROVE  /\ newest[l] <= newest'[l] /\ newest'[l] \in Nat
               /\ newest'[l] <= tree'[l].at /\ latest'[l] <= newest'[l]
    <3>1. /\ tree[l].at \in Nat /\ tree'[l].at \in Nat /\ d.at \in Nat
          /\ newest[l] \in Nat /\ latest[l] \in Nat
          /\ latest[l] <= newest[l] /\ newest[l] <= tree[l].at /\ tree[l].at <= tree'[l].at
      BY FeedTree
    <3>2. CASE l = d.leaf
      BY <1>1, <2>4, <3>1, <3>2
    <3>3. CASE l # d.leaf
      BY <2>3, <3>1, <3>3
    <3> QED BY <3>2, <3>3
  <2>7. newest'[d.leaf] >= d.at
    <3>1. d.at \in Nat /\ newest[d.leaf] \in Nat
      BY <1>1, FeedTree
    <3> QED BY <2>4, <3>1
  <2> QED BY <1>2, <2>3, <2>4, <2>5, <2>6, <2>7
<1>3. CASE ~ Accepts(client, d)
  <2>1. newest' = newest /\ latest' = latest
    BY <1>3, FeedOutcome DEF history
  <2>2. ASSUME NEW l \in Leaves
        PROVE  /\ newest[l] <= newest'[l] /\ newest'[l] \in Nat
               /\ newest'[l] <= tree'[l].at /\ latest'[l] <= newest'[l]
    <3>1. /\ tree[l].at \in Nat /\ tree'[l].at \in Nat
          /\ newest[l] \in Nat /\ latest[l] \in Nat
          /\ latest[l] <= newest[l] /\ newest[l] <= tree[l].at /\ tree[l].at <= tree'[l].at
      BY FeedTree
    <3> QED BY <2>1, <3>1
  <2> QED BY <1>1, <1>3, <2>1, <2>2
<1> QED BY <1>2, <1>3

LEMMA FeedDated ==
  ASSUME PipelineIInv, NEW d \in Delta, NEW ps \in Seq(Seq(Delta)), FeedStep(d, ps)
  PROVE  Dated'
<1>1. \A l \in Leaves : latest'[l] <= newest'[l] /\ newest'[l] <= tree'[l].at
  BY FeedHistory
<1>2. ASSUME NEW e, e \in Range(client'.buffer) \cup Fed(client)'
      PROVE  /\ e.at <= tree'[e.leaf].at
             /\ e.at = tree'[e.leaf].at => e.value = tree'[e.leaf].value
  <2>1. CASE e = d
    BY <2>1 DEF FeedStep
  <2>2. CASE e # d
    <3>1. e \in Range(client.buffer) \cup Fed(client)
      <4>1. Fed(client)' \subseteq Fed(client)
        BY FeedOutcome DEF FeedStep
      <4>2. Range(client'.buffer) \subseteq Range(client.buffer) \cup {d}
        BY FeedOutcome DEF Taken
      <4> QED BY <1>2, <2>2, <4>1, <4>2
    <3>2. e \in Delta
      BY <3>1, DeltasTyped
    <3>3. e.leaf \in Leaves /\ e.at \in Nat
      BY <3>2 DEF Delta, Stamps
    <3>4. /\ e.at <= tree[e.leaf].at
          /\ e.at = tree[e.leaf].at => e.value = tree[e.leaf].value
      BY <3>1 DEF PipelineIInv, Dated
    <3>5. /\ tree[e.leaf].at \in Nat /\ tree'[e.leaf].at \in Nat
          /\ tree[e.leaf].at <= tree'[e.leaf].at /\ d.at \in Nat
          /\ \/ tree'[e.leaf] = tree[e.leaf]
             \/ tree'[e.leaf].at = d.at /\ tree[e.leaf].at < d.at
      BY <3>3, FeedTree
    <3> QED BY <3>3, <3>4, <3>5
  <2> QED BY <2>1, <2>2
<1>3. ASSUME NEW e, e \in Range(client'.recent) PROVE e.at <= newest'[e.leaf]
  <2>0. \A l \in Leaves : newest[l] <= newest'[l] /\ newest'[l] \in Nat /\ newest[l] \in Nat
    BY FeedHistory, FeedTree
  <2>1. CASE e \in Range(client.recent)
    <3>1. e \in Delta /\ e.at <= newest[e.leaf]
      BY <2>1, DeltasTyped DEF PipelineIInv, Dated
    <3>2. e.leaf \in Leaves /\ e.at \in Nat
      BY <3>1 DEF Delta, Stamps
    <3> QED BY <2>0, <3>1, <3>2
  <2>2. CASE e \notin Range(client.recent)
    <3>1. Accepts(client, d) /\ e = d
      BY <1>3, <2>2, FeedOutcome DEF Taken
    <3>2. newest'[d.leaf] >= d.at
      BY <3>1, FeedHistory
    <3>3. d.leaf \in Leaves /\ d.at \in Nat
      BY DEF Delta, Stamps
    <3> QED BY <2>0, <3>1, <3>2, <3>3
  <2> QED BY <2>1, <2>2
<1> QED BY <1>1, <1>2, <1>3 DEF Dated

LEMMA FeedMissed ==
  ASSUME PipelineIInv, NEW d \in Delta, NEW ps \in Seq(Seq(Delta)), FeedStep(d, ps)
  PROVE  MissedIsFed'
<1>1. \A i \in DOMAIN client'.pumps : client'.pumps[i] # << >>
  BY FeedOutcome DEF NoneEmpty
<1>2. client'.recovering => ~ client'.ready
  BY FeedOutcome DEF PipelineIInv, MissedIsFed
<1>3. ASSUME client'.ready, client'.delivers, ~ client'.retry,
             NEW l \in Leaves, tree'[l].at > 0, l \notin Unattributed, IsForwarded(l)
      PROVE  newest'[l] = tree'[l].at \/ CurrentDelta(l)' \in Fed(client)'
  <2>0. client.ready /\ client.delivers /\ ~ client.retry /\ Fed(client)' = Feeds(ps)
    BY <1>3, FeedOutcome
  <2>1. /\ tree[l].at \in Nat /\ tree'[l].at \in Nat /\ d.at \in Nat
        /\ newest[l] \in Nat /\ newest[l] <= tree[l].at
        /\ newest[l] <= newest'[l] /\ newest'[l] <= tree'[l].at /\ newest'[l] \in Nat
    BY FeedTree, FeedHistory
  <2>2. CASE Accepts(client, d) /\ l = d.leaf /\ d.at = tree'[l].at
    <3>1. newest'[l] >= d.at
      BY <2>2, FeedHistory
    <3> QED BY <2>1, <2>2, <3>1
  <2>3. d \in Range(client.recent) => d.at <= newest[d.leaf]
    BY DEF PipelineIInv, Dated
  <2>4. CASE /\ tree'[l] = tree[l]
             /\ ~ (Accepts(client, d) /\ l = d.leaf /\ d.at = tree'[l].at)
    <3>1. newest[l] = tree[l].at \/ CurrentDelta(l) \in Fed(client)
      BY <1>3, <2>0, <2>4 DEF PipelineIInv, MissedIsFed, Published
    <3>2. CASE newest[l] = tree[l].at
      BY <2>1, <2>4, <3>2
    <3>3. CASE CurrentDelta(l) \in Feeds(ps)
      <4>1. CurrentDelta(l)' = CurrentDelta(l)
        BY <2>4 DEF CurrentDelta
      <4> QED BY <2>0, <3>3, <4>1
    <3>4. CASE CurrentDelta(l) = d
      <4>1. d.leaf = l /\ d.at = tree[l].at
        BY <3>4 DEF CurrentDelta
      <4>2. d \in Range(client.recent)
        BY <1>3, <2>0, <2>4, <4>1 DEF Accepts, SuppressDuplicate
      <4> QED BY <2>1, <2>3, <2>4, <4>1, <4>2
    <3> QED BY <3>1, <3>2, <3>3, <3>4 DEF FeedStep
  <2>5. CASE /\ l = d.leaf /\ tree'[l].at = d.at /\ tree[l].at < d.at
             /\ ~ (Accepts(client, d) /\ l = d.leaf /\ d.at = tree'[l].at)
    <3>1. d \in Range(client.recent)
      BY <1>3, <2>0, <2>5 DEF Accepts, SuppressDuplicate
    <3> QED BY <2>1, <2>3, <2>5, <3>1
  <2> QED BY <2>2, <2>4, <2>5, FeedTree
<1> QED BY <1>1, <1>2, <1>3 DEF MissedIsFed, Published

LEMMA FeedPrimed ==
  ASSUME PipelineIInv, NEW d \in Delta, NEW ps \in Seq(Seq(Delta)), FeedStep(d, ps)
  PROVE  PrimedIsKept'
<1> SUFFICES ASSUME NEW l, l \in primed', l \notin lost', Passes(l), Unruled(l)
             PROVE  \/ ToBeShown'[l] # {}
                    \/ l \in LeavesOf(Waiting')
                    \/ IsComing(l)'
  BY DEF PrimedIsKept
<1>1. CASE Accepts(client, d) /\ l = d.leaf
  BY <1>1, FeedOutcome DEF Taken
<1>2. CASE ~ (Accepts(client, d) /\ l = d.leaf)
  <2>1. /\ l \in primed /\ l \notin lost
        /\ LeavesOf(Waiting) \subseteq LeavesOf(Waiting') \cup lost'
        /\ \A e : e \in Range(client'.recent) => e \in Range(client.recent) \/
                                                (Accepts(client, d) /\ e = d)
    <3>1. CASE Accepts(client, d)
      BY <1>2, <3>1, FeedOutcome DEF Taken
    <3>2. CASE ~ Accepts(client, d)
      BY <3>2, FeedOutcome DEF history, Waiting
    <3> QED BY <3>1, <3>2
  <2>2. ToBeShown' = ToBeShown /\ l \in Leaves
    BY <2>1, SameShown DEF FeedStep, PipelineIInv, PipelineTypeOK
  <2>3. ToBeShown[l] # {} \/ l \in LeavesOf(Waiting) \/ IsComing(l)
    BY <2>1 DEF PipelineIInv, PrimedIsKept
  <2>4. ASSUME IsComing(l) PROVE IsComing(l)'
    <3>1. /\ l \in Published /\ l \notin Unattributed
          /\ CurrentDelta(l) \notin Range(client.recent)
      BY <2>4 DEF IsComing
    <3>2. /\ tree[l].at \in Nat /\ tree'[l].at \in Nat /\ d.at \in Nat
          /\ newest[l] \in Nat /\ newest[l] <= tree[l].at /\ tree[l].at <= tree'[l].at
          /\ \/ tree'[l] = tree[l]
             \/ l = d.leaf /\ tree'[l].at = d.at /\ tree[l].at < d.at
      BY <2>2, FeedTree
    <3>3. tree'[l].at > 0
      BY <3>1, <3>2 DEF Published
    <3>4. CurrentDelta(l)' \notin Range(client'.recent)
      <4>0. /\ CurrentDelta(l)'.leaf = l /\ CurrentDelta(l)'.at = tree'[l].at
        BY DEF CurrentDelta
      <4>1. CASE tree'[l] = tree[l]
        <5>1. CurrentDelta(l)' = CurrentDelta(l)
          BY <4>1 DEF CurrentDelta
        <5> QED BY <1>2, <2>1, <3>1, <4>0, <5>1
      <4>2. CASE l = d.leaf /\ tree'[l].at = d.at /\ tree[l].at < d.at
        <5>1. \A e \in Range(client.recent) : e.at <= newest[e.leaf]
          BY DEF PipelineIInv, Dated
        <5>2. CurrentDelta(l)' \notin Range(client.recent)
          BY <3>2, <4>0, <4>2, <5>1
        <5> QED BY <1>2, <2>1, <4>2, <5>2
      <4> QED BY <3>2, <4>1, <4>2
    <3>5. ASSUME client'.ready
          PROVE  \E e \in Fed(client)' : e.leaf = l /\ e \notin Range(client'.recent)
      <4>1. client.ready /\ Fed(client)' = Feeds(ps)
        BY <3>5, FeedOutcome
      <4>2. PICK e \in Fed(client) : e.leaf = l /\ e \notin Range(client.recent)
        BY <2>4, <4>1 DEF IsComing
      <4>3. e # d
        BY <1>2, <4>1, <4>2 DEF Accepts, SuppressDuplicate, Passes
      <4>4. e \in Feeds(ps)
        BY <4>2, <4>3 DEF FeedStep
      <4> QED BY <2>1, <4>1, <4>2, <4>3, <4>4
    <3> QED BY <2>2, <3>1, <3>3, <3>4, <3>5 DEF IsComing, Published
  <2> QED BY <2>1, <2>2, <2>3, <2>4
<1> QED BY <1>1, <1>2

LEMMA FeedLast ==
  ASSUME PipelineIInv, NEW d \in Delta, NEW ps \in Seq(Seq(Delta)), FeedStep(d, ps)
  PROVE  LastIsShown' /\ ThrottleTells'
<1>1. /\ ToBeShown' = ToBeShown /\ client'.throttle = client.throttle
      /\ d.leaf \in Leaves /\ lost \subseteq lost'
  <2>1. lost \subseteq lost'
    BY FeedOutcome DEF Taken, history
  <2> QED BY <2>1, FeedOutcome, SameShown DEF FeedStep, Delta
<1>2. \A e \in LastDeltas(client'.buffer) : e.at = latest'[e.leaf]
  <2>1. \A e \in LastDeltas(client.buffer) : e.at = latest[e.leaf] /\ e.leaf \in Leaves
    <3>1. LastDeltas(client.buffer) \subseteq Range(client.buffer)
      BY DEF LastDeltas, Range
    <3>2. \A e \in LastDeltas(client.buffer) : e.leaf \in Leaves
      BY <3>1, DeltasTyped DEF Delta
    <3> QED BY <3>2 DEF PipelineIInv, LastIsShown, LastDeltas
  <2>2. CASE Accepts(client, d)
    <3>1. \A e \in LastDeltas(client'.buffer) :
            e = d \/ (e.leaf # d.leaf /\ e \in LastDeltas(client.buffer))
      BY <2>2, FeedOutcome DEF Taken
    <3>2. /\ latest'[d.leaf] = d.at
          /\ \A l \in Leaves : l # d.leaf => latest'[l] = latest[l]
      BY <2>2, FeedHistory
    <3> QED BY <2>1, <3>1, <3>2
  <2>3. CASE ~ Accepts(client, d)
    <3>1. client'.buffer = client.buffer /\ latest' = latest
      BY <2>3, FeedOutcome DEF history
    <3> QED BY <2>1, <3>1
  <2> QED BY <2>2, <2>3
<1>3. \A l \in Leaves : ToBeShown'[l] # {} => IsPathAllowed(PathOf[l], Filter)
  BY <1>1 DEF PipelineIInv, LastIsShown
<1>4. ASSUME NEW l \in Leaves, l \notin lost', ~ Rules[l].interval,
             latest'[l] = tree'[l].at, l \notin LeavesOf(Waiting')
      PROVE  \A v \in ToBeShown'[l] : Shows(l, v, tree'[l].value)
  <2>1. /\ l \notin LeavesOf(Waiting) /\ l \notin lost /\ latest'[l] = latest[l]
        /\ ~ (Accepts(client, d) /\ l = d.leaf)
    <3>1. CASE Accepts(client, d)
      <4>1. Taken(d)
        BY <3>1, FeedOutcome
      <4>2. l # d.leaf
        BY <1>4, <4>1 DEF Taken
      <4> QED BY <1>1, <1>4, <4>1, <4>2, FeedHistory DEF Taken
    <3>2. CASE ~ Accepts(client, d)
      BY <1>1, <1>4, <3>2, FeedOutcome DEF history, Waiting
    <3> QED BY <3>1, <3>2
  <2>2. /\ tree[l].at \in Nat /\ d.at \in Nat /\ latest[l] \in Nat /\ newest[l] \in Nat
        /\ latest[l] <= newest[l] /\ newest[l] <= tree[l].at
        /\ \/ tree'[l] = tree[l]
           \/ tree'[l].at = d.at /\ tree[l].at < d.at
    BY FeedTree
  <2>3. tree'[l] = tree[l]
    BY <1>4, <2>1, <2>2
  <2>4. \A v \in ToBeShown[l] : Shows(l, v, tree[l].value)
    BY <1>4, <2>1, <2>3 DEF PipelineIInv, LastIsShown
  <2> QED BY <1>1, <2>3, <2>4
<1>5. ThrottleTells'
  BY <1>1 DEF PipelineIInv, ThrottleTells
<1>6. \A i \in DOMAIN client'.buffer :
        (\A j \in DOMAIN client'.buffer :
           j > i => client'.buffer[j].leaf # client'.buffer[i].leaf)
        => client'.buffer[i].at = latest'[client'.buffer[i].leaf]
  BY <1>2 DEF LastDeltas
<1> QED BY <1>3, <1>4, <1>5, <1>6 DEF LastIsShown

LEMMA FeedKeeps ==
  ASSUME PipelineIInv, NEW d \in Delta, NEW ps \in Seq(Seq(Delta)), FeedStep(d, ps)
  PROVE  PipelineIInv'
<1>1. /\ client' \in Client
      /\ Len(client'.buffer) <= BufferCap /\ Len(client'.recent) <= RecentMax
      /\ client'.throttle = client.throttle
      /\ receiver' = receiver /\ inFlight' = inFlight
  BY FeedOutcome DEF FeedStep
<1>2. lost' \cup primed' \subseteq Leaves
  <2>1. lost \cup primed \subseteq Leaves /\ d.leaf \in Leaves
    BY DEF PipelineIInv, PipelineTypeOK, Delta
  <2> QED BY <2>1, FeedOutcome DEF Taken, history
<1>7. underway' \in 0 .. inFlight.size /\ underway' <= Len(client'.buffer)
  <2>1. /\ inFlight.size \in Nat /\ underway \in 0 .. inFlight.size
        /\ underway <= Len(client.buffer)
    BY PipelineAssumption DEF PipelineIInv, PipelineTypeOK, InFlight
  <2>2. CASE Accepts(client, d)
    BY <2>1, <2>2, FeedOutcome DEF Taken
  <2>3. CASE ~ Accepts(client, d)
    BY <2>1, <2>3, FeedOutcome DEF history
  <2> QED BY <2>2, <2>3
<1>3. PipelineTypeOK'
  BY <1>1, <1>2, <1>7 DEF PipelineIInv, PipelineTypeOK
<1>4. tree' \in [Leaves -> [value : Int, at : Stamps]]
  BY DEF FeedStep, Trees
<1>5. newest' \in [Leaves -> Stamps] /\ latest' \in [Leaves -> Stamps]
  BY FeedHistory
<1>6. receiver' = [l \in Leaves |-> receiver'[l]]
  BY <1>1 DEF PipelineIInv
<1> QED BY <1>3, <1>4, <1>5, <1>6, FeedDated, FeedMissed, FeedPrimed, FeedLast
        DEF PipelineIInv

-----------------------------------------------------------------------------
(* Everything that was published, and whose source is known, is fed now.   *)
AllAreFed == \A l \in Published \ Unattributed : CurrentDelta(l) \in Fed(client)'

(* A step of the flags and the replays: sending goes on where it went on,  *)
(* with the replays that were under way, or resumes with a replay.         *)
FlagStep ==
  /\ client' \in Client
  /\ client'.buffer = client.buffer /\ client'.recent = client.recent
  /\ client'.throttle = client.throttle
  /\ tree' = tree /\ receiver' = receiver /\ inFlight' = inFlight
  /\ newest' = newest /\ latest' = latest /\ underway' = underway
  /\ lost' = lost /\ primed' \subseteq Leaves
  /\ NoneEmpty(client'.pumps)
  /\ Fed(client)' \subseteq
       Fed(client) \cup {CurrentDelta(l) : l \in Published \ Unattributed}
  /\ client'.recovering => ~ client'.ready
  /\ client'.ready =>
       \/ AllAreFed
       \/ client.ready /\ Fed(client) \subseteq Fed(client)'
  /\ client'.ready /\ client'.delivers /\ ~ client'.retry =>
       AllAreFed \/ (client.delivers /\ ~ client.retry)
  /\ \A l \in primed' \ primed : IsComing(l)'

LEMMA FlagsKeep ==
  ASSUME PipelineIInv, FlagStep
  PROVE  PipelineIInv'
<1>1. /\ client' \in Client
      /\ client'.buffer = client.buffer /\ client'.recent = client.recent
      /\ client'.throttle = client.throttle
      /\ tree' = tree /\ receiver' = receiver /\ inFlight' = inFlight
      /\ newest' = newest /\ latest' = latest /\ underway' = underway
      /\ lost' = lost /\ primed' \subseteq Leaves
  BY DEF FlagStep
<1>8. ToBeShown' = ToBeShown /\ Waiting' = Waiting
  BY <1>1, SameShown DEF Waiting
<1>2. PipelineTypeOK'
  BY <1>1 DEF PipelineIInv, PipelineTypeOK
<1>3. Published' = Published /\ \A l : CurrentDelta(l)' = CurrentDelta(l)
  BY <1>1 DEF Published, CurrentDelta
<1>4. Dated'
  <2>1. ASSUME NEW e \in Fed(client)'
        PROVE  /\ e.at <= tree[e.leaf].at
               /\ e.at = tree[e.leaf].at => e.value = tree[e.leaf].value
    <3>1. CASE e \in Fed(client)
      BY <3>1 DEF PipelineIInv, Dated
    <3>2. CASE e \notin Fed(client)
      <4>1. PICK l \in Published \ Unattributed : e = CurrentDelta(l)
        BY <2>1, <3>2 DEF FlagStep
      <4>2. e.leaf = l /\ e.at = tree[l].at /\ e.value = tree[l].value
        BY <4>1 DEF CurrentDelta
      <4>3. tree[l].at \in Nat
        BY <4>1 DEF PipelineIInv, Published, Stamps
      <4> QED BY <4>2, <4>3
    <3> QED BY <3>1, <3>2
  <2> QED BY <1>1, <2>1 DEF PipelineIInv, Dated
<1>5. MissedIsFed'
  <2>1. ASSUME client'.ready, client'.delivers, ~ client'.retry,
               NEW l \in Published \ Unattributed, IsForwarded(l)
        PROVE  newest[l] = tree[l].at \/ CurrentDelta(l) \in Fed(client)'
    <3>1. CASE AllAreFed
      BY <3>1 DEF AllAreFed
    <3>2. CASE /\ client.ready /\ Fed(client) \subseteq Fed(client)'
               /\ client.delivers /\ ~ client.retry
      BY <2>1, <3>2 DEF PipelineIInv, MissedIsFed
    <3> QED BY <2>1, <3>1, <3>2 DEF FlagStep
  <2> QED BY <1>1, <1>3, <2>1 DEF MissedIsFed, FlagStep, NoneEmpty
<1>6. PrimedIsKept'
  <2> SUFFICES ASSUME NEW l, l \in primed', l \notin lost, Passes(l), Unruled(l)
               PROVE  \/ ToBeShown[l] # {} \/ l \in LeavesOf(Waiting)
                      \/ IsComing(l)'
    BY <1>1, <1>8 DEF PrimedIsKept
  <2>1. CASE l \notin primed
    BY <2>1 DEF FlagStep
  <2>2. CASE l \in primed
    <3>1. ToBeShown[l] # {} \/ l \in LeavesOf(Waiting) \/ IsComing(l)
      BY <2>2 DEF PipelineIInv, PrimedIsKept
    <3>2. ASSUME IsComing(l) PROVE IsComing(l)'
      <4>1. /\ l \in Published \ Unattributed
            /\ CurrentDelta(l) \notin Range(client.recent)
        BY <3>2 DEF IsComing
      <4>2. ASSUME client'.ready
            PROVE  \E e \in Fed(client)' : e.leaf = l /\ e \notin Range(client.recent)
        <5>1. CASE AllAreFed
          <6>1. CurrentDelta(l) \in Fed(client)' /\ CurrentDelta(l).leaf = l
            BY <4>1, <5>1 DEF AllAreFed, CurrentDelta
          <6> QED BY <4>1, <6>1
        <5>2. CASE client.ready /\ Fed(client) \subseteq Fed(client)'
          BY <3>2, <5>2 DEF IsComing
        <5> QED BY <4>2, <5>1, <5>2 DEF FlagStep
      <4> QED BY <1>1, <1>3, <4>1, <4>2 DEF IsComing
    <3> QED BY <3>1, <3>2
  <2> QED BY <2>1, <2>2
<1>7. ThrottleTells' /\ LastIsShown'
  BY <1>1, <1>8 DEF PipelineIInv, ThrottleTells, LastIsShown
<1> QED BY <1>1, <1>2, <1>4, <1>5, <1>6, <1>7 DEF PipelineIInv

(* Flags change, no replay is added, and nothing that was paused resumes. *)
LEMMA PausingKeeps ==
  ASSUME PipelineIInv, client' \in Client,
         client'.buffer = client.buffer, client'.recent = client.recent,
         client'.throttle = client.throttle,
         UNCHANGED <<tree, receiver, inFlight, history>>,
         NoneEmpty(client'.pumps), Fed(client)' \subseteq Fed(client),
         client'.ready => client.ready /\ Fed(client) \subseteq Fed(client)',
         client'.recovering => ~ client'.ready,
         client'.ready /\ client'.delivers /\ ~ client'.retry =>
           client.delivers /\ ~ client.retry
  PROVE  PipelineIInv'
<1>1. primed' \subseteq Leaves /\ primed' = primed
  BY DEF PipelineIInv, PipelineTypeOK, history
<1>2. FlagStep
  BY <1>1 DEF FlagStep, history
<1> QED BY <1>2, FlagsKeep

(* Flags change, and a replay follows. *)
LEMMA ReplayingKeeps ==
  ASSUME PipelineIInv, NEW c \in Client, c.pumps = client.pumps,
         c.buffer = client.buffer, c.recent = client.recent,
         c.throttle = client.throttle, c.recovering => ~ c.ready,
         client' = Replay(c),
         UNCHANGED <<tree, receiver, inFlight, newest, latest, lost, underway>>,
         primed' \subseteq Leaves,
         \A l \in primed' \ primed : IsComing(l)'
  PROVE  PipelineIInv'
<1>0. tree \in [Leaves -> [value : Int, at : Stamps]] /\ client \in Client
  BY DEF PipelineIInv, PipelineTypeOK
<1>1. /\ client' \in Client
      /\ client' = [c EXCEPT !.pumps = client'.pumps]
      /\ Fed(c) \subseteq Fed(client')
      /\ Fed(client') \subseteq Fed(c) \cup {CurrentDelta(l) : l \in Published \ Unattributed}
      /\ c.ready => \A l \in Published \ Unattributed : CurrentDelta(l) \in Fed(client')
      /\ NoneEmpty(c.pumps) => NoneEmpty(client'.pumps)
  BY <1>0, ReplayFacts
<1>2. /\ client'.buffer = client.buffer /\ client'.recent = client.recent
      /\ client'.throttle = client.throttle /\ client'.ready = c.ready
      /\ client'.recovering = c.recovering
  BY <1>1 DEF Client
<1>3. NoneEmpty(c.pumps)
  BY DEF PipelineIInv, MissedIsFed, NoneEmpty
<1>4. Fed(c) = Fed(client)
  BY DEF Fed
<1>5. c.ready => AllAreFed
  BY <1>1 DEF AllAreFed
<1>6. FlagStep
  BY <1>1, <1>2, <1>3, <1>4, <1>5 DEF FlagStep
<1> QED BY <1>6, FlagsKeep

-----------------------------------------------------------------------------
(* The steps. *)
LEMMA PublishKeeps ==
  ASSUME PipelineIInv, NEW l \in Leaves, NEW v \in ValuesOf[l], Publish(l, v)
  PROVE  PipelineIInv'
<1> DEFINE n == LastStamp + 1
           d == [leaf |-> l, value |-> v, at |-> n]
<1>1. /\ tree \in Trees /\ client \in Client /\ MaxPublished \in Nat /\ v \in Int
      /\ tree \in [Leaves -> [value : Int, at : Stamps]]
  BY PipelineAssumption DEF PipelineIInv, PipelineTypeOK, Trees
<1>2. LastStamp \in Stamps /\ \A k \in Leaves : tree[k].at <= LastStamp
  BY <1>1, LastStampFacts
<1>3. /\ LastStamp < MaxPublished
      /\ tree' = [tree EXCEPT ![l] = [value |-> v, at |-> n]]
      /\ receiver' = receiver /\ inFlight' = inFlight
  BY DEF Publish
<1>4. n \in Stamps /\ \A k \in Leaves : tree[k].at \in Nat /\ tree[k].at < n
  BY <1>1, <1>2, <1>3 DEF Stamps, Trees
<1> HIDE DEF n
<1>5. tree' \in Trees /\ d \in Delta
  BY <1>1, <1>3, <1>4 DEF Trees, Delta
<1>6. /\ tree'[l].at = n /\ tree'[l].value = v
      /\ \A k \in Leaves : k # l => tree'[k] = tree[k]
  BY <1>1, <1>3 DEF Trees
<1>7. CASE client.delivers
  <2>1. client' = ProcessDelta(client, d) /\ Noted(client, d)
    BY <1>7 DEF Publish, n
  <2>2. client = [client EXCEPT !.pumps = client.pumps]
    BY <1>1 DEF Client
  <2>3. /\ client.pumps \in Seq(Seq(Delta)) /\ Fed(client) = Feeds(client.pumps)
    BY <1>1, ClientFacts
  <2>4. NoneEmpty(client.pumps)
    BY DEF PipelineIInv, MissedIsFed, NoneEmpty
  <2>5. /\ d.at <= tree'[d.leaf].at /\ d.at = n /\ d.leaf = l
        /\ d.value = tree'[d.leaf].value
    BY <1>4, <1>6 DEF Stamps
  <2> HIDE DEF d
  <2>6. FeedStep(d, client.pumps)
    BY <1>3, <1>4, <1>5, <1>6, <2>1, <2>2, <2>3, <2>4, <2>5 DEF FeedStep
  <2> QED BY <1>5, <2>3, <2>6, FeedKeeps
<1>8. CASE ~ client.delivers
  <2>1. client' = client /\ UNCHANGED history
    BY <1>8 DEF Publish
  <2>10. ToBeShown' = ToBeShown /\ Waiting' = Waiting
    BY <1>3, <2>1, SameShown DEF Waiting, history
  <2>2. PipelineTypeOK' /\ ThrottleTells'
    BY <1>3, <2>1, <2>10 DEF PipelineIInv, PipelineTypeOK, ThrottleTells, history
  <2>3. \A k \in Leaves : /\ tree[k].at \in Nat /\ tree[k].at < n
                          /\ latest[k] <= newest[k] /\ newest[k] <= tree[k].at
                          /\ newest[k] \in Nat /\ latest[k] \in Nat
    BY <1>4 DEF PipelineIInv, Dated, Stamps
  <2>4. n \in Nat
    BY <1>4 DEF Stamps
  <2>5. \A k \in Leaves : tree'[k] = tree[k] \/ (k = l /\ tree'[k].at = n)
    BY <1>6
  <2>6. Dated'
    <3>1. \A k \in Leaves : newest[k] <= tree'[k].at
      BY <2>3, <2>4, <2>5
    <3>2. ASSUME NEW e \in Range(client.buffer) \cup Fed(client)
          PROVE  /\ e.at <= tree'[e.leaf].at
                 /\ e.at = tree'[e.leaf].at => e.value = tree'[e.leaf].value
      <4>1. e \in Delta
        BY DeltasTyped
      <4>2. e.leaf \in Leaves /\ e.at \in Nat
        BY <4>1 DEF Delta, Stamps
      <4>3. /\ e.at <= tree[e.leaf].at
            /\ e.at = tree[e.leaf].at => e.value = tree[e.leaf].value
        BY DEF PipelineIInv, Dated
      <4> QED BY <2>3, <2>4, <2>5, <4>2, <4>3
    <3> QED BY <2>1, <3>1, <3>2 DEF PipelineIInv, Dated, history
  <2>7. MissedIsFed'
    BY <1>8, <2>1 DEF PipelineIInv, MissedIsFed
  <2>8. PrimedIsKept'
    <3> SUFFICES ASSUME NEW k, k \in primed, k \notin lost, IsComing(k)
                 PROVE  IsComing(k)'
      BY <1>3, <2>1, <2>10 DEF PipelineIInv, PrimedIsKept, history
    <3>1. k \in Published /\ k \notin Unattributed /\ k \in Leaves
      BY DEF IsComing, Published
    <3>2. k \in Published'
      BY <2>3, <2>4, <2>5, <3>1 DEF Published
    <3>3. CurrentDelta(k)' \notin Range(client.recent)
      <4>1. CASE tree'[k] = tree[k]
        BY <4>1 DEF IsComing, CurrentDelta
      <4>2. CASE tree'[k].at = n
        <5>1. CurrentDelta(k)'.leaf = k /\ CurrentDelta(k)'.at = n
          BY <4>2 DEF CurrentDelta
        <5>2. \A e \in Range(client.recent) : e.at <= newest[e.leaf]
          BY DEF PipelineIInv, Dated
        <5>3. ~ (n <= newest[k])
          BY <2>3, <2>4, <3>1
        <5> QED BY <5>1, <5>2, <5>3
      <4> QED BY <2>5, <3>1, <4>1, <4>2
    <3> QED BY <2>1, <3>1, <3>2, <3>3 DEF IsComing
  <2>9. LastIsShown'
    <3>1. ASSUME NEW k \in Leaves, latest[k] = tree'[k].at
          PROVE  tree'[k] = tree[k]
      BY <2>3, <2>4, <2>5, <3>1
    <3> QED BY <1>3, <2>1, <2>10, <3>1 DEF PipelineIInv, LastIsShown, history
  <2> QED BY <1>3, <1>5, <2>1, <2>2, <2>6, <2>7, <2>8, <2>9 DEF PipelineIInv, Trees, history
<1> QED BY <1>7, <1>8

LEMMA RedeliverKeeps ==
  ASSUME PipelineIInv, NEW l \in Leaves, Redeliver(l)
  PROVE  PipelineIInv'
<1> DEFINE d == CurrentDelta(l)
<1>1. /\ tree \in Trees /\ client \in Client /\ tree[l].at \in Nat
  BY DEF PipelineIInv, PipelineTypeOK, Trees, Stamps
<1>2. /\ d \in Delta /\ d.leaf = l /\ d.at = tree[l].at /\ d.value = tree[l].value
  BY <1>1 DEF CurrentDelta, Trees, Delta
<1>3. /\ client' = ProcessDelta(client, d) /\ Noted(client, d)
      /\ tree' = tree /\ receiver' = receiver /\ inFlight' = inFlight
  BY DEF Redeliver
<1>4. client = [client EXCEPT !.pumps = client.pumps]
  BY <1>1 DEF Client
<1>5. /\ client.pumps \in Seq(Seq(Delta)) /\ Fed(client) = Feeds(client.pumps)
  BY <1>1, ClientFacts
<1>6. NoneEmpty(client.pumps)
  BY DEF PipelineIInv, MissedIsFed, NoneEmpty
<1> HIDE DEF d
<1>7. FeedStep(d, client.pumps)
  BY <1>1, <1>2, <1>3, <1>4, <1>5, <1>6 DEF FeedStep
<1> QED BY <1>2, <1>5, <1>7, FeedKeeps

LEMMA PumpKeeps ==
  ASSUME PipelineIInv, NEW i \in DOMAIN client.pumps, Pump(i)
  PROVE  PipelineIInv'
<1>1. /\ client \in Client /\ client.pumps \in Seq(Seq(Delta))
      /\ Fed(client) = Feeds(client.pumps) /\ NoneEmpty(client.pumps)
  BY ClientFacts DEF PipelineIInv, PipelineTypeOK, MissedIsFed, NoneEmpty
<1>2. i \in 1 .. Len(client.pumps)
  BY <1>1, SeqFacts
<1>3. tree \in Trees /\ tree' = tree /\ receiver' = receiver /\ inFlight' = inFlight
  BY DEF Pump, PipelineIInv, Trees
<1>4. CASE client.ready
  <2> DEFINE d == client.pumps[i][1]
             ps == AfterChunk(client.pumps, i)
  <2>1. /\ d \in Feeds(client.pumps) /\ d \in Delta
        /\ ps \in Seq(Seq(Delta))
        /\ Feeds(ps) \subseteq Feeds(client.pumps)
        /\ Feeds(client.pumps) \subseteq Feeds(ps) \cup {d}
        /\ NoneEmpty(ps)
    BY <1>1, <1>2, ChunkFacts
  <2>2. /\ client' = ProcessDelta([client EXCEPT !.pumps = ps], d)
        /\ Noted(client, d)
    BY <1>4 DEF Pump
  <2> HIDE DEF d, ps
  <2>3. /\ d.at <= tree[d.leaf].at
        /\ d.at = tree[d.leaf].at => d.value = tree[d.leaf].value
    BY <1>1, <2>1 DEF PipelineIInv, Dated
  <2>4. FeedStep(d, ps)
    BY <1>1, <1>3, <2>1, <2>2, <2>3 DEF FeedStep
  <2> QED BY <2>1, <2>4, FeedKeeps
<1>5. CASE ~ client.ready
  <2> DEFINE ps == RemoveAt(client.pumps, i)
  <2>1. /\ ps \in Seq(Seq(Delta)) /\ Feeds(ps) \subseteq Feeds(client.pumps)
        /\ NoneEmpty(ps)
    BY <1>1, <1>2, OneReplayLess
  <2>2. client' = [client EXCEPT !.pumps = ps] /\ UNCHANGED history
    BY <1>5 DEF Pump
  <2> HIDE DEF ps
  <2>3. /\ client' \in Client /\ client'.pumps = ps /\ client'.ready = client.ready
        /\ client'.buffer = client.buffer /\ client'.recent = client.recent
        /\ client'.throttle = client.throttle
    BY <1>1, <2>1, <2>2 DEF Client
  <2>4. Fed(client)' \subseteq Fed(client)
    BY <1>1, <2>1, <2>3 DEF Fed, Feeds
  <2> QED BY <1>3, <1>5, <2>1, <2>2, <2>3, <2>4, PausingKeeps
<1> QED BY <1>4, <1>5

LEMMA ForgetKeeps ==
  ASSUME PipelineIInv, Forget
  PROVE  PipelineIInv'
<1>1. /\ client \in Client /\ client.recent \in Seq(Delta) /\ client.recent # << >>
      /\ Len(client.recent) <= RecentMax /\ RecentMax \in Nat
  BY ClientFacts, PipelineAssumption DEF PipelineIInv, PipelineTypeOK, Forget
<1> DEFINE t == Tail(client.recent)
<1>2. /\ t \in Seq(Delta) /\ Len(t) = Len(client.recent) - 1 /\ Len(client.recent) \in Nat
      /\ Range(client.recent) = Range(t) \cup {client.recent[1]}
  BY <1>1, TailFacts
<1>3. /\ client' = [client EXCEPT !.recent = t]
      /\ UNCHANGED <<tree, receiver, inFlight, history>>
  BY DEF Forget
<1> HIDE DEF t
<1>4. /\ client' \in Client /\ client' = [client EXCEPT !.recent = client'.recent]
      /\ client'.recent = t /\ client'.buffer = client.buffer
      /\ client'.pumps = client.pumps /\ client'.throttle = client.throttle
      /\ client'.ready = client.ready /\ client'.delivers = client.delivers
      /\ client'.retry = client.retry /\ client'.recovering = client.recovering
  BY <1>1, <1>2, <1>3 DEF Client
<1>5. Fed(client)' = Fed(client) /\ Range(client'.recent) \subseteq Range(client.recent)
  BY <1>2, <1>4 DEF Fed
<1>11. ToBeShown' = ToBeShown /\ Waiting' = Waiting
  BY <1>3, <1>4, SameShown DEF Waiting, history
<1>6. PipelineTypeOK'
  <2>1. Len(client'.recent) <= RecentMax
    BY <1>1, <1>2, <1>4
  <2> QED BY <1>3, <1>4, <2>1 DEF PipelineIInv, PipelineTypeOK, history
<1>7. Dated'
  BY <1>3, <1>4, <1>5 DEF PipelineIInv, Dated, history
<1>8. MissedIsFed'
  BY <1>3, <1>4, <1>5 DEF PipelineIInv, MissedIsFed, Published, CurrentDelta, history
<1>9. PrimedIsKept'
  <2>1. \A l : IsComing(l) => IsComing(l)'
    BY <1>3, <1>4, <1>5 DEF IsComing, Published, CurrentDelta
  <2> QED BY <1>3, <1>4, <1>11, <2>1 DEF PipelineIInv, PrimedIsKept, history
<1>10. ThrottleTells' /\ LastIsShown'
  BY <1>3, <1>4, <1>11 DEF PipelineIInv, ThrottleTells, LastIsShown, history
<1> QED BY <1>3, <1>6, <1>7, <1>8, <1>9, <1>10 DEF PipelineIInv, history

(* A step of the throttle that keeps its keys and values. *)
LEMMA IntervalPassesKeeps ==
  ASSUME PipelineIInv, NEW i \in DOMAIN client.throttle, IntervalPasses(i)
  PROVE  PipelineIInv'
<1>1. /\ client \in Client /\ client.throttle \in Seq(Entry)
      /\ Len(client.throttle) <= ThrottleMax
      /\ \A l \in Leaves : Cardinality(Lasts(client.throttle, l)) <= 1
  BY ClientFacts DEF PipelineIInv, PipelineTypeOK
<1> DEFINE th == [client.throttle EXCEPT ![i].fresh = FALSE]
<1>2. /\ Len(client.throttle) \in Nat /\ DOMAIN client.throttle = 1 .. Len(client.throttle)
      /\ \A j \in DOMAIN client.throttle : client.throttle[j] \in Entry
  BY <1>1, SeqFacts
<1>3. [client.throttle[i] EXCEPT !.fresh = FALSE] \in Entry
  BY <1>2 DEF Entry, ThrottleEntry
<1>4. /\ th \in Seq(Entry) /\ Len(th) = Len(client.throttle)
      /\ DOMAIN th = DOMAIN client.throttle
      /\ \A j \in DOMAIN th : th[j].key = client.throttle[j].key
                              /\ th[j].value = client.throttle[j].value
  <2> DEFINE x == [client.throttle[i] EXCEPT !.fresh = FALSE]
  <2>1. x.key = client.throttle[i].key /\ x.value = client.throttle[i].value
    BY <1>2 DEF Entry, ThrottleEntry
  <2>2. th = [client.throttle EXCEPT ![i] = x]
    OBVIOUS
  <2> HIDE DEF x
  <2>3. /\ [client.throttle EXCEPT ![i] = x] \in Seq(Entry)
        /\ Len([client.throttle EXCEPT ![i] = x]) = Len(client.throttle)
    BY <1>1, <1>2, <1>3, ExceptSeq DEF x
  <2>4. \A j \in DOMAIN client.throttle :
          [client.throttle EXCEPT ![i] = x][j] = IF j = i THEN x ELSE client.throttle[j]
    OBVIOUS
  <2> QED BY <1>2, <2>1, <2>2, <2>3, <2>4
<1>5. client' = [client EXCEPT !.throttle = th] /\ UNCHANGED <<tree, receiver, inFlight, history>>
  BY <1>1 DEF IntervalPasses, Client
<1> HIDE DEF th
<1>6. /\ client' \in Client /\ client'.throttle = th
      /\ client'.recent = client.recent /\ client'.buffer = client.buffer
      /\ client'.pumps = client.pumps
      /\ client'.ready = client.ready /\ client'.delivers = client.delivers
      /\ client'.retry = client.retry /\ client'.recovering = client.recovering
  BY <1>1, <1>4, <1>5 DEF Client, Entry
<1>7. \A l : Lasts(th, l) = Lasts(client.throttle, l)
  BY <1>4 DEF Lasts
<1>14. ToBeShown' = ToBeShown /\ Waiting' = Waiting
  BY <1>5, <1>6, SameShown DEF Waiting, history
<1>8. PipelineTypeOK'
  BY <1>1, <1>4, <1>5, <1>6, <1>7 DEF PipelineIInv, PipelineTypeOK, history
<1>9. ThrottleTells'
  <2>1. ASSUME NEW j \in DOMAIN th
        PROVE  /\ ~ Unruled(th[j].key)
               /\ th[j].key \notin lost => ToBeShown[th[j].key] \subseteq {th[j].value}
    <3>1. /\ ~ Unruled(client.throttle[j].key)
          /\ client.throttle[j].key \notin lost =>
               ToBeShown[client.throttle[j].key] \subseteq {client.throttle[j].value}
      BY <1>4 DEF PipelineIInv, ThrottleTells
    <3> QED BY <1>4, <3>1
  <2> QED BY <1>5, <1>6, <1>14, <2>1 DEF ThrottleTells, history
<1>10. Fed(client)' = Fed(client)
  BY <1>6 DEF Fed
<1>11. Dated' /\ LastIsShown'
  BY <1>5, <1>6, <1>10, <1>14 DEF PipelineIInv, Dated, LastIsShown, history
<1>12. MissedIsFed'
  BY <1>5, <1>6, <1>10 DEF PipelineIInv, MissedIsFed, Published, CurrentDelta, history
<1>13. PrimedIsKept'
  <2>1. \A l : IsComing(l) => IsComing(l)'
    BY <1>5, <1>6, <1>10 DEF IsComing, Published, CurrentDelta
  <2> QED BY <1>5, <1>6, <1>14, <2>1 DEF PipelineIInv, PrimedIsKept, history
<1> QED BY <1>5, <1>8, <1>9, <1>11, <1>12, <1>13 DEF PipelineIInv, history

(* What a batch is, and what it leaves in the buffer. *)
WithoutBatch(c) == SubSeq(c.buffer, Len(Batch(c)) + 1, Len(c.buffer))

LEMMA BatchFacts ==
  ASSUME PipelineIInv
  PROVE  /\ Batch(client) \in Seq(Delta) /\ WithoutBatch(client) \in Seq(Delta)
         /\ Len(Batch(client)) \in 0 .. MaxBatch
         /\ Len(Batch(client)) <= Len(client.buffer)
         /\ client.buffer # << >> => Len(Batch(client)) # 0
         /\ LeavesOf(client.buffer) = LeavesOf(Batch(client)) \cup LeavesOf(WithoutBatch(client))
         /\ Range(Batch(client)) \subseteq Range(client.buffer)
         /\ Range(WithoutBatch(client)) \subseteq Range(client.buffer)
         /\ LastDeltas(WithoutBatch(client)) \subseteq LastDeltas(client.buffer)
         /\ \A l \in Leaves \ LeavesOf(WithoutBatch(client)) :
              l \in LeavesOf(Batch(client)) =>
                \E i \in 1 .. Len(Batch(client)) :
                  /\ LastAmong(Batch(client), l, i, Len(Batch(client)))
                  /\ Batch(client)[i] \in LastDeltas(client.buffer)
<1> DEFINE s == client.buffer
           k == IF Len(s) < MaxBatch THEN Len(s) ELSE MaxBatch
           a == SubSeq(s, 1, k)
           b == SubSeq(s, k + 1, Len(s))
<1>1. /\ s \in Seq(Delta) /\ Len(s) \in Nat /\ Len(s) <= BufferCap
      /\ MaxBatch \in Nat /\ BufferCap \in Nat
  BY ClientFacts, SeqFacts, PipelineAssumption DEF PipelineIInv, PipelineTypeOK
<1> HIDE DEF s
<1>2. k \in 0 .. Len(s) /\ k \in Nat
  BY <1>1
<1>3. Batch(client) = a
  BY DEF Batch, s
<1> HIDE DEF k
<1>4. /\ a \in Seq(Delta) /\ Len(a) = k /\ b \in Seq(Delta) /\ Len(b) = Len(s) - k
      /\ Range(a) \subseteq Range(s) /\ Range(b) \subseteq Range(s)
      /\ LeavesOf(s) = LeavesOf(a) \cup LeavesOf(b)
      /\ LastDeltas(b) \subseteq LastDeltas(s)
      /\ \A l \in Leaves \ LeavesOf(b) : \A i \in 1 .. k :
           LastAmong(a, l, i, k) => a[i] \in LastDeltas(s)
  BY <1>1, <1>2, CutFacts
<1>5. WithoutBatch(client) = b
  <2>1. Len(Batch(client)) = k
    BY <1>3, <1>4
  <2> QED BY <2>1 DEF WithoutBatch, s
<1> HIDE DEF a, b
<1>6. k \in 0 .. MaxBatch /\ k <= Len(s) /\ (s # << >> => k # 0)
  <2>1. s # << >> => Len(s) # 0
    BY <1>1, SeqFacts
  <2> QED BY <1>1, <2>1, PipelineAssumption DEF k
<1>7. \A l \in LeavesOf(a) : \E i \in 1 .. k : LastAmong(a, l, i, k)
  BY <1>4, LastExists
<1> QED BY <1>3, <1>4, <1>5, <1>6, <1>7 DEF s

(* What waits, and what the splice of the send's end leaves. *)
LEMMA WaitingFacts ==
  ASSUME PipelineIInv
  PROVE  LeavesOf(Waiting) \subseteq Leaves /\ LeavesOf(Waiting) \subseteq LeavesOf(client.buffer)
<1>1. /\ client.buffer \in Seq(Delta) /\ Len(client.buffer) \in Nat
      /\ underway \in Nat
  BY ClientFacts, SeqFacts, PipelineAssumption DEF PipelineIInv, PipelineTypeOK, InFlight
<1>2. underway + 1 \in Nat \ {0} /\ Len(client.buffer) \in 0 .. Len(client.buffer)
  BY <1>1
<1>3. /\ LeavesOf(Waiting) = {client.buffer[i].leaf : i \in underway + 1 .. Len(client.buffer)}
      /\ LeavesOf(Waiting) \subseteq Leaves
  BY <1>1, <1>2, PartLeaves DEF Waiting
<1>4. LeavesOf(client.buffer) = {client.buffer[i].leaf : i \in 1 .. Len(client.buffer)}
  BY <1>1, LeavesFacts
<1>5. underway + 1 .. Len(client.buffer) \subseteq 1 .. Len(client.buffer)
  BY <1>1
<1> QED BY <1>3, <1>4, <1>5

LEMMA SplicedFacts ==
  ASSUME PipelineIInv
  PROVE  LET b == Spliced(client.buffer)
         IN  /\ b \in Seq(Delta) /\ Len(b) <= BufferCap
             /\ Range(b) \subseteq Range(client.buffer)
             /\ LastDeltas(b) \subseteq LastDeltas(client.buffer)
             /\ LeavesOf(Waiting) \subseteq LeavesOf(b) \cup LeavesOf(CutUnsent)
             /\ LeavesOf(CutUnsent) \subseteq Leaves
<1> DEFINE s == client.buffer
           n == Len(s)
<1>1. /\ s \in Seq(Delta) /\ n \in Nat /\ n <= BufferCap /\ BufferCap \in Nat
      /\ underway \in Nat /\ inFlight.size \in Nat /\ underway <= inFlight.size
  BY ClientFacts, SeqFacts, PipelineAssumption DEF PipelineIInv, PipelineTypeOK, InFlight
<1>2. PICK m : m = IF inFlight.size < n THEN inFlight.size ELSE n
  OBVIOUS
<1>3. m \in 0 .. n /\ m \in Nat
  BY <1>1, <1>2
<1>4. CutUnsent = SubSeq(s, underway + 1, m)
  BY <1>2 DEF CutUnsent
<1> DEFINE b == SubSeq(s, m + 1, n)
<1>5. Spliced(s) = b
  <2>1. CASE inFlight.size < n
    BY <1>2, <2>1 DEF Spliced
  <2>2. CASE ~ (inFlight.size < n)
    <3>1. m = n
      BY <1>2, <2>2
    <3>2. inFlight.size + 1 \in Int /\ m + 1 \in Int /\ n \in Int
          /\ n < inFlight.size + 1 /\ n < m + 1
      BY <1>1, <2>2, <3>1
    <3>3. SubSeq(s, inFlight.size + 1, n) = << >> /\ SubSeq(s, m + 1, n) = << >>
      BY <3>2, SubSeqEmpty
    <3> QED BY <3>3 DEF Spliced
  <2> QED BY <2>1, <2>2
<1>6. /\ b \in Seq(Delta) /\ Len(b) = n - m
      /\ Range(b) \subseteq Range(s) /\ LastDeltas(b) \subseteq LastDeltas(s)
  BY <1>1, <1>3, CutFacts
<1>7. /\ LeavesOf(b) = {s[i].leaf : i \in m + 1 .. n}
      /\ LeavesOf(Waiting) = {s[i].leaf : i \in underway + 1 .. n}
      /\ LeavesOf(CutUnsent) = {s[i].leaf : i \in underway + 1 .. m}
      /\ LeavesOf(CutUnsent) \subseteq Leaves
  <2>1. /\ underway + 1 \in Nat \ {0} /\ m + 1 \in Nat \ {0}
        /\ n \in 0 .. Len(s) /\ m \in 0 .. Len(s)
    BY <1>1, <1>3
  <2>2. LeavesOf(SubSeq(s, m + 1, n)) = {s[i].leaf : i \in m + 1 .. n}
    BY <1>1, <2>1, PartLeaves
  <2>3. LeavesOf(SubSeq(s, underway + 1, n)) = {s[i].leaf : i \in underway + 1 .. n}
    BY <1>1, <2>1, PartLeaves
  <2>4. /\ LeavesOf(SubSeq(s, underway + 1, m)) = {s[i].leaf : i \in underway + 1 .. m}
        /\ LeavesOf(SubSeq(s, underway + 1, m)) \subseteq Leaves
    BY <1>1, <2>1, PartLeaves
  <2> QED BY <1>4, <2>2, <2>3, <2>4 DEF Waiting
<1> HIDE DEF b, s, n
<1>8. Len(b) <= BufferCap
  BY <1>1, <1>3, <1>6
<1>9. \A i \in underway + 1 .. n : i \in underway + 1 .. m \/ i \in m + 1 .. n
  BY <1>1, <1>3
<1>10. LeavesOf(Waiting) \subseteq LeavesOf(b) \cup LeavesOf(CutUnsent)
  BY <1>7, <1>9
<1> QED BY <1>5, <1>6, <1>7, <1>8, <1>10 DEF s

LEMMA NothingUnderway ==
  ASSUME NEW q \in Seq(Delta)
  PROVE  SubSeq(q, 0 + 1, Len(q)) = q
<1>1. 0 + 1 = 1
  OBVIOUS
<1> QED BY <1>1, SubSeqFull

LEMMA IdleFacts ==
  ASSUME PipelineIInv, inFlight = Idle
  PROVE  ToBeShown = receiver /\ Waiting = client.buffer /\ underway = 0
<1>1. ToBeShown = receiver
  BY ShownNothing DEF PipelineIInv, ToBeShown, Idle
<1>2. underway = 0
  BY DEF PipelineIInv, PipelineTypeOK, Idle
<1>3. client.buffer \in Seq(Delta)
  BY ClientFacts DEF PipelineIInv, PipelineTypeOK
<1> QED BY <1>1, <1>2, <1>3, NothingUnderway DEF Waiting

(* What preparing it gives. *)
LEMMA BatchPrepared ==
  ASSUME PipelineIInv, inFlight = Idle
  PROVE  /\ Prepared(client, Batch(client)) \in Accumulated
         /\ Handed(client.throttle, Batch(client), Len(Batch(client)),
                   Prepared(client, Batch(client)))
         /\ LeavesOf(Prepared(client, Batch(client)).out) \subseteq LeavesOf(Batch(client))
         /\ LeavesOf(Batch(client)) \subseteq Leaves
         /\ Told(client.throttle)
<1>1. /\ client \in Client /\ client.throttle \in Seq(Entry)
      /\ Len(client.throttle) <= ThrottleMax /\ Batch(client) \in Seq(Delta)
      /\ \A l \in Leaves : Cardinality(Lasts(client.throttle, l)) <= 1
  BY ClientFacts, BatchFacts DEF PipelineIInv, PipelineTypeOK
<1>2. Distinct(client.throttle)
  BY <1>1, DistinctIsOnce
<1>3. Told(client.throttle)
  BY IdleFacts DEF PipelineIInv, ThrottleTells, Told, Range
<1>4. /\ Prepared(client, Batch(client)) \in Accumulated
      /\ Handed(client.throttle, Batch(client), Len(Batch(client)),
                Prepared(client, Batch(client)))
  BY <1>1, <1>2, <1>3, PreparedFacts
<1>5. LeavesOf(Batch(client)) = {Batch(client)[i].leaf : i \in 1 .. Len(Batch(client))}
  BY <1>1, LeavesFacts
<1>6. LeavesOf(Prepared(client, Batch(client)).out) \subseteq LeavesOf(Batch(client))
  BY <1>4, <1>5 DEF Handed
<1>7. LeavesOf(Batch(client)) \subseteq Leaves
  BY <1>1, LeavesFacts
<1> QED BY <1>3, <1>4, <1>6, <1>7

(* A step of the buffer, the throttle and what is in flight: a flush or    *)
(* the end of one.                                                         *)
FlushStep ==
  /\ client' = [client EXCEPT !.throttle = client'.throttle, !.buffer = client'.buffer]
  /\ client'.throttle \in Seq(Entry) /\ Distinct(client'.throttle)
  /\ Len(client'.throttle) <= ThrottleMax
  /\ client'.buffer \in Seq(Delta) /\ Len(client'.buffer) <= BufferCap
  /\ Range(client'.buffer) \subseteq Range(client.buffer)
  /\ lost' \subseteq Leaves
  /\ \A l \in Leaves : receiver'[l] \subseteq Int /\ Cardinality(receiver'[l]) <= 1
  /\ inFlight' \in InFlight /\ (inFlight'.size = 0 => inFlight' = Idle)
  /\ underway' \in 0 .. inFlight'.size /\ underway' <= Len(client'.buffer)
  /\ UNCHANGED <<tree, newest, latest, primed>>

LEMMA FlushTypes ==
  ASSUME PipelineIInv, FlushStep
  PROVE  /\ PipelineTypeOK' /\ Dated' /\ MissedIsFed'
         /\ client'.recent = client.recent /\ Fed(client)' = Fed(client)
         /\ client'.ready = client.ready
<1>1. /\ client \in Client /\ client'.throttle \in Seq(Entry)
      /\ Len(client'.throttle) <= ThrottleMax /\ Distinct(client'.throttle)
  BY DEF PipelineIInv, PipelineTypeOK, FlushStep
<1>2. /\ client'.buffer \in Seq(Delta) /\ Len(client'.buffer) <= BufferCap
      /\ Range(client'.buffer) \subseteq Range(client.buffer)
  BY DEF FlushStep
<1>3. /\ client' \in Client
      /\ client'.recent = client.recent
      /\ client'.pumps = client.pumps
      /\ client'.ready = client.ready /\ client'.delivers = client.delivers
      /\ client'.retry = client.retry /\ client'.recovering = client.recovering
  <2> DEFINE t == client'.throttle
             b == client'.buffer
  <2>1. client' = [client EXCEPT !.throttle = t, !.buffer = b]
    BY DEF FlushStep
  <2>2. t \in Seq(ThrottleEntry(Leaves, Int)) /\ b \in Seq(Delta)
    BY <1>1, <1>2 DEF Entry
  <2> HIDE DEF t, b
  <2>3. /\ [client EXCEPT !.throttle = t, !.buffer = b] \in Client
        /\ [client EXCEPT !.throttle = t, !.buffer = b].throttle = t
        /\ [client EXCEPT !.throttle = t, !.buffer = b].recent = client.recent
        /\ [client EXCEPT !.throttle = t, !.buffer = b].pumps = client.pumps
        /\ [client EXCEPT !.throttle = t, !.buffer = b].ready = client.ready
        /\ [client EXCEPT !.throttle = t, !.buffer = b].delivers = client.delivers
        /\ [client EXCEPT !.throttle = t, !.buffer = b].retry = client.retry
        /\ [client EXCEPT !.throttle = t, !.buffer = b].recovering = client.recovering
    BY <1>1, <2>2 DEF Client
  <2>4. \A c : c = [client EXCEPT !.throttle = t, !.buffer = b] =>
          /\ c \in Client /\ c.throttle = t /\ c.recent = client.recent
          /\ c.pumps = client.pumps
          /\ c.ready = client.ready /\ c.delivers = client.delivers
          /\ c.retry = client.retry /\ c.recovering = client.recovering
    BY <2>3
  <2> QED BY <2>1, <2>4 DEF t
<1>4. Fed(client)' = Fed(client)
  BY <1>3 DEF Fed
<1>5. \A l \in Leaves : Cardinality(Lasts(client'.throttle, l)) <= 1
  BY <1>1, DistinctIsOnce
<1>6. PipelineTypeOK'
  BY <1>1, <1>2, <1>3, <1>5 DEF PipelineIInv, PipelineTypeOK, FlushStep
<1>7. Dated'
  BY <1>2, <1>3, <1>4 DEF PipelineIInv, Dated, FlushStep
<1>8. MissedIsFed'
  BY <1>3, <1>4 DEF PipelineIInv, MissedIsFed, Published, CurrentDelta, FlushStep
<1> QED BY <1>3, <1>4, <1>6, <1>7, <1>8

LEMMA FlushComing ==
  ASSUME PipelineIInv, FlushStep, NEW l, IsComing(l)
  PROVE  IsComing(l)'
BY FlushTypes DEF IsComing, Published, CurrentDelta, FlushStep

LEMMA FlushKeeps ==
  ASSUME PipelineIInv, Flush
  PROVE  PipelineIInv'
<1> DEFINE p == Prepared(client, Batch(client))
           b == Batch(client)
           w == WithoutBatch(client)
           shown == ToBeShown'
<1>1. /\ client' = [client EXCEPT !.throttle = p.throttle]
      /\ inFlight' = [size |-> Len(b), out |-> p.out] /\ underway' = Len(b)
      /\ client.buffer # << >> /\ inFlight = Idle
      /\ receiver' = receiver /\ lost' = lost \ LeavesOf(p.out)
      /\ UNCHANGED <<tree, newest, latest, primed>>
  BY DEF Flush
<1>14. ToBeShown = receiver /\ Waiting = client.buffer
  BY <1>1, IdleFacts
<1>2. /\ p \in Accumulated /\ Handed(client.throttle, b, Len(b), p)
      /\ LeavesOf(p.out) \subseteq LeavesOf(b) /\ LeavesOf(b) \subseteq Leaves
      /\ Told(client.throttle)
  BY <1>1, BatchPrepared
<1>3. /\ b \in Seq(Delta) /\ w \in Seq(Delta)
      /\ LeavesOf(client.buffer) = LeavesOf(b) \cup LeavesOf(w)
      /\ Range(b) \subseteq Range(client.buffer)
      /\ LastDeltas(w) \subseteq LastDeltas(client.buffer)
      /\ \A l \in Leaves \ LeavesOf(w) : l \in LeavesOf(b) =>
           \E i \in 1 .. Len(b) : LastAmong(b, l, i, Len(b)) /\ b[i] \in LastDeltas(client.buffer)
  BY BatchFacts
<1>15. Len(b) \in 0 .. MaxBatch /\ Len(b) # 0 /\ Len(b) <= Len(client.buffer)
  BY <1>1, BatchFacts
<1>4. client'.buffer = client.buffer /\ client'.throttle = p.throttle
  <2>1. client \in Client
    BY DEF PipelineIInv, PipelineTypeOK
  <2> HIDE DEF p
  <2> QED BY <1>1, <2>1 DEF Client
<1>16. Waiting' = w
  BY <1>1, <1>4 DEF Waiting, WithoutBatch
<1> HIDE DEF p, b, w
<1>6. p.out \in Seq(Delta) /\ p.throttle \in Seq(Entry)
  BY <1>2 DEF Accumulated
<1>17. shown = Shown(p.out)
  BY <1>1 DEF ToBeShown, Shown
<1>7. /\ \A l \in Leaves \ LeavesOf(p.out) : shown[l] = receiver[l]
      /\ \A l \in LeavesOf(p.out) : \E v \in Int : shown[l] = {v}
  BY <1>6, <1>17, ShownFacts
<1>8. \A l \in Leaves : receiver'[l] \subseteq Int /\ Cardinality(receiver'[l]) <= 1
  BY <1>1 DEF PipelineIInv, PipelineTypeOK
<1>9. lost' \subseteq Leaves
  BY <1>1 DEF PipelineIInv, PipelineTypeOK
<1>18. /\ inFlight' \in InFlight /\ inFlight'.size = Len(b)
  BY <1>1, <1>6, <1>15 DEF InFlight
<1>5. FlushStep
  <2>1. Distinct(p.throttle) /\ Len(p.throttle) <= ThrottleMax
    BY <1>2 DEF Handed
  <2>2. client.buffer \in Seq(Delta) /\ Len(client.buffer) <= BufferCap
    BY ClientFacts DEF PipelineIInv, PipelineTypeOK
  <2>3. underway' \in 0 .. inFlight'.size
    BY <1>1, <1>15, <1>18
  <2>4. client' = [client EXCEPT !.throttle = client'.throttle, !.buffer = client'.buffer]
    <3>1. client \in Client
      BY DEF PipelineIInv, PipelineTypeOK
    <3> QED BY <1>1, <1>4, <3>1 DEF Client
  <2> QED BY <1>1, <1>4, <1>6, <1>8, <1>9, <1>15, <1>18, <2>1, <2>2, <2>3, <2>4 DEF FlushStep
<1>10. /\ PipelineTypeOK' /\ Dated' /\ MissedIsFed'
       /\ client'.recent = client.recent /\ Fed(client)' = Fed(client)
       /\ client'.ready = client.ready
  BY <1>5, FlushTypes
<1> HIDE DEF shown
<1>11. PrimedIsKept'
  <2> SUFFICES ASSUME NEW l, l \in primed', l \notin lost', Passes(l), Unruled(l)
               PROVE  \/ shown[l] # {} \/ l \in LeavesOf(w)
                      \/ IsComing(l)'
    BY <1>16 DEF PrimedIsKept, shown
  <2>0. l \in Leaves /\ l \in primed
    BY <1>1 DEF PipelineIInv, PipelineTypeOK
  <2>1. CASE l \in LeavesOf(p.out)
    <3>1. PICK v \in Int : shown[l] = {v}
      BY <1>7, <2>1
    <3> QED BY <3>1
  <2>2. CASE l \notin LeavesOf(p.out)
    <3>1. l \notin lost /\ shown[l] = receiver[l]
      BY <1>1, <1>7, <2>0, <2>2
    <3>2. receiver[l] # {} \/ l \in LeavesOf(client.buffer) \/ IsComing(l)
      BY <1>14, <2>0, <3>1 DEF PipelineIInv, PrimedIsKept
    <3>3. l \notin LeavesOf(b)
      <4> SUFFICES ASSUME l \in LeavesOf(b) PROVE FALSE
        OBVIOUS
      <4>1. PICK i \in 1 .. Len(b) : b[i].leaf = l
        BY <1>3, LeavesFacts
      <4>2. Allowed(b[i].leaf) /\ Unruled(b[i].leaf)
        BY <4>1 DEF Passes, Allowed
      <4>3. b[i].leaf \in LeavesOf(p.out)
        BY <1>2, <4>2 DEF Handed
      <4> QED BY <2>2, <4>1, <4>3
    <3>4. IsComing(l) => IsComing(l)'
      BY <1>5, FlushComing
    <3> QED BY <1>3, <3>1, <3>2, <3>3, <3>4
  <2> QED BY <2>1, <2>2
<1>12. ThrottleTells'
  <2>1. ASSUME NEW e \in Range(p.throttle)
        PROVE  /\ ~ Unruled(e.key)
               /\ e.key \notin lost' => shown[e.key] \subseteq {e.value}
    <3>1. ~ Unruled(e.key) /\ Says(client.throttle, p.out, e)
      BY <1>2 DEF Handed
    <3>2. CASE e.key \in LeavesOf(p.out)
      BY <1>17, <3>1, <3>2 DEF Says
    <3>3. CASE e.key \notin LeavesOf(p.out)
      <4>1. PICK f \in Range(client.throttle) : f.key = e.key /\ f.value = e.value
        BY <3>1, <3>3 DEF Says
      <4>2. e.key \in Leaves
        <5>1. p.throttle \in Seq(Entry)
          BY <1>2 DEF Accumulated
        <5>2. e \in Entry
          BY <5>1, SeqFacts
        <5> QED BY <5>2 DEF Entry, ThrottleEntry
      <4>3. shown[e.key] = receiver[e.key]
        BY <1>7, <3>3, <4>2
      <4> QED BY <1>1, <1>2, <3>1, <3>3, <4>1, <4>3 DEF Told
    <3> QED BY <3>1, <3>2, <3>3
  <2>2. \A i \in DOMAIN p.throttle : p.throttle[i] \in Range(p.throttle)
    BY DEF Range
  <2> QED BY <1>4, <2>1, <2>2 DEF ThrottleTells, shown
<1>13. LastIsShown'
  <2>0. \A e \in LastDeltas(client.buffer) : e.at = latest[e.leaf]
    BY DEF PipelineIInv, LastIsShown, LastDeltas
  <2>1. \A i \in DOMAIN client'.buffer :
          (\A j \in DOMAIN client'.buffer :
             j > i => client'.buffer[j].leaf # client'.buffer[i].leaf)
          => client'.buffer[i].at = latest'[client'.buffer[i].leaf]
    BY <1>1, <1>4, <2>0 DEF LastDeltas
  <2>2. \A l \in Leaves : shown[l] # {} => IsPathAllowed(PathOf[l], Filter)
    <3> SUFFICES ASSUME NEW l \in Leaves, shown[l] # {}
                 PROVE  IsPathAllowed(PathOf[l], Filter)
      OBVIOUS
    <3>1. CASE l \in LeavesOf(p.out)
      BY <1>2, <3>1 DEF Handed, Allowed
    <3>2. CASE l \notin LeavesOf(p.out)
      BY <1>7, <1>14, <3>2 DEF PipelineIInv, LastIsShown
    <3> QED BY <3>1, <3>2
  <2>3. ASSUME NEW l \in Leaves, l \notin lost', ~ Rules[l].interval,
               latest'[l] = tree'[l].at, l \notin LeavesOf(w),
               NEW v \in shown[l]
        PROVE  Shows(l, v, tree'[l].value)
    <3>1. CASE l \in LeavesOf(b)
      <4>1. PICK i \in 1 .. Len(b) : LastAmong(b, l, i, Len(b)) /\ b[i] \in LastDeltas(client.buffer)
        BY <1>3, <2>3, <3>1
      <4>2. b[i].leaf = l /\ b[i].at = latest[l]
        BY <2>0, <4>1 DEF LastAmong
      <4>3. b[i] \in Range(client.buffer)
        BY <4>1 DEF LastDeltas, Range
      <4>4. b[i].value = tree[l].value
        BY <1>1, <2>3, <4>2, <4>3 DEF PipelineIInv, Dated
      <4>5. Allowed(l)
        BY <2>2, <2>3 DEF Allowed
      <4>6. l \notin lost \ LeavesOf(p.out)
        BY <1>1, <2>3
      <4>7. v \in Shown(p.out)[l]
        BY <1>17, <2>3
      <4>8. Shows(l, v, b[i].value)
        BY <1>2, <2>3, <4>1, <4>5, <4>6, <4>7 DEF Handed
      <4> QED BY <1>1, <4>4, <4>8
    <3>2. CASE l \notin LeavesOf(b)
      <4>1. l \notin LeavesOf(p.out) /\ l \notin lost /\ l \notin LeavesOf(client.buffer)
        BY <1>1, <1>2, <1>3, <2>3, <3>2
      <4>2. shown[l] = receiver[l]
        BY <1>7, <4>1
      <4> QED BY <1>1, <1>14, <2>3, <4>1, <4>2 DEF PipelineIInv, LastIsShown
    <3> QED BY <3>1, <3>2
  <2> QED BY <1>16, <2>1, <2>2, <2>3 DEF LastIsShown, shown
<1>19. receiver' = [l \in Leaves |-> receiver'[l]]
  BY <1>1 DEF PipelineIInv
<1> QED BY <1>1, <1>10, <1>11, <1>12, <1>13, <1>19 DEF PipelineIInv

(* A send ends: its batch is removed or stays, and what the receiver has   *)
(* or will have had is what it has, except for what is lost.               *)
LEMMA SendEnds ==
  ASSUME PipelineIInv, inFlight' = Idle, underway' = 0,
         client' = [client EXCEPT !.buffer = client'.buffer],
         client'.buffer \in {client.buffer, Spliced(client.buffer)},
         UNCHANGED <<tree, newest, latest, primed>>,
         lost \subseteq lost', lost' \subseteq Leaves,
         LeavesOf(Waiting) \subseteq LeavesOf(client'.buffer) \cup lost',
         receiver' = [l \in Leaves |-> receiver'[l]],
         \A l \in Leaves : receiver'[l] \subseteq Int /\ Cardinality(receiver'[l]) <= 1,
         \A l \in Leaves : receiver'[l] # {} => ToBeShown[l] # {},
         \A l \in Leaves \ lost' : receiver'[l] = ToBeShown[l]
  PROVE  PipelineIInv'
<1>1. /\ client \in Client /\ client.throttle \in Seq(Entry)
      /\ Len(client.throttle) <= ThrottleMax
      /\ \A l \in Leaves : Cardinality(Lasts(client.throttle, l)) <= 1
      /\ client.buffer \in Seq(Delta) /\ Len(client.buffer) <= BufferCap
  BY ClientFacts DEF PipelineIInv, PipelineTypeOK
<1>2. /\ client'.buffer \in Seq(Delta) /\ Len(client'.buffer) <= BufferCap
      /\ Range(client'.buffer) \subseteq Range(client.buffer)
      /\ LastDeltas(client'.buffer) \subseteq LastDeltas(client.buffer)
  BY <1>1, SplicedFacts
<1>3. client'.throttle = client.throttle
  BY <1>1 DEF Client
<1>4. /\ ToBeShown' = receiver' /\ Waiting' = client'.buffer
  BY <1>2, NothingInFlight, NothingUnderway DEF Waiting
<1>5. FlushStep
  <2>1. Distinct(client.throttle)
    BY <1>1, DistinctIsOnce
  <2>2. Idle \in InFlight /\ Idle.size = 0
    BY EmptySeq, PipelineAssumption DEF Idle, InFlight
  <2>3. 0 \in 0 .. 0 /\ 0 <= Len(client'.buffer)
    BY <1>2, SeqFacts
  <2>4. client' = [client EXCEPT !.throttle = client'.throttle, !.buffer = client'.buffer]
    BY <1>1, <1>3 DEF Client
  <2> QED BY <1>1, <1>2, <1>3, <2>1, <2>2, <2>3, <2>4 DEF FlushStep
<1>6. /\ PipelineTypeOK' /\ Dated' /\ MissedIsFed'
  BY <1>5, FlushTypes
<1>7. PrimedIsKept'
  <2> SUFFICES ASSUME NEW l, l \in primed, l \notin lost', Passes(l), Unruled(l)
               PROVE  \/ receiver'[l] # {} \/ l \in LeavesOf(client'.buffer)
                      \/ IsComing(l)'
    BY <1>4 DEF PrimedIsKept
  <2>1. ToBeShown[l] # {} \/ l \in LeavesOf(Waiting) \/ IsComing(l)
    BY DEF PipelineIInv, PrimedIsKept
  <2>2. l \in Leaves
    BY DEF PipelineIInv, PipelineTypeOK
  <2>3. IsComing(l) => IsComing(l)'
    BY <1>5, FlushComing
  <2> QED BY <2>1, <2>2, <2>3
<1>8. ThrottleTells'
  <2>1. \A i \in DOMAIN client.throttle : client.throttle[i].key \in Leaves
    <3>1. \A i \in DOMAIN client.throttle : client.throttle[i] \in Entry
      BY <1>1, SeqFacts
    <3> QED BY <3>1 DEF Entry, ThrottleEntry
  <2>2. ASSUME NEW i \in DOMAIN client.throttle
        PROVE  LET e == client.throttle[i]
               IN  ~ Unruled(e.key) /\ (e.key \notin lost' => receiver'[e.key] \subseteq {e.value})
    BY <2>1 DEF PipelineIInv, ThrottleTells
  <2> QED BY <1>3, <1>4, <2>2 DEF ThrottleTells
<1>9. LastIsShown'
  <2>1. \A e \in LastDeltas(client'.buffer) : e.at = latest[e.leaf]
    <3>1. \A e \in LastDeltas(client.buffer) : e.at = latest[e.leaf]
      BY DEF PipelineIInv, LastIsShown, LastDeltas
    <3> QED BY <1>2, <3>1
  <2>2. ASSUME NEW l \in Leaves, l \notin lost', ~ Rules[l].interval,
               latest[l] = tree[l].at, l \notin LeavesOf(client'.buffer)
        PROVE  \A v \in receiver'[l] : Shows(l, v, tree[l].value)
    <3>1. l \notin lost /\ l \notin LeavesOf(Waiting) /\ receiver'[l] = ToBeShown[l]
      BY <2>2
    <3> QED BY <2>2, <3>1 DEF PipelineIInv, LastIsShown
  <2>3. \A l \in Leaves : receiver'[l] # {} => IsPathAllowed(PathOf[l], Filter)
    BY DEF PipelineIInv, LastIsShown
  <2> QED BY <1>4, <2>1, <2>2, <2>3 DEF LastIsShown, LastDeltas
<1> QED BY <1>6, <1>7, <1>8, <1>9 DEF PipelineIInv

(* What the receiver has once it has the batch. *)
LEMMA ToBeShownFacts ==
  ASSUME PipelineIInv
  PROVE  /\ \A l \in Leaves \ LeavesOf(inFlight.out) : ToBeShown[l] = receiver[l]
         /\ \A l \in LeavesOf(inFlight.out) : \E v \in Int : ToBeShown[l] = {v}
         /\ ToBeShown = [l \in Leaves |-> ToBeShown[l]]
         /\ \A l \in Leaves : ToBeShown[l] \subseteq Int /\ Cardinality(ToBeShown[l]) <= 1
         /\ LeavesOf(inFlight.out) \subseteq Leaves
<1>1. inFlight.out \in Seq(Delta)
  BY DEF PipelineIInv, PipelineTypeOK, InFlight
<1>2. /\ \A l \in Leaves \ LeavesOf(inFlight.out) : ToBeShown[l] = receiver[l]
      /\ \A l \in LeavesOf(inFlight.out) : \E v \in Int : ToBeShown[l] = {v}
      /\ ToBeShown = [l \in Leaves |-> ToBeShown[l]]
  BY <1>1, ShownFacts DEF ToBeShown
<1>3. \A l \in Leaves : ToBeShown[l] \subseteq Int /\ Cardinality(ToBeShown[l]) <= 1
  <2> SUFFICES ASSUME NEW l \in Leaves
               PROVE  ToBeShown[l] \subseteq Int /\ Cardinality(ToBeShown[l]) <= 1
    OBVIOUS
  <2>1. CASE l \in LeavesOf(inFlight.out)
    <3>1. PICK v \in Int : ToBeShown[l] = {v}
      BY <1>2, <2>1
    <3>2. Cardinality({v}) = 1
      BY FS_Singleton
    <3> QED BY <3>1, <3>2
  <2>2. CASE l \notin LeavesOf(inFlight.out)
    BY <1>2, <2>2 DEF PipelineIInv, PipelineTypeOK
  <2> QED BY <2>1, <2>2
<1>4. LeavesOf(inFlight.out) \subseteq Leaves
  BY <1>1, LeavesFacts
<1> QED BY <1>2, <1>3, <1>4

LEMMA FlushSucceedsKeeps ==
  ASSUME PipelineIInv, FlushSucceeds
  PROVE  PipelineIInv'
<1>1. /\ client' = [client EXCEPT !.buffer = Spliced(client.buffer)]
      /\ receiver' = ToBeShown /\ lost' = lost \cup LeavesOf(CutUnsent)
      /\ inFlight' = Idle /\ underway' = 0
      /\ UNCHANGED <<tree, newest, latest, primed>>
  BY DEF FlushSucceeds, ToBeShown
<1>2. client'.buffer = Spliced(client.buffer)
  BY <1>1 DEF PipelineIInv, PipelineTypeOK, Client
<1>3. /\ LeavesOf(Waiting) \subseteq LeavesOf(Spliced(client.buffer)) \cup LeavesOf(CutUnsent)
      /\ LeavesOf(CutUnsent) \subseteq Leaves /\ lost \subseteq Leaves
  BY SplicedFacts DEF PipelineIInv, PipelineTypeOK
<1> QED BY <1>1, <1>2, <1>3, ToBeShownFacts, SendEnds

LEMMA FlushFailsKeeps ==
  ASSUME PipelineIInv, NEW last \in BOOLEAN, FlushFails(last)
  PROVE  PipelineIInv'
<1>1. /\ client' = [client EXCEPT !.buffer = IF last THEN Spliced(client.buffer)
                                                     ELSE client.buffer]
      /\ lost' = lost \cup LeavesOf(inFlight.out)
                      \cup (IF last THEN LeavesOf(CutUnsent) ELSE {})
      /\ inFlight' = Idle /\ underway' = 0
      /\ UNCHANGED <<tree, receiver, newest, latest, primed>>
  BY DEF FlushFails
<1>2. client'.buffer = IF last THEN Spliced(client.buffer) ELSE client.buffer
  BY <1>1 DEF PipelineIInv, PipelineTypeOK, Client
<1>3. /\ LeavesOf(Waiting) \subseteq LeavesOf(Spliced(client.buffer)) \cup LeavesOf(CutUnsent)
      /\ LeavesOf(CutUnsent) \subseteq Leaves /\ lost \subseteq Leaves
      /\ LeavesOf(Waiting) \subseteq LeavesOf(client.buffer)
  BY SplicedFacts, WaitingFacts DEF PipelineIInv, PipelineTypeOK
<1>4. /\ lost \subseteq lost' /\ lost' \subseteq Leaves /\ LeavesOf(inFlight.out) \subseteq lost'
      /\ LeavesOf(Waiting) \subseteq LeavesOf(client'.buffer) \cup lost'
  BY <1>1, <1>2, <1>3, ToBeShownFacts
<1>5. \A l \in Leaves : receiver'[l] # {} => ToBeShown[l] # {}
  <2> SUFFICES ASSUME NEW l \in Leaves, receiver[l] # {} PROVE ToBeShown[l] # {}
    BY <1>1
  <2>1. CASE l \in LeavesOf(inFlight.out)
    <3>1. PICK v \in Int : ToBeShown[l] = {v}
      BY <2>1, ToBeShownFacts
    <3> QED BY <3>1
  <2> QED BY <2>1, ToBeShownFacts
<1>6. \A l \in Leaves \ lost' : receiver'[l] = ToBeShown[l]
  BY <1>1, <1>4, ToBeShownFacts
<1>7. /\ receiver' = [l \in Leaves |-> receiver'[l]]
      /\ \A l \in Leaves : receiver'[l] \subseteq Int /\ Cardinality(receiver'[l]) <= 1
  BY <1>1 DEF PipelineIInv, PipelineTypeOK
<1>8. client' = [client EXCEPT !.buffer = client'.buffer]
  BY <1>1, <1>2
<1> QED BY <1>1, <1>2, <1>4, <1>5, <1>6, <1>7, <1>8, SendEnds

LEMMA SocketErrorKeeps ==
  ASSUME PipelineIInv, SocketError
  PROVE  PipelineIInv'
<1>1. /\ client \in Client /\ NoneEmpty(client.pumps)
      /\ client' = [client EXCEPT !.ready = FALSE, !.recovering = TRUE]
      /\ UNCHANGED <<tree, receiver, inFlight, history>>
  BY DEF PipelineIInv, PipelineTypeOK, MissedIsFed, NoneEmpty, SocketError
<1>2. /\ client' \in Client /\ client'.pumps = client.pumps
      /\ client'.buffer = client.buffer /\ client'.recent = client.recent
      /\ client'.throttle = client.throttle /\ ~ client'.ready
  BY <1>1 DEF Client
<1>3. Fed(client)' = Fed(client)
  BY <1>2 DEF Fed
<1> QED BY <1>1, <1>2, <1>3, PausingKeeps

LEMMA SubscriptionErrorKeeps ==
  ASSUME PipelineIInv, SubscriptionError
  PROVE  PipelineIInv'
<1>1. /\ client \in Client /\ NoneEmpty(client.pumps)
      /\ UNCHANGED <<tree, receiver, inFlight, history>>
  BY DEF PipelineIInv, PipelineTypeOK, MissedIsFed, NoneEmpty, SubscriptionError
<1>2. PICK b \in BOOLEAN :
        client' = [client EXCEPT !.ready = FALSE, !.retry = TRUE, !.delivers = b]
  BY DEF SubscriptionError
<1>3. /\ client' \in Client /\ client'.pumps = client.pumps
      /\ client'.buffer = client.buffer /\ client'.recent = client.recent
      /\ client'.throttle = client.throttle /\ ~ client'.ready
  BY <1>1, <1>2 DEF Client
<1>4. Fed(client)' = Fed(client)
  BY <1>3 DEF Fed
<1> QED BY <1>1, <1>3, <1>4, PausingKeeps

LEMMA SocketRecoveredKeeps ==
  ASSUME PipelineIInv, SocketRecovered
  PROVE  PipelineIInv'
<1> DEFINE c == [client EXCEPT !.recovering = FALSE, !.ready = TRUE]
<1>1. client \in Client /\ primed \subseteq Leaves
  BY DEF PipelineIInv, PipelineTypeOK
<1>2. /\ c \in Client /\ c.pumps = client.pumps /\ c.buffer = client.buffer
      /\ c.recent = client.recent /\ c.throttle = client.throttle /\ ~ c.recovering
  BY <1>1 DEF Client
<1>3. client' = Replay(c)
  BY <1>1 DEF SocketRecovered, Resumed, Client
<1>4. UNCHANGED <<tree, receiver, inFlight, newest, latest, lost, underway>> /\ primed' = primed
  BY DEF SocketRecovered, history
<1> HIDE DEF c
<1> QED BY <1>1, <1>2, <1>3, <1>4, ReplayingKeeps

LEMMA SubscriptionRetryKeeps ==
  ASSUME PipelineIInv, SubscriptionRetry
  PROVE  PipelineIInv'
<1>1. /\ client \in Client /\ primed \subseteq Leaves /\ NoneEmpty(client.pumps)
      /\ client.recovering => ~ client.ready
  BY DEF PipelineIInv, PipelineTypeOK, MissedIsFed, NoneEmpty
<1>2. UNCHANGED <<tree, receiver, inFlight, history>>
  BY DEF SubscriptionRetry
<1>3. CASE client' = [client EXCEPT !.delivers = FALSE]
  <2>1. /\ client' \in Client /\ client'.pumps = client.pumps
        /\ client'.buffer = client.buffer /\ client'.recent = client.recent
        /\ client'.throttle = client.throttle /\ client'.ready = client.ready
        /\ client'.recovering = client.recovering /\ ~ client'.delivers
    BY <1>1, <1>3 DEF Client
  <2>2. Fed(client)' = Fed(client)
    BY <2>1 DEF Fed
  <2> QED BY <1>1, <1>2, <2>1, <2>2, PausingKeeps
<1>4. CASE client' = Resubscribed(client) /\ client.recovering
  <2>1. client' = [client EXCEPT !.delivers = TRUE, !.retry = FALSE]
    BY <1>1, <1>4 DEF Resubscribed, Client
  <2>2. /\ client' \in Client /\ client'.pumps = client.pumps
        /\ client'.buffer = client.buffer /\ client'.recent = client.recent
        /\ client'.throttle = client.throttle /\ ~ client'.ready
    BY <1>1, <1>4, <2>1 DEF Client
  <2>3. Fed(client)' = Fed(client)
    BY <2>2 DEF Fed
  <2> QED BY <1>1, <1>2, <2>2, <2>3, PausingKeeps
<1>5. CASE client' = Resubscribed(client) /\ ~ client.recovering
  <2> DEFINE c == [client EXCEPT !.delivers = TRUE, !.retry = FALSE, !.ready = TRUE]
  <2>1. /\ c \in Client /\ c.pumps = client.pumps /\ c.buffer = client.buffer
        /\ c.recent = client.recent /\ c.throttle = client.throttle /\ ~ c.recovering
    BY <1>1, <1>5 DEF Client
  <2>2. client' = Replay(c)
    BY <1>1, <1>5 DEF Resubscribed, Resumed, Client
  <2>3. UNCHANGED <<tree, receiver, inFlight, newest, latest, lost, underway>> /\ primed' = primed
    BY <1>2 DEF history
  <2> HIDE DEF c
  <2> QED BY <1>1, <2>1, <2>2, <2>3, ReplayingKeeps
<1> QED BY <1>3, <1>4, <1>5 DEF SubscriptionRetry

LEMMA SubscriptionChangeKeeps ==
  ASSUME PipelineIInv, SubscriptionChange
  PROVE  PipelineIInv'
<1>1. /\ client \in Client /\ primed \subseteq Leaves /\ NoneEmpty(client.pumps)
      /\ client.recovering => ~ client.ready
  BY DEF PipelineIInv, PipelineTypeOK, MissedIsFed, NoneEmpty
<1>2. UNCHANGED <<tree, receiver, inFlight, history>>
  BY DEF SubscriptionChange
<1>3. CASE client' = Subscribed(client, FALSE)
  <2>1. client' = [client EXCEPT !.delivers = FALSE, !.ready = FALSE, !.retry = TRUE]
    BY <1>3 DEF Subscribed
  <2>2. /\ client' \in Client /\ client'.pumps = client.pumps
        /\ client'.buffer = client.buffer /\ client'.recent = client.recent
        /\ client'.throttle = client.throttle /\ ~ client'.ready
    BY <1>1, <2>1 DEF Client
  <2>3. Fed(client)' = Fed(client)
    BY <2>2 DEF Fed
  <2> QED BY <1>1, <1>2, <2>2, <2>3, PausingKeeps
<1>4. CASE client' = Subscribed(client, TRUE)
  <2> DEFINE c == [client EXCEPT !.delivers = TRUE, !.retry = FALSE]
  <2>1. /\ c \in Client /\ c.pumps = client.pumps /\ c.buffer = client.buffer
        /\ c.recent = client.recent /\ c.throttle = client.throttle
        /\ c.recovering => ~ c.ready
    BY <1>1 DEF Client
  <2>2. client' = Replay(c)
    BY <1>4 DEF Subscribed
  <2>3. UNCHANGED <<tree, receiver, inFlight, newest, latest, lost, underway>> /\ primed' = primed
    BY <1>2 DEF history
  <2> HIDE DEF c
  <2> QED BY <1>1, <2>1, <2>2, <2>3, ReplayingKeeps
<1> QED BY <1>3, <1>4 DEF SubscriptionChange

LEMMA FullStatusRequestKeeps ==
  ASSUME PipelineIInv, FullStatusRequest
  PROVE  PipelineIInv'
<1>1. /\ client \in Client /\ primed \subseteq Leaves /\ NoneEmpty(client.pumps)
      /\ client.recovering => ~ client.ready
      /\ tree \in [Leaves -> [value : Int, at : Stamps]]
  BY DEF PipelineIInv, PipelineTypeOK, MissedIsFed, NoneEmpty
<1>2. UNCHANGED <<tree, receiver, inFlight, newest, latest, lost, underway>>
  BY DEF FullStatusRequest
<1>3. CASE client.limited
  <2>1. client' = client /\ UNCHANGED <<tree, receiver, inFlight, history>>
    BY <1>2, <1>3 DEF FullStatusRequest, history
  <2>2. Fed(client)' = Fed(client)
    BY <2>1 DEF Fed
  <2> QED BY <1>1, <2>1, <2>2, PausingKeeps
<1>4. CASE ~ client.limited
  <2> DEFINE c == [client EXCEPT !.limited = TRUE]
             N == {l \in Published \ Unattributed :
                     client.ready /\ ~ SuppressDuplicate(client, CurrentDelta(l))}
  <2>1. /\ c \in Client /\ c.pumps = client.pumps /\ c.buffer = client.buffer
        /\ c.recent = client.recent /\ c.throttle = client.throttle
        /\ c.ready = client.ready /\ c.recovering = client.recovering
    BY <1>1 DEF Client
  <2>2. client' = Replay(c) /\ primed' = primed \cup N
    BY <1>4 DEF FullStatusRequest, HandleFullStatusRequest
  <2>3. N \subseteq Leaves
    BY DEF Published
  <2> HIDE DEF c
  <2>4. /\ client' \in Client /\ client' = [c EXCEPT !.pumps = client'.pumps]
        /\ c.ready => \A l \in Published \ Unattributed : CurrentDelta(l) \in Fed(client')
    BY <1>1, <2>1, <2>2, ReplayFacts
  <2>5. client'.recent = client.recent
    BY <2>1, <2>4 DEF Client
  <2>6. ASSUME NEW l \in N PROVE IsComing(l)'
    <3>1. /\ l \in Published \ Unattributed /\ client.ready
          /\ CurrentDelta(l) \notin Range(client.recent)
      BY <2>6 DEF SuppressDuplicate
    <3>2. CurrentDelta(l) \in Fed(client)' /\ CurrentDelta(l).leaf = l
      BY <2>1, <2>4, <3>1 DEF CurrentDelta
    <3>3. (Published' = Published) /\ CurrentDelta(l)' = CurrentDelta(l)
      BY <1>2 DEF Published, CurrentDelta
    <3> QED BY <2>5, <3>1, <3>2, <3>3 DEF IsComing
  <2> HIDE DEF N
  <2> QED BY <1>1, <1>2, <2>1, <2>2, <2>3, <2>6, ReplayingKeeps
<1> QED BY <1>3, <1>4

LEMMA LimitPassesKeeps ==
  ASSUME PipelineIInv, LimitPasses
  PROVE  PipelineIInv'
<1>1. /\ client \in Client /\ NoneEmpty(client.pumps)
      /\ client.recovering => ~ client.ready
      /\ client' = [client EXCEPT !.limited = FALSE]
      /\ UNCHANGED <<tree, receiver, inFlight, history>>
  BY DEF PipelineIInv, PipelineTypeOK, MissedIsFed, NoneEmpty, LimitPasses
<1>2. /\ client' \in Client /\ client'.pumps = client.pumps
      /\ client'.buffer = client.buffer /\ client'.recent = client.recent
      /\ client'.throttle = client.throttle /\ client'.ready = client.ready
      /\ client'.recovering = client.recovering
      /\ client'.delivers = client.delivers /\ client'.retry = client.retry
  BY <1>1 DEF Client
<1>3. Fed(client)' = Fed(client)
  BY <1>2 DEF Fed
<1> QED BY <1>1, <1>2, <1>3, PausingKeeps

LEMMA ReceiverRestartsKeeps ==
  ASSUME PipelineIInv, ReceiverRestarts
  PROVE  PipelineIInv'
<1>1. /\ receiver' = Nothing /\ primed' = LeavesOf(Waiting)
      /\ UNCHANGED <<tree, client, newest, latest, lost, underway>>
  BY DEF ReceiverRestarts
<1>2. lost \subseteq Leaves /\ inFlight \in InFlight
  BY DEF PipelineIInv, PipelineTypeOK
<1>3. primed' \subseteq Leaves
  BY <1>1, WaitingFacts
<1>11. \/ inFlight' = inFlight
       \/ inFlight' = [inFlight EXCEPT !.out = << >>]
  BY DEF ReceiverRestarts
<1>12. /\ inFlight' \in InFlight /\ inFlight'.size = inFlight.size
       /\ inFlight'.out = inFlight.out \/ inFlight'.out = << >>
       /\ inFlight = Idle => inFlight' = Idle
  <2>1. << >> \in Seq(Delta)
    BY EmptySeq
  <2>2. /\ [inFlight EXCEPT !.out = << >>] \in InFlight
        /\ [inFlight EXCEPT !.out = << >>].size = inFlight.size
        /\ [inFlight EXCEPT !.out = << >>].out = << >>
    BY <1>2, <2>1 DEF InFlight
  <2>3. [Idle EXCEPT !.out = << >>] = Idle
    BY DEF Idle
  <2>4. inFlight = Idle => [inFlight EXCEPT !.out = << >>] = Idle
    BY <2>3
  <2>5. CASE inFlight' = inFlight
    BY <1>2, <2>5
  <2>6. CASE inFlight' = [inFlight EXCEPT !.out = << >>]
    BY <2>2, <2>4, <2>6
  <2> QED BY <1>11, <2>5, <2>6
<1>13. \A l \in Leaves : ToBeShown'[l] = {} \/ ToBeShown'[l] = ToBeShown[l]
  <2>1. CASE inFlight'.out = inFlight.out
    BY <1>1, <2>1 DEF ToBeShown, Shown, Nothing
  <2>2. CASE inFlight'.out = << >>
    <3>1. LeavesOf(<< >>) = {}
      BY LeavesFacts, EmptySeq
    <3> QED BY <1>1, <2>2, <3>1 DEF ToBeShown, Shown, Nothing
  <2> QED BY <1>12, <2>1, <2>2
<1>14. Waiting' = Waiting
  BY <1>1 DEF Waiting
<1>4. \A l \in Leaves : receiver'[l] = {} /\ Cardinality(receiver'[l]) <= 1
  BY <1>1, FS_EmptySet DEF Nothing
<1>5. receiver' = [l \in Leaves |-> receiver'[l]]
  BY <1>1 DEF Nothing
<1>6. PipelineTypeOK'
  BY <1>1, <1>2, <1>3, <1>4, <1>12 DEF PipelineIInv, PipelineTypeOK
<1>7. Dated' /\ MissedIsFed'
  BY <1>1 DEF PipelineIInv, Dated, MissedIsFed, Fed, Published, CurrentDelta
<1>8. PrimedIsKept'
  BY <1>1, <1>14 DEF PrimedIsKept
<1>9. ThrottleTells'
  <2>1. client.throttle \in Seq(Entry)
    BY ClientFacts DEF PipelineIInv, PipelineTypeOK
  <2>2. \A i \in DOMAIN client.throttle : client.throttle[i].key \in Leaves
    <3>1. \A i \in DOMAIN client.throttle : client.throttle[i] \in Entry
      BY <2>1, SeqFacts
    <3> QED BY <3>1 DEF Entry, ThrottleEntry
  <2> QED BY <1>1, <1>13, <2>2 DEF PipelineIInv, ThrottleTells
<1>10. LastIsShown'
  BY <1>1, <1>13, <1>14 DEF PipelineIInv, LastIsShown
<1> QED BY <1>1, <1>5, <1>6, <1>7, <1>8, <1>9, <1>10 DEF PipelineIInv

LEMMA StutterKeeps ==
  ASSUME PipelineIInv, UNCHANGED pipelineVars
  PROVE  PipelineIInv'
<1>1. /\ client \in Client /\ NoneEmpty(client.pumps)
      /\ client.recovering => ~ client.ready
      /\ client' = client /\ UNCHANGED <<tree, receiver, inFlight, history>>
  BY DEF PipelineIInv, PipelineTypeOK, MissedIsFed, NoneEmpty, pipelineVars
<1>2. Fed(client)' = Fed(client)
  BY <1>1 DEF Fed
<1> QED BY <1>1, <1>2, PausingKeeps

LEMMA PipelineStart == PipelineInit => PipelineIInv
<1> SUFFICES ASSUME PipelineInit PROVE PipelineIInv
  OBVIOUS
<1>1. /\ client \in Client /\ client.pumps = << >> /\ client.recent = << >>
      /\ client.buffer = << >> /\ client.throttle = << >>
      /\ ~ client.delivers /\ ~ client.recovering
  <2>1. << >> \in Seq(Seq(Delta)) /\ << >> \in Seq(Delta)
        /\ << >> \in Seq(ThrottleEntry(Leaves, Int))
    BY EmptySeq
  <2> QED BY <2>1 DEF PipelineInit, Client
<1>2. /\ tree = FirstTree /\ receiver = Nothing /\ primed = {} /\ lost = {}
      /\ newest = [l \in Leaves |-> 0] /\ latest = [l \in Leaves |-> 0]
  BY DEF PipelineInit
<1>3. /\ FirstTree \in [Leaves -> [value : Int, at : Stamps]]
      /\ 0 \in Stamps /\ Stamps \subseteq Nat
  BY PipelineAssumption DEF Stamps
<1>4. \A l \in Leaves : receiver[l] = {} /\ Cardinality(receiver[l]) <= 1
  BY <1>2, FS_EmptySet DEF Nothing
<1>5. Len(client.buffer) = 0 /\ Len(client.recent) = 0 /\ Len(client.throttle) = 0
  BY <1>1
<1>6. \A l \in Leaves : Cardinality(Lasts(client.throttle, l)) <= 1
  <2>1. \A l \in Leaves : Lasts(client.throttle, l) = {}
    BY <1>1 DEF Lasts
  <2> QED BY <2>1, FS_EmptySet
<1>7. 0 <= BufferCap /\ 0 <= RecentMax /\ 0 <= ThrottleMax
  BY PipelineAssumption, ThrottleAssumption
<1>14. /\ inFlight = Idle /\ underway = 0 /\ Idle \in InFlight /\ Idle.size = 0
  BY EmptySeq, PipelineAssumption DEF PipelineInit, Idle, InFlight
<1>15. ToBeShown = receiver
  BY <1>2, <1>14, ShownNothing DEF ToBeShown, Idle, Nothing
<1>8. PipelineTypeOK
  BY <1>1, <1>2, <1>4, <1>5, <1>6, <1>7, <1>14 DEF PipelineTypeOK
<1>9. Range(client.buffer) = {} /\ Range(client.recent) = {} /\ Fed(client) = {}
  BY <1>1 DEF Range, Fed
<1>10. Dated
  <2>1. ASSUME NEW l \in Leaves
        PROVE  latest[l] <= newest[l] /\ newest[l] <= tree[l].at
    <3>1. latest[l] = 0 /\ newest[l] = 0
      BY <1>2
    <3>2. FirstTree[l] \in [value : Int, at : Stamps]
      BY <1>3
    <3>3. tree[l].at \in Nat
      BY <1>2, <1>3, <3>2
    <3> QED BY <3>1, <3>3
  <2> QED BY <1>9, <2>1 DEF Dated
<1>11. MissedIsFed /\ PrimedIsKept /\ ThrottleTells
  BY <1>1, <1>2 DEF MissedIsFed, PrimedIsKept, ThrottleTells
<1>12. LastIsShown
  BY <1>1, <1>4, <1>15 DEF LastIsShown
<1>13. receiver = [l \in Leaves |-> receiver[l]]
  BY <1>2 DEF Nothing
<1> QED BY <1>2, <1>3, <1>8, <1>10, <1>11, <1>12, <1>13 DEF PipelineIInv

LEMMA PipelineStepKeeps ==
  ASSUME PipelineIInv, PipelineNext \/ UNCHANGED pipelineVars
  PROVE  PipelineIInv'
<1>1. ASSUME NEW l \in Leaves, NEW v \in ValuesOf[l], Publish(l, v)
      PROVE  PipelineIInv'
  BY <1>1, PublishKeeps
<1>2. ASSUME NEW l \in Leaves, Redeliver(l) PROVE PipelineIInv'
  BY <1>2, RedeliverKeeps
<1>3. ASSUME NEW i \in DOMAIN client.pumps, Pump(i) PROVE PipelineIInv'
  BY <1>3, PumpKeeps
<1>4. CASE Forget
  BY <1>4, ForgetKeeps
<1>5. ASSUME NEW i \in DOMAIN client.throttle, IntervalPasses(i) PROVE PipelineIInv'
  BY <1>5, IntervalPassesKeeps
<1>6. CASE FlushSucceeds
  BY <1>6, FlushSucceedsKeeps
<1>7. ASSUME NEW last \in BOOLEAN, FlushFails(last) PROVE PipelineIInv'
  BY <1>7, FlushFailsKeeps
<1>8. CASE SocketError
  BY <1>8, SocketErrorKeeps
<1>9. CASE SocketRecovered
  BY <1>9, SocketRecoveredKeeps
<1>10. CASE SubscriptionError
  BY <1>10, SubscriptionErrorKeeps
<1>11. CASE SubscriptionRetry
  BY <1>11, SubscriptionRetryKeeps
<1>12. CASE SubscriptionChange
  BY <1>12, SubscriptionChangeKeeps
<1>13. CASE ReceiverRestarts
  BY <1>13, ReceiverRestartsKeeps
<1>14. CASE FullStatusRequest
  BY <1>14, FullStatusRequestKeeps
<1>15. CASE LimitPasses
  BY <1>15, LimitPassesKeeps
<1>17. CASE Flush
  BY <1>17, FlushKeeps
<1>16. CASE UNCHANGED pipelineVars
  BY <1>16, StutterKeeps
<1> QED BY <1>1, <1>2, <1>3, <1>4, <1>5, <1>6, <1>7, <1>8, <1>9, <1>10, <1>11,
           <1>12, <1>13, <1>14, <1>15, <1>16, <1>17 DEF PipelineNext

-----------------------------------------------------------------------------
(* Whatever is published, delivered, remembered, replayed, flushed, lost,  *)
(* paused and restarted, in whatever order: everything on its way is       *)
(* dated, what was missed comes with a replay, what the receiver should    *)
(* have it has or gets, and the throttle remembers what it has.            *)
THEOREM PipelineSafe == PipelineSpec => []PipelineIInv
<1>1. PipelineIInv /\ [PipelineNext]_pipelineVars => PipelineIInv'
  BY PipelineStepKeeps
<1> QED BY PipelineStart, <1>1, PTL DEF PipelineSpec

(* The caps of the buffer, of the memory of the last deltas and of the     *)
(* throttle hold, and a connection that has settled has missed nothing,    *)
(* although processDelta forgets what comes while sending is paused.       *)
THEOREM PipelineStaysSound == PipelineSpec => []PipelineInv
<1>1. PipelineIInv => PipelineInv
  <2> SUFFICES ASSUME PipelineIInv, Settled, NEW l \in Published \ Unattributed,
                      IsForwarded(l)
               PROVE  newest[l] = tree[l].at
    BY DEF PipelineInv, PipelineIInv, NothingMissed
  <2>1. Fed(client) = {}
    BY DEF Settled, Fed
  <2> QED BY <2>1 DEF PipelineIInv, MissedIsFed, Settled
<1> QED BY <1>1, PipelineSafe, PTL

(* A receiver that starts anew gets back every leaf that no throttle rule  *)
(* holds back and of which nothing was lost, once its request is heeded    *)
(* and the client has drained: however the replay, the live deltas and     *)
(* the pauses meet.                                                        *)
THEOREM RestartedAreReprimed == PipelineSpec => []RestartedIsReprimed
<1>1. PipelineIInv => RestartedIsReprimed
  <2> SUFFICES ASSUME PipelineIInv, Drained, NEW l \in primed \ lost, Passes(l),
                      ~ Rules[l].interval, Rules[l].deadband = 0
               PROVE  receiver[l] # {}
    BY DEF RestartedIsReprimed
  <2>1. Fed(client) = {} /\ LeavesOf(client.buffer) = {} /\ client.ready
    BY DEF Drained, Settled, Fed, LeavesOf
  <2>2. ~ IsComing(l)
    BY <2>1 DEF IsComing
  <2>3. ToBeShown = receiver /\ Waiting = client.buffer
    BY IdleFacts DEF Drained
  <2> QED BY <2>1, <2>2, <2>3 DEF PipelineIInv, PrimedIsKept, Unruled
<1> QED BY <1>1, PipelineSafe, PTL

(* Dropping small changes does not add up: the value the receiver shows    *)
(* stays within the deadband of the one accepted last.                     *)
THEOREM ReceiverAlwaysFollows == PipelineSpec => []ReceiverFollows
<1>1. PipelineIInv => ReceiverFollows
  <2> SUFFICES ASSUME PipelineIInv, Drained, NEW l \in Published \ lost,
                      ~ Rules[l].interval, latest[l] = tree[l].at,
                      NEW v \in receiver[l]
               PROVE  Shows(l, v, tree[l].value)
    BY DEF ReceiverFollows, Shows
  <2>1. LeavesOf(client.buffer) = {} /\ l \in Leaves \ lost
    BY DEF Drained, LeavesOf, Published
  <2>2. ToBeShown = receiver /\ Waiting = client.buffer
    BY IdleFacts DEF Drained
  <2> QED BY <2>1, <2>2 DEF PipelineIInv, LastIsShown
<1> QED BY <1>1, PipelineSafe, PTL

=============================================================================
