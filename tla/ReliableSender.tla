--------------------------- MODULE ReliableSender ---------------------------
(***************************************************************************)
(* The sending half of the reliable protocol: the retransmit queue         *)
(* (src/transport/reliability/retransmit-queue.ts) with the ACK, NAK and   *)
(* recovery burst handlers of the client pipeline                          *)
(* (src/transport/pipeline/reliable-client/reliability.ts) and sendDelta.  *)
(*                                                                         *)
(* A packet leaves the queue when it is acknowledged, when its budget of   *)
(* retransmissions is spent, when it is too old, or when the queue is      *)
(* full.  A NAK, a burst and a first send each await the socket for every  *)
(* packet, so all three are under way at once, next to ACKs that arrive    *)
(* late, twice or out of order.                                            *)
(*                                                                         *)
(* Ages are not numbers here: packets are queued in the order of their     *)
(* sequence numbers, so removing what is too old removes the oldest few.   *)
(***************************************************************************)
EXTENDS SerialArithmetic, FiniteSets

CONSTANTS
  MaxQueue,        \* retransmitQueueSize
  MaxRetransmits,  \* retransmissions per packet
  BurstSize,       \* recoveryBurstSize
  MaxAhead,        \* bound: how far a number may be ahead of the oldest
                   \* one that is of interest (less than half the space)
  MaxSends         \* bound: sendDelta calls under way at once

ASSUME SenderAssumption ==
  /\ MaxQueue \in Nat \ {0}
  /\ MaxRetransmits \in Nat
  /\ BurstSize \in Nat \ {0}
  /\ MaxAhead \in 1 .. HalfSpace - 1
  /\ MaxSends \in Nat \ {0}

VARIABLES
  nextSeq,       \* PacketBuilder._sequence
  used,          \* history: how many numbers were used, up to MaxAhead + 1
  queued,        \* keys of RetransmitQueue.queue
  attempts,      \* QueueEntry.attempts (kept when the entry is removed)
  lastAckedSeq,  \* ClientMutableState.lastAckedSeq
  sending,       \* numbers that sendDelta calls have yet to send
  nakSends,      \* per number: sends that receiveNAK loops have yet to make
  burstSends,    \* numbers the running recovery burst has yet to send
  burstTimer,    \* recoveryDrainTimer is set
  wire           \* history: copies of a number handed to the socket

queueVars == <<queued, attempts, lastAckedSeq>>
burstVars == <<burstSends, burstTimer>>
vars == <<nextSeq, used, sending, nakSends, wire, queueVars, burstVars>>

-----------------------------------------------------------------------------
(* How long ago a number was used: 1 for the latest. *)
Age(s) == Dist(s, nextSeq)

Older(s, t) == Age(s) > Age(t)

(* The n oldest of S, the numbers with fewer than n older ones. *)
Oldest(S, n) == {s \in S : Cardinality({t \in S : Older(t, s)}) < n}

(* Everything that still refers to a number. *)
InUse == queued \cup sending \cup burstSends
         \cup {s \in SeqNum : nakSends[s] > 0} \cup ({lastAckedSeq} \ {NoSeq})

(* recoveryDrainInFlight: set while a burst awaits one of its sends. *)
recoveryDrainInFlight == burstSends # {}

(* The eviction of add. *)
EvictIfFull(Q) ==
  IF Cardinality(Q) >= MaxQueue THEN Q \ Oldest(Q, 1) ELSE Q

(* Defect: the first ACK is taken to leave its reference in the queue. *)
AcknowledgedExclusive(Q, a) ==
  LET ref == IF lastAckedSeq # NoSeq THEN lastAckedSeq
             ELSE CHOOSE s \in Q : s \in Oldest(Q, 1)
  IN  IF Q = {} \/ Dist(ref, a) >= HalfSpace THEN {}
      ELSE {s \in Q : Dist(ref, s) \in 1 .. Dist(ref, a)}

(* acknowledgeRange, and acknowledge for the first ACK: what the           *)
(* cumulative ACK a removes from Q.  An ACK behind the reference is stale. *)
Acknowledged(Q, a) ==
  LET ref  == IF lastAckedSeq # NoSeq THEN lastAckedSeq
              ELSE CHOOSE s \in Q : s \in Oldest(Q, 1)
      from == IF lastAckedSeq # NoSeq THEN 1 ELSE 0
  IN  IF Q = {} \/ Dist(ref, a) >= HalfSpace THEN {}
      ELSE {s \in Q : Dist(ref, s) \in from .. Dist(ref, a)}

(* Defect: a packet is given up one retransmission early. *)
SpentEarly(S) == {s \in S : attempts[s] + 1 >= MaxRetransmits}

(* retransmit: the packets whose budget is spent leave the queue. *)
Spent(S) == {s \in S : attempts[s] >= MaxRetransmits}

(* Defect: a packet whose budget is spent is skipped and stays queued. *)
KeepSpent(Q, S) == Q

DropSpent(Q, S) == Q \ Spent(S)

(* Defect: the retransmission is not charged. *)
ChargeNothing(S) == attempts

(* retransmit: one attempt is charged for each of the others. *)
Charge(S) ==
  [s \in SeqNum |-> IF s \in S THEN attempts[s] + 1 ELSE attempts[s]]

(* pruneRetransmitQueue: what is too old is removed, or everything. *)
Pruned(Q, Q1) ==
  \E n \in 0 .. Cardinality(Q) : Q1 = Q \ Oldest(Q, n)

(* runRecoveryBurst up to its first await, on the queue Q, without the     *)
(* packets in recent (retransmitted within the last burst interval).       *)
RunBurst(Q, recent, hasSocket) ==
  LET chosen == Oldest(Q \ recent, BurstSize)
      toSend == chosen \ Spent(chosen)
  IN
  IF chosen = {} \/ ~ hasSocket
  THEN /\ burstTimer' = FALSE
       /\ queued' = Q
       /\ UNCHANGED <<attempts, burstSends>>
  ELSE /\ burstTimer' = TRUE
       /\ queued' = DropSpent(Q, chosen)
       /\ attempts' = Charge(toSend)
       /\ burstSends' = toSend

-----------------------------------------------------------------------------
Init ==
  /\ nextSeq \in SeqNum
  /\ used = 0
  /\ queued = {}
  /\ attempts = [s \in SeqNum |-> 0]
  /\ lastAckedSeq = NoSeq
  /\ sending = {}
  /\ nakSends = [s \in SeqNum |-> 0]
  /\ burstSends = {}
  /\ burstTimer = FALSE
  /\ wire = [s \in SeqNum |-> 0]

(* sendDelta up to its await of the socket: the number is consumed and     *)
(* queued first.  The batcher and the telemetry both call it.  Numbers in  *)
(* use stay within MaxAhead (half the space, in the code), and of those    *)
(* that fall behind the history is forgotten.                              *)
SendDelta ==
  LET fresh == {s \in SeqNum : Age(s) \in 1 .. MaxAhead} IN
  /\ Cardinality(sending) < MaxSends
  /\ InUse \subseteq fresh
  /\ sending' = sending \cup {nextSeq}
  /\ queued' = EvictIfFull(queued) \cup {nextSeq}
  /\ attempts' = [s \in SeqNum |-> IF s \in fresh THEN attempts[s] ELSE 0]
  /\ wire' = [s \in SeqNum |-> IF s \in fresh THEN wire[s] ELSE 0]
  /\ nextSeq' = Succ(nextSeq)
  /\ used' = IF used > MaxAhead THEN used ELSE used + 1
  /\ UNCHANGED <<lastAckedSeq, nakSends, burstVars>>

(* The rest of sendDelta, after a send that worked. *)
SendDone ==
  /\ \E s \in sending :
       /\ wire' = [wire EXCEPT ![s] = @ + 1]
       /\ sending' = sending \ {s}
  /\ Pruned(queued, queued')
  /\ UNCHANGED <<nextSeq, used, attempts, lastAckedSeq, nakSends, burstVars>>

(* A send that threw: the packet stays in the queue. *)
SendFailed ==
  /\ \E s \in sending : sending' = sending \ {s}
  /\ UNCHANGED <<nextSeq, used, wire, nakSends, queueVars, burstVars>>

(* receiveACK of a number that was used, however long ago; afterGap: the   *)
(* ACK ends a silence of recoveryAckGapMs, and startRecoveryBurstIfNeeded  *)
(* starts the burst and its timer.                                         *)
ReceiveACK(a, afterGap, recent) ==
  LET kept == queued \ Acknowledged(queued, a) IN
  /\ Age(a) \in 1 .. used
  /\ lastAckedSeq' = IF lastAckedSeq = NoSeq \/ IsAhead(a, lastAckedSeq)
                     THEN a ELSE lastAckedSeq
  /\ \E n \in 0 .. Cardinality(kept) :
       LET Q == kept \ Oldest(kept, n) IN
       IF ~ afterGap \/ Q = {}
       THEN queued' = Q /\ UNCHANGED <<attempts, burstVars>>
       ELSE IF recoveryDrainInFlight
       THEN /\ queued' = Q
            /\ burstTimer' = TRUE
            /\ UNCHANGED <<attempts, burstSends>>
       ELSE \E hasSocket \in BOOLEAN : RunBurst(Q, recent, hasSocket)
  /\ UNCHANGED <<nextSeq, used, sending, nakSends, wire>>

(* receiveNAK up to its first await. *)
ReceiveNAK(S) ==
  LET asked == S \cap queued
      toSend == asked \ Spent(asked)
  IN
  /\ queued' = DropSpent(queued, asked)
  /\ attempts' = Charge(toSend)
  /\ nakSends' = [s \in SeqNum |->
                    IF s \in toSend THEN nakSends[s] + 1 ELSE nakSends[s]]
  /\ UNCHANGED <<nextSeq, used, lastAckedSeq, sending, wire, burstVars>>

(* The loop of receiveNAK sends one packet. *)
NAKSend(s) ==
  /\ nakSends[s] > 0
  /\ nakSends' = [nakSends EXCEPT ![s] = @ - 1]
  /\ wire' = [wire EXCEPT ![s] = @ + 1]
  /\ UNCHANGED <<nextSeq, used, sending, queueVars, burstVars>>

(* A send of the loop throws, and the packets behind it are not sent. *)
NAKSendFails(S) ==
  /\ S # {}
  /\ \A s \in S : nakSends[s] > 0
  /\ nakSends' = [s \in SeqNum |->
                    IF s \in S THEN nakSends[s] - 1 ELSE nakSends[s]]
  /\ UNCHANGED <<nextSeq, used, sending, wire, queueVars, burstVars>>

(* The interval of the recovery burst. *)
BurstTimer(recent, hasSocket) ==
  /\ burstTimer
  /\ ~ recoveryDrainInFlight
  /\ RunBurst(queued, recent, hasSocket)
  /\ UNCHANGED <<nextSeq, used, lastAckedSeq, sending, nakSends, wire>>

(* The burst sends the oldest packet it has left. *)
BurstSend ==
  /\ burstSends # {}
  /\ \E s \in Oldest(burstSends, 1) :
       /\ burstSends' = burstSends \ {s}
       /\ wire' = [wire EXCEPT ![s] = @ + 1]
  /\ UNCHANGED <<nextSeq, used, sending, nakSends, burstTimer, queueVars>>

(* The socket is gone or a send of the burst throws: the burst stops. *)
BurstFails ==
  /\ burstSends # {}
  /\ burstSends' = {}
  /\ burstTimer' = FALSE
  /\ UNCHANGED <<nextSeq, used, sending, nakSends, wire, queueVars>>

(* publishMetrics prunes the queue too. *)
PublishMetrics ==
  /\ Pruned(queued, queued')
  /\ UNCHANGED <<nextSeq, used, attempts, lastAckedSeq, sending, nakSends, wire,
                 burstVars>>

(* stopMetricsPublishing, when the socket is to be recovered. *)
StopMetricsPublishing ==
  /\ burstTimer' = FALSE
  /\ UNCHANGED <<nextSeq, used, sending, nakSends, wire, queueVars, burstSends>>

(* The burst skips what was retransmitted lately, never a packet that was  *)
(* not retransmitted at all.                                               *)
Retransmitted == {s \in queued : attempts[s] > 0}

Next ==
  \/ SendDelta
  \/ SendDone
  \/ SendFailed
  \/ \E a \in SeqNum, afterGap \in BOOLEAN, recent \in SUBSET Retransmitted :
       ReceiveACK(a, afterGap, recent)
  \/ \E S \in SUBSET queued : ReceiveNAK(S)
  \/ \E s \in SeqNum : NAKSend(s)
  \/ \E S \in SUBSET SeqNum : NAKSendFails(S)
  \/ \E recent \in SUBSET Retransmitted, hasSocket \in BOOLEAN :
       BurstTimer(recent, hasSocket)
  \/ BurstSend
  \/ BurstFails
  \/ PublishMetrics
  \/ StopMetricsPublishing

(* The interval timer fires, and not for ever within a burst interval of a *)
(* NAK for the same packets: at some tick none of them is recent.  That    *)
(* tick is one that finds a socket (one that does not stops the timer).    *)
(* A send settles one way or the other.                                    *)
Fairness ==
  /\ WF_vars(BurstTimer({}, TRUE))
  /\ WF_vars(BurstSend \/ BurstFails)

Spec == Init /\ [][Next]_vars /\ Fairness

-----------------------------------------------------------------------------
(* No number is retransmitted more often than maxRetransmits, whoever      *)
(* asks, and every reference is to a sequence number.                      *)
TypeOK ==
  /\ nextSeq \in SeqNum
  /\ used \in 0 .. MaxAhead + 1
  /\ queued \subseteq SeqNum
  /\ attempts \in [SeqNum -> 0 .. MaxRetransmits]
  /\ lastAckedSeq \in SeqNum \cup {NoSeq}
  /\ sending \subseteq SeqNum
  /\ nakSends \in [SeqNum -> 0 .. MaxRetransmits]
  /\ burstSends \subseteq SeqNum
  /\ burstTimer \in BOOLEAN
  /\ wire \in [SeqNum -> 0 .. MaxRetransmits + 1]

(* Copies of s that are still going to be handed to the socket. *)
Underway(s) ==
  nakSends[s] + (IF s \in burstSends THEN 1 ELSE 0)
              + (IF s \in sending THEN 1 ELSE 0)

(* The budget holds for all senders of a packet together: sendDelta, any   *)
(* number of NAK handlers and the burst.  In particular, a packet with no  *)
(* attempt charged was sent at most once, so its ACK may be timed (Karn's  *)
(* rule in receiveACK).                                                    *)
WithinBudget == \A s \in SeqNum : wire[s] + Underway(s) <= 1 + attempts[s]

(* No ACK, however late or repeated, leaves an acknowledged packet in the  *)
(* queue, and none removes one that is ahead of it.                        *)
AckedNeverQueued ==
  lastAckedSeq # NoSeq => \A s \in queued : IsAhead(s, lastAckedSeq)

(* The queue holds at most retransmitQueueSize packets. *)
QueueBounded == Cardinality(queued) <= MaxQueue

(* What the steps preserve: the above, that each packet a NAK handler has  *)
(* yet to send was charged for, and that all numbers in use are recent.    *)
SenderInv ==
  /\ TypeOK
  /\ WithinBudget
  /\ AckedNeverQueued
  /\ QueueBounded
  /\ \A s \in SeqNum : nakSends[s] <= attempts[s]
  /\ \A s \in InUse : Age(s) \in 1 .. MaxAhead + 1

(* A packet leaves the queue only if it is acknowledged, if its budget is  *)
(* spent, or together with everything older: no hole is torn that no NAK   *)
(* could fill.                                                             *)
NoHoleTorn ==
  [][\A s \in queued \ queued' :
       \/ lastAckedSeq' # NoSeq /\ ~ IsAhead(s, lastAckedSeq')
       \/ attempts[s] = MaxRetransmits
       \/ \A t \in queued : Older(t, s) => t \notin queued']_vars

(* A recovery burst ends, unless new packets keep coming: it cannot send   *)
(* the same packets for ever.                                              *)
BurstEnds ==
  \A n \in SeqNum : (burstTimer /\ nextSeq = n) ~> (~ burstTimer \/ nextSeq # n)

=============================================================================
