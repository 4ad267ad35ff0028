---------------------------- MODULE DeltaBatcher ----------------------------
(***************************************************************************)
(* The outbound side of a client connection: processDelta appends deltas   *)
(* to state.deltas (src/app/connection/process-delta.ts), and the delta    *)
(* batcher (src/domain/delta-batcher.ts) sends them from the head in       *)
(* batches, one at a time, with one retry after a back-off.                *)
(*                                                                         *)
(* A send is an await: between the slice that takes the batch and the      *)
(* splice that removes it, the buffer cap may have removed the head, the   *)
(* timers may have fired, the socket or the subscription may have failed,  *)
(* and the connection may have been stopped.                               *)
(*                                                                         *)
(* Deltas are numbered in the order they are accepted.  They are appended  *)
(* at one end of the buffer and removed at the other, so the buffer is the *)
(* interval head .. next - 1.  A delta that processDelta does not accept   *)
(* (not ready, filtered out, a recent duplicate) changes nothing here.     *)
(***************************************************************************)
EXTENDS Integers, FiniteSets

CONSTANTS
  BufferCap,    \* MAX_DELTAS_BUFFER_SIZE
  DropCount,    \* BufferCap * DELTA_BUFFER_DROP_RATIO
  MaxBatch,     \* SMART_BATCH_MAX_DELTAS, the ceiling of maxDeltasPerBatch
  MaxRetries,   \* DELTA_SEND_MAX_RETRIES
  MaxDeltas     \* bound: deltas accepted in a behaviour

ASSUME BatcherAssumption ==
  /\ BufferCap \in Nat \ {0}
  /\ DropCount \in 1 .. BufferCap
  /\ MaxBatch \in Nat \ {0}
  /\ MaxBatch <= BufferCap - DropCount + 1
  /\ MaxRetries \in Nat
  /\ MaxDeltas \in Nat

VARIABLES
  batcher,      \* the fields of InstanceState the batcher shares
  sentCount,    \* history: deltas in the batches whose send succeeded
  lastSent,     \* history: the highest number among them
  attempts,     \* history: sends begun per delta (saturates after the budget)
  trimmed       \* history: the cap took the head since the first attempt

vars == <<batcher, sentCount, lastSent, attempts, trimmed>>

-----------------------------------------------------------------------------
Least(a, b) == IF a <= b THEN a ELSE b

NoRetry == [size |-> 0, count |-> 0]

Retry == [size : 0 .. MaxBatch, count : 0 .. MaxRetries]

Send == [from : 1 .. MaxDeltas, size : 1 .. MaxBatch, count : 0 .. MaxRetries]

Batcher ==
  [head       : 1 .. MaxDeltas + 1,   \* state.deltas, oldest first
   next       : 1 .. MaxDeltas + 1,
   timer      : BOOLEAN,              \* the delta timer asked for a flush
   inFlight   : BOOLEAN,              \* batchSendInFlight
   retry      : Retry,                \* pendingRetry and its arguments
   drain      : BOOLEAN,              \* a setImmediate flush is queued
   sends      : SUBSET Send,          \* awaits of sendDelta not settled yet
   maxBatch   : 1 .. MaxBatch,        \* maxDeltasPerBatch
   dropped    : Nat,                  \* droppedDeltaCount
   ready      : BOOLEAN,              \* readyToSend
   recovering : BOOLEAN,              \* socketRecoveryInProgress
   stopped    : BOOLEAN]

Buffered(b) == b.next - b.head

(* state.deltas.splice(0, n) *)
Splice(b, n) == [b EXCEPT !.head = @ + Least(n, Buffered(b))]

(* The early return of flushDeltaBatch. *)
MayFlush(b) ==
  /\ ~ b.inFlight
  /\ b.retry = NoRetry
  /\ ~ b.stopped
  /\ b.ready
  /\ ~ b.recovering

(* flushDeltaBatch(size, count) up to its await. *)
Flush(b, size, count) ==
  LET n == Least(Least(size, Buffered(b)), b.maxBatch) IN
  IF ~ MayFlush(b) THEN b
  ELSE IF n <= 0 THEN [b EXCEPT !.timer = FALSE]
  ELSE [b EXCEPT
          !.inFlight = TRUE,
          !.sends = @ \cup {[from |-> b.head, size |-> n, count |-> count]}]

(* flushDeltaBatch() *)
FlushAll(b) == Flush(b, Buffered(b), 0)

(* enforceBufferCap *)
EnforceBufferCap(b) ==
  IF Buffered(b) < BufferCap THEN b
  ELSE [Splice(b, DropCount) EXCEPT !.dropped = @ + DropCount]

(* maybeFlush *)
MaybeFlush(b) ==
  IF (Buffered(b) >= b.maxBatch \/ b.timer) /\ b.retry = NoRetry
  THEN FlushAll(b) ELSE b

(* The finally block of flushDeltaBatch. *)
Settle(b, s) ==
  [b EXCEPT
     !.sends = @ \ {s},
     !.inFlight = FALSE,
     !.drain = @ \/ (Buffered(b) > 0 /\ b.retry = NoRetry /\ ~ b.stopped)]

(* Defect: one delta too few is taken off the buffer. *)
OnSentOneFewer(b, s, m) ==
  Settle([Splice(b, s.size - 1) EXCEPT !.timer = FALSE, !.maxBatch = m], s)

(* sendDelta resolved; updateSmartBatch chose a new batch size m. *)
OnSent(b, s, m) ==
  Settle([Splice(b, s.size) EXCEPT !.timer = FALSE, !.maxBatch = m], s)

(* Defect: the attempt that is about to be made counts as made. *)
GivesUpEarly(s) == s.count + 2 > MaxRetries

(* handleBatchSendFailure: no attempt remains. *)
GivesUp(s) == s.count + 1 > MaxRetries

(* handleBatchSendFailure, then the finally block. *)
OnFailure(b, s) ==
  Settle(IF GivesUp(s)
         THEN [Splice(b, s.size) EXCEPT !.timer = FALSE,
                                        !.dropped = @ + s.size]
         ELSE IF b.retry # NoRetry \/ b.stopped THEN b
         ELSE [b EXCEPT !.retry = [size |-> s.size, count |-> s.count + 1]],
         s)

-----------------------------------------------------------------------------
(* A started client.  A socket error while start() is still running leaves *)
(* it ready and recovering at once.                                        *)
Init ==
  /\ batcher \in [head : {1}, next : {1}, timer : {FALSE}, inFlight : {FALSE},
                  retry : {NoRetry}, drain : {FALSE}, sends : {{}},
                  maxBatch : 1 .. MaxBatch, dropped : {0}, ready : {TRUE},
                  recovering : BOOLEAN, stopped : {FALSE}]
  /\ sentCount = 0
  /\ lastSent = 0
  /\ attempts = [d \in 1 .. MaxDeltas |-> 0]
  /\ trimmed = FALSE

(* The batcher becomes b; a send begun by this step is an attempt of each  *)
(* of its deltas, and a first attempt starts with an untouched head.       *)
Becomes(b) ==
  LET begun == b.sends \ batcher.sends IN
  /\ batcher' = b
  /\ attempts' = [d \in 1 .. MaxDeltas |->
       IF \E s \in begun : d \in s.from .. s.from + s.size - 1
       THEN Least(attempts[d] + 1, MaxRetries + 1) ELSE attempts[d]]
  /\ trimmed' = /\ \A s \in begun : s.count # 0
                /\ \/ trimmed
                   \/ b.next > batcher.next /\ Buffered(batcher) >= BufferCap

(* processDelta accepts a delta. *)
ProcessDelta ==
  /\ batcher.ready
  /\ batcher.next <= MaxDeltas
  /\ Becomes(MaybeFlush([EnforceBufferCap(batcher) EXCEPT !.next = @ + 1]))
  /\ UNCHANGED <<sentCount, lastSent>>

(* Defect: the timer sets the flag and leaves the flush to processDelta. *)
OnDeltaTimerFlagOnly(b) == [b EXCEPT !.timer = TRUE]

(* The callback of scheduleDeltaTimer, which re-arms itself. *)
OnDeltaTimer(b) ==
  IF Buffered(b) > 0 THEN FlushAll([b EXCEPT !.timer = TRUE])
                     ELSE [b EXCEPT !.timer = TRUE]

DeltaTimer ==
  /\ ~ batcher.stopped
  /\ Becomes(OnDeltaTimer(batcher))
  /\ UNCHANGED <<sentCount, lastSent>>

(* The callback of scheduleBatchRetry. *)
RetryTimer ==
  /\ batcher.retry # NoRetry
  /\ Becomes(Flush([batcher EXCEPT !.retry = NoRetry],
                   batcher.retry.size, batcher.retry.count))
  /\ UNCHANGED <<sentCount, lastSent>>

(* The setImmediate callback.  Callbacks queued twice run in one turn of   *)
(* the event loop, and the second finds the send of the first in flight.   *)
Drain ==
  /\ batcher.drain
  /\ Becomes(FlushAll([batcher EXCEPT !.drain = FALSE]))
  /\ UNCHANGED <<sentCount, lastSent>>

SendSucceeds(s) ==
  /\ \E m \in 1 .. MaxBatch : Becomes(OnSent(batcher, s, m))
  /\ sentCount' = sentCount + s.size
  /\ lastSent' = s.from + s.size - 1

SendFails(s) ==
  /\ Becomes(OnFailure(batcher, s))
  /\ UNCHANGED <<sentCount, lastSent>>

(* handleClientSocketError: sending stops until the socket is back. *)
SocketError ==
  /\ ~ batcher.recovering
  /\ ~ batcher.stopped
  /\ Becomes([batcher EXCEPT !.ready = FALSE, !.recovering = TRUE])
  /\ UNCHANGED <<sentCount, lastSent>>

(* recoverClientSocket; its timer does nothing once the connection stops. *)
SocketRecovered ==
  /\ batcher.recovering
  /\ ~ batcher.stopped
  /\ Becomes([batcher EXCEPT !.ready = TRUE, !.recovering = FALSE])
  /\ UNCHANGED <<sentCount, lastSent>>

(* The subscription manager's error handler and its successful retry. *)
SubscriptionError ==
  /\ ~ batcher.stopped
  /\ Becomes([batcher EXCEPT !.ready = FALSE])
  /\ UNCHANGED <<sentCount, lastSent>>

SubscriptionRestored ==
  /\ ~ batcher.recovering
  /\ ~ batcher.stopped
  /\ ~ batcher.ready
  /\ Becomes([batcher EXCEPT !.ready = TRUE])
  /\ UNCHANGED <<sentCount, lastSent>>

(* stop(): teardownSession and teardownTimers.  The manager starts a new   *)
(* instance next time, so this one never leaves the stopped state; a send  *)
(* still awaited settles later.                                            *)
TornDown(b) ==
  [b EXCEPT !.head = b.next, !.timer = FALSE, !.inFlight = FALSE,
            !.retry = NoRetry, !.dropped = 0, !.ready = FALSE,
            !.recovering = FALSE, !.stopped = TRUE]

Stop ==
  /\ ~ batcher.stopped
  /\ Becomes(TornDown(batcher))
  /\ UNCHANGED <<sentCount, lastSent>>

SendSettles == \E s \in batcher.sends : SendSucceeds(s) \/ SendFails(s)

Next ==
  \/ ProcessDelta
  \/ DeltaTimer
  \/ RetryTimer
  \/ Drain
  \/ SendSettles
  \/ SocketError
  \/ SocketRecovered
  \/ SubscriptionError
  \/ SubscriptionRestored
  \/ Stop

(* Timers fire, queued callbacks run, and a send settles (the UDP send has *)
(* a timeout).  Nothing forces a delta to arrive or a socket to recover.   *)
Fairness ==
  /\ WF_vars(DeltaTimer)
  /\ WF_vars(RetryTimer)
  /\ WF_vars(Drain)
  /\ WF_vars(SendSettles)

Spec == Init /\ [][Next]_vars /\ Fairness

-----------------------------------------------------------------------------
(* The fields of InstanceState the batcher shares keep their types: batch  *)
(* sizes and retry counts within their limits.                             *)
TypeOK ==
  /\ batcher \in Batcher
  /\ sentCount \in Nat
  /\ lastSent \in 0 .. MaxDeltas
  /\ attempts \in [1 .. MaxDeltas -> 0 .. MaxRetries + 1]
  /\ trimmed \in BOOLEAN

(* While the connection runs, the counters balance: as many deltas left    *)
(* the buffer as were in a batch that was sent or are in                   *)
(* droppedDeltaCount.  Also when the cap trims the batch in flight, where  *)
(* the splice after the await takes as many unsent deltas from the buffer  *)
(* as the cap had counted of those that were sent.                         *)
EveryDeltaAccounted ==
  ~ batcher.stopped => batcher.head - 1 = sentCount + batcher.dropped

(* One batch at a time is with the pipeline, and none during a back-off:   *)
(* the guard flags agree with the awaits that are outstanding.             *)
SingleFlight ==
  /\ Cardinality(batcher.sends) <= 1
  /\ ~ batcher.stopped => batcher.inFlight = (batcher.sends # {})
  /\ batcher.retry # NoRetry => batcher.sends = {}

(* A delta whose send succeeded is out of the buffer, so it is never sent  *)
(* again.                                                                  *)
SentLeavesBuffer == lastSent < batcher.head

(* The buffer never grows past its cap. *)
BufferCapped == Buffered(batcher) <= BufferCap

(* The batch being awaited was taken at or before the head and can still   *)
(* be removed whole: the cap leaves at least a full batch.                 *)
AwaitedFits(b) ==
  \A s \in b.sends :
    /\ s.from <= b.head
    /\ s.from + s.size <= b.next
    /\ ~ b.stopped => s.size <= Buffered(b)

(* Unless the cap moved the head since the first attempt, the awaited      *)
(* batch starts at the head and each of its deltas has been tried once     *)
(* more often than count says, and a batch that waits for its retry is     *)
(* still whole and was tried as often as count says.                       *)
AttemptsCounted ==
  ~ trimmed =>
    /\ \A s \in batcher.sends :
         /\ ~ batcher.stopped => s.from = batcher.head
         /\ \A d \in s.from .. s.from + s.size - 1 : attempts[d] > s.count
    /\ batcher.retry # NoRetry =>
         /\ batcher.retry.size <= Buffered(batcher)
         /\ \A d \in batcher.head .. batcher.head + batcher.retry.size - 1 :
              attempts[d] >= batcher.retry.count

(* The strengthening of the invariants above that every step preserves. *)
IInv ==
  /\ TypeOK
  /\ batcher.head <= batcher.next
  /\ EveryDeltaAccounted
  /\ \A s, t \in batcher.sends : s = t
  /\ ~ batcher.stopped => batcher.inFlight = (batcher.sends # {})
  /\ batcher.retry # NoRetry => batcher.sends = {} /\ batcher.retry.size # 0
  /\ batcher.stopped => ~ batcher.ready /\ batcher.retry = NoRetry
  /\ batcher.stopped => batcher.head = batcher.next
  /\ AwaitedFits(batcher)
  /\ SentLeavesBuffer
  /\ BufferCapped
  /\ AttemptsCounted

(* Batches are sent in order, and a batch that is begun starts behind      *)
(* everything that was sent.                                               *)
SentInOrder ==
  [][\A s \in batcher'.sends \ batcher.sends :
       s.from > lastSent /\ s.from = batcher'.head]_vars

(* The deltas a failed batch drops were all tried the full number of times *)
(* unless the cap moved the head meanwhile.                                *)
DroppedBySend(d) ==
  /\ \E s \in batcher.sends : SendFails(s)
  /\ d \in batcher.head .. batcher'.head - 1

DroppedAfterRetries ==
  [][\A d \in 1 .. MaxDeltas :
       DroppedBySend(d) /\ ~ trimmed => attempts[d] = MaxRetries + 1]_vars

(* A buffered delta is sent or dropped without the help of another delta,  *)
(* as long as the connection can send (the contract in the comment of      *)
(* scheduleDeltaTimer).                                                    *)
BufferDrains ==
  \A d \in 1 .. MaxDeltas :
    (batcher.head <= d /\ d < batcher.next)
      ~> (d < batcher.head \/ ~ batcher.ready \/ batcher.recovering)

-----------------------------------------------------------------------------
(* What the log line and the comment of handleBatchSendFailure say: what   *)
(* is dropped is the batch that failed "after N failed attempts".          *)
DroppedBatchWasTried ==
  [][\A d \in 1 .. MaxDeltas :
       DroppedBySend(d) => attempts[d] = MaxRetries + 1]_vars

=============================================================================
