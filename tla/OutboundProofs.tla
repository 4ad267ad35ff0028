---------------------------- MODULE OutboundProofs ----------------------------
(***************************************************************************)
(* What the client sends: the buffer of DeltaBatcher, for every buffer     *)
(* cap, drop count, batch size and retry budget, and the deduplication of  *)
(* ValueDedup, for any vessels, paths, values and cache sizes.             *)
(*                                                                         *)
(* The invariant of the batcher is stated once on its record (Sound), each *)
(* operator is shown to preserve it, and an action preserves IInv because  *)
(* it composes those operators.  That of the deduplication follows the     *)
(* cache the receiver will have when it has decoded what is on the way.    *)
(***************************************************************************)
EXTENDS DeltaBatcher, ValueDedup, FiniteSetTheorems, SequenceTheorems, TLAPS

(* IInv on a batcher b with sc deltas sent, ls the last of them. *)
Sound(b, sc, ls) ==
  /\ b \in Batcher
  /\ sc \in Nat
  /\ ls \in 0 .. MaxDeltas
  /\ b.head <= b.next
  /\ ~ b.stopped => b.head - 1 = sc + b.dropped
  /\ \A s, t \in b.sends : s = t
  /\ ~ b.stopped => b.inFlight = (b.sends # {})
  /\ b.retry # NoRetry => b.sends = {} /\ b.retry.size # 0
  /\ b.stopped => ~ b.ready /\ b.retry = NoRetry
  /\ b.stopped => b.head = b.next
  /\ AwaitedFits(b)
  /\ ls < b.head
  /\ Buffered(b) <= BufferCap

(* IInv is Sound of the batcher and its history. *)
LEMMA SoundIsIInv ==
  IInv <=> /\ Sound(batcher, sentCount, lastSent)
           /\ attempts \in [1 .. MaxDeltas -> 0 .. MaxRetries + 1]
           /\ trimmed \in BOOLEAN
           /\ AttemptsCounted
BY DEF IInv, Sound, TypeOK, EveryDeltaAccounted, SentLeavesBuffer, BufferCapped

(* A flush takes a batch without touching the buffer. *)
LEMMA FlushIsSound ==
  ASSUME NEW b, NEW sc, NEW ls, Sound(b, sc, ls),
         NEW size \in Int, NEW count \in 0 .. MaxRetries
  PROVE  Sound(Flush(b, size, count), sc, ls)
<1> DEFINE n == Least(Least(size, Buffered(b)), b.maxBatch)
           s == [from |-> b.head, size |-> n, count |-> count]
<1> USE BatcherAssumption DEF BatcherAssumption, Sound
<1>1. b.head \in 1 .. MaxDeltas + 1 /\ b.next \in 1 .. MaxDeltas + 1
      /\ b.maxBatch \in 1 .. MaxBatch /\ Buffered(b) \in Nat
  BY DEF Batcher, Buffered
<1>2. CASE ~ MayFlush(b)
  BY <1>2 DEF Flush
<1>3. CASE MayFlush(b) /\ n <= 0
  <2>1. Flush(b, size, count) = [b EXCEPT !.timer = FALSE]
    BY <1>3 DEF Flush
  <2> QED BY <2>1 DEF Batcher, AwaitedFits, Buffered
<1>4. CASE MayFlush(b) /\ ~ n <= 0
  <2> DEFINE c == [b EXCEPT !.inFlight = TRUE, !.sends = @ \cup {s}]
  <2>1. Flush(b, size, count) = c
    BY <1>4 DEF Flush
  <2>2. b.sends = {} /\ ~ b.stopped /\ b.retry = NoRetry
    BY <1>4 DEF MayFlush
  <2>3. n \in 1 .. MaxBatch /\ n <= Buffered(b)
    BY <1>1, <1>4 DEF Least
  <2>4. b.head + n <= b.next
    BY <1>1, <2>3 DEF Buffered
  <2>5. s \in Send
    BY <1>1, <2>3, <2>4 DEF Send
  <2>6. c.sends = {s}
    BY <2>2 DEF Batcher
  <2>7. c \in Batcher
    BY <2>5, <2>2 DEF Batcher
  <2>8. /\ c.head = b.head /\ c.next = b.next /\ c.stopped = b.stopped
        /\ c.dropped = b.dropped /\ c.retry = b.retry /\ c.inFlight = TRUE
        /\ c.ready = b.ready
    BY DEF Batcher
  <2>9. AwaitedFits(c)
    BY <1>1, <2>3, <2>4, <2>6, <2>8 DEF AwaitedFits, Buffered
  <2>10. \A x, y \in c.sends : x = y
    BY <2>6
  <2> HIDE DEF c, s, n
  <2> QED BY <2>1, <2>2, <2>6, <2>7, <2>8, <2>9, <2>10 DEF Buffered
<1> QED BY <1>2, <1>3, <1>4

(* Trimming the head and appending a delta: what is awaited still fits,    *)
(* because the cap leaves BufferCap - DropCount deltas behind.             *)
LEMMA AppendIsSound ==
  ASSUME NEW b, NEW sc, NEW ls, Sound(b, sc, ls),
         b.ready, b.next <= MaxDeltas
  PROVE  Sound([EnforceBufferCap(b) EXCEPT !.next = @ + 1], sc, ls)
<1>0. /\ BufferCap \in Nat /\ DropCount \in 1 .. BufferCap /\ MaxBatch \in Nat
      /\ MaxBatch <= BufferCap - DropCount + 1 /\ MaxDeltas \in Nat
  BY BatcherAssumption DEF BatcherAssumption
<1> USE <1>0 DEF Sound
<1>1. b.head \in 1 .. MaxDeltas + 1 /\ b.next \in 1 .. MaxDeltas + 1
      /\ Buffered(b) \in Nat /\ ~ b.stopped /\ b.dropped \in Nat
      /\ b.next + 1 \in 1 .. MaxDeltas + 1
  BY DEF Batcher, Buffered
<1>2. CASE Buffered(b) < BufferCap
  <2> DEFINE c == [b EXCEPT !.next = @ + 1]
  <2>1. [EnforceBufferCap(b) EXCEPT !.next = @ + 1] = c
    BY <1>2 DEF EnforceBufferCap
  <2>2. c \in Batcher
    BY <1>1 DEF Batcher
  <2>3. /\ c.head = b.head /\ c.next = b.next + 1 /\ c.stopped = b.stopped
        /\ c.dropped = b.dropped /\ c.retry = b.retry
        /\ c.inFlight = b.inFlight /\ c.ready = b.ready /\ c.sends = b.sends
    BY DEF Batcher
  <2>4. AwaitedFits(c)
    <3> SUFFICES ASSUME NEW s \in c.sends
                 PROVE  /\ s.from <= c.head
                        /\ s.from + s.size <= c.next
                        /\ ~ c.stopped => s.size <= Buffered(c)
      BY DEF AwaitedFits
    <3>1. s \in b.sends /\ s \in Send
      BY <2>2, <2>3 DEF Batcher
    <3> HIDE DEF c
    <3> QED BY <1>1, <2>3, <3>1 DEF AwaitedFits, Send, Buffered
  <2>5. /\ c.head <= c.next /\ ls < c.head /\ Buffered(c) <= BufferCap
        /\ ~ c.stopped => c.head - 1 = sc + c.dropped
    <3> HIDE DEF c
    <3> QED BY <1>1, <1>2, <2>3 DEF Buffered
  <2>6. Sound(c, sc, ls)
    <3> HIDE DEF c
    <3> QED BY <2>2, <2>3, <2>4, <2>5
  <2> HIDE DEF c, Sound
  <2> QED BY <2>1, <2>6
<1>3. CASE ~ Buffered(b) < BufferCap
  <2> DEFINE c == [b EXCEPT !.head = @ + DropCount, !.dropped = @ + DropCount,
                            !.next = @ + 1]
  <2>1. DropCount <= Buffered(b) /\ Buffered(b) = BufferCap
    <3>1. Buffered(b) <= BufferCap
      OBVIOUS
    <3> HIDE DEF Sound
    <3> QED BY <1>1, <1>3, <3>1
  <2>2. Splice(b, DropCount) = [b EXCEPT !.head = @ + DropCount]
    BY <1>1, <2>1 DEF Splice, Least
  <2>3. [EnforceBufferCap(b) EXCEPT !.next = @ + 1] = c
    BY <1>3, <2>2 DEF EnforceBufferCap, Batcher
  <2>4. b.head + DropCount \in 1 .. MaxDeltas + 1
    BY <1>1, <2>1 DEF Buffered
  <2>5. c \in Batcher
    <3>1. b \in Batcher /\ b.dropped + DropCount \in Nat
      BY <1>1
    <3> HIDE DEF Sound
    <3> QED BY <1>1, <2>4, <3>1 DEF Batcher
  <2>6. /\ c.head = b.head + DropCount /\ c.next = b.next + 1
        /\ c.stopped = b.stopped /\ c.dropped = b.dropped + DropCount
        /\ c.retry = b.retry /\ c.inFlight = b.inFlight
        /\ c.ready = b.ready /\ c.sends = b.sends
    BY DEF Batcher
  <2>7. AwaitedFits(c)
    <3> SUFFICES ASSUME NEW s \in c.sends
                 PROVE  /\ s.from <= c.head
                        /\ s.from + s.size <= c.next
                        /\ ~ c.stopped => s.size <= Buffered(c)
      BY DEF AwaitedFits
    <3>1. s \in b.sends /\ s \in Send
      BY <2>5, <2>6 DEF Batcher
    <3>2. Buffered(c) = BufferCap - DropCount + 1
      BY <1>1, <2>1, <2>6 DEF Buffered
    <3> HIDE DEF c
    <3> QED BY <1>1, <2>6, <3>1, <3>2 DEF AwaitedFits, Send
  <2>8. /\ c.head <= c.next /\ ls < c.head /\ Buffered(c) <= BufferCap
        /\ ~ c.stopped => c.head - 1 = sc + c.dropped
    <3> HIDE DEF c
    <3> QED BY <1>1, <2>1, <2>6 DEF Buffered
  <2>9. Sound(c, sc, ls)
    <3> HIDE DEF c
    <3> QED BY <2>5, <2>6, <2>7, <2>8
  <2> HIDE DEF c, Sound
  <2> QED BY <2>3, <2>9
<1> QED BY <1>2, <1>3

(* flushDeltaBatch() with its default arguments preserves Sound. *)
LEMMA FlushAllIsSound ==
  ASSUME NEW b, NEW sc, NEW ls, Sound(b, sc, ls)
  PROVE  Sound(FlushAll(b), sc, ls)
<1>1. Buffered(b) \in Int
  BY BatcherAssumption DEF BatcherAssumption, Sound, Batcher, Buffered
<1>2. 0 \in 0 .. MaxRetries
  BY BatcherAssumption DEF BatcherAssumption
<1> QED BY <1>1, <1>2, FlushIsSound DEF FlushAll

(* The end of an await: the batch leaves b.sends; n deltas left the buffer *)
(* as sent, or d of them as dropped, or none of them.                      *)
LEMMA SettleIsSound ==
  ASSUME NEW b, NEW s, s \in b.sends, NEW sc, NEW ls,
         b \in Batcher, sc \in Nat, ls \in 0 .. MaxDeltas,
         b.head <= b.next,
         ~ b.stopped => b.head - 1 = sc + b.dropped,
         \A x, y \in b.sends : x = y,
         b.retry # NoRetry => b.retry.size # 0,
         b.stopped => ~ b.ready /\ b.retry = NoRetry,
         b.stopped => b.head = b.next,
         ls < b.head,
         Buffered(b) <= BufferCap
  PROVE  Sound(Settle(b, s), sc, ls)
<1> DEFINE c == [b EXCEPT
     !.sends = @ \ {s},
     !.inFlight = FALSE,
     !.drain = @ \/ (Buffered(b) > 0 /\ b.retry = NoRetry /\ ~ b.stopped)]
<1>1. Settle(b, s) = c
  BY DEF Settle
<1>2. /\ c.head = b.head /\ c.next = b.next /\ c.stopped = b.stopped
      /\ c.dropped = b.dropped /\ c.retry = b.retry
      /\ c.inFlight = FALSE /\ c.ready = b.ready
  BY DEF Batcher
<1>3. c.sends = {}
  BY DEF Batcher
<1>4. (b.drain \/ (Buffered(b) > 0 /\ b.retry = NoRetry /\ ~ b.stopped)) \in BOOLEAN
  BY DEF Batcher
<1>5. c \in Batcher
  BY <1>4 DEF Batcher
<1> HIDE DEF c
<1> QED BY <1>1, <1>2, <1>3, <1>5 DEF Sound, AwaitedFits, Buffered

(* The batch was sent: its deltas leave the head. *)
LEMMA OnSentIsSound ==
  ASSUME NEW b, NEW sc, NEW ls, Sound(b, sc, ls),
         NEW s \in b.sends, NEW m \in 1 .. MaxBatch
  PROVE  Sound(OnSent(b, s, m), sc + s.size, s.from + s.size - 1)
<1> DEFINE c == [Splice(b, s.size) EXCEPT !.timer = FALSE, !.maxBatch = m]
           n == Least(s.size, Buffered(b))
<1>0. MaxBatch \in Nat /\ MaxDeltas \in Nat /\ BufferCap \in Nat
  BY BatcherAssumption DEF BatcherAssumption
<1>1. b \in Batcher /\ s \in Send /\ sc \in Nat
  BY DEF Sound, Batcher
<1>2. /\ b.head \in 1 .. MaxDeltas + 1 /\ b.next \in 1 .. MaxDeltas + 1
      /\ b.dropped \in Nat /\ b.head <= b.next /\ Buffered(b) \in Nat
  BY <1>0, <1>1 DEF Sound, Batcher, Buffered
<1>3. /\ s.from \in 1 .. MaxDeltas /\ s.size \in 1 .. MaxBatch
      /\ s.from <= b.head /\ s.from + s.size <= b.next
      /\ ~ b.stopped => s.size <= Buffered(b)
  BY <1>1 DEF Sound, AwaitedFits, Send
<1>4. n \in Nat /\ n <= Buffered(b) /\ n <= s.size
      /\ (n = s.size \/ n = Buffered(b)) /\ (~ b.stopped => n = s.size)
  BY <1>0, <1>2, <1>3 DEF Least
<1>5. c = [b EXCEPT !.head = @ + n, !.timer = FALSE, !.maxBatch = m]
  BY <1>1 DEF Splice, Batcher
<1>6. b.head + n \in 1 .. MaxDeltas + 1
  BY <1>0, <1>2, <1>4 DEF Buffered
<1>7. c \in Batcher
  BY <1>1, <1>5, <1>6 DEF Batcher
<1>8. /\ c.head = b.head + n /\ c.next = b.next /\ c.stopped = b.stopped
      /\ c.dropped = b.dropped /\ c.retry = b.retry
      /\ c.ready = b.ready /\ c.sends = b.sends
  BY <1>1, <1>5 DEF Batcher
<1>9. /\ \A x, y \in c.sends : x = y
      /\ c.retry # NoRetry => c.retry.size # 0
      /\ c.stopped => ~ c.ready /\ c.retry = NoRetry
      /\ ~ b.stopped => b.head - 1 = sc + b.dropped
      /\ b.stopped => b.head = b.next
      /\ Buffered(b) <= BufferCap
  BY <1>8 DEF Sound
<1>10. OnSent(b, s, m) = Settle(c, s)
  BY DEF OnSent
<1> HIDE DEF c, n
<1>11. s.from + s.size - 1 < c.head
  BY <1>0, <1>2, <1>3, <1>4, <1>8 DEF Buffered
<1>12. s.from + s.size - 1 \in 0 .. MaxDeltas /\ sc + s.size \in Nat
  BY <1>0, <1>1, <1>2, <1>3
<1>13. /\ c.head <= c.next /\ Buffered(c) <= BufferCap
       /\ ~ c.stopped => c.head - 1 = (sc + s.size) + c.dropped
       /\ c.stopped => c.head = c.next
  BY <1>0, <1>1, <1>2, <1>3, <1>4, <1>8, <1>9 DEF Buffered
<1>14. s \in c.sends
  BY <1>8
<1> QED BY <1>7, <1>9, <1>10, <1>11, <1>12, <1>13, <1>14, SettleIsSound

(* The send failed: a retry is scheduled, or the head of the buffer is     *)
(* dropped and counted.                                                    *)
LEMMA OnFailureIsSound ==
  ASSUME NEW b, NEW sc, NEW ls, Sound(b, sc, ls), NEW s \in b.sends
  PROVE  Sound(OnFailure(b, s), sc, ls)
<1> DEFINE n == Least(s.size, Buffered(b))
           c == IF GivesUp(s)
                THEN [Splice(b, s.size) EXCEPT !.timer = FALSE,
                                               !.dropped = @ + s.size]
                ELSE IF b.retry # NoRetry \/ b.stopped THEN b
                ELSE [b EXCEPT
                        !.retry = [size |-> s.size, count |-> s.count + 1]]
<1>0. /\ MaxBatch \in Nat /\ MaxDeltas \in Nat /\ BufferCap \in Nat
      /\ MaxRetries \in Nat
  BY BatcherAssumption DEF BatcherAssumption
<1>1. b \in Batcher /\ s \in Send /\ sc \in Nat /\ ls \in 0 .. MaxDeltas
  BY DEF Sound, Batcher
<1>2. /\ b.head \in 1 .. MaxDeltas + 1 /\ b.next \in 1 .. MaxDeltas + 1
      /\ b.dropped \in Nat /\ b.head <= b.next /\ Buffered(b) \in Nat
      /\ ls < b.head /\ Buffered(b) <= BufferCap
      /\ ~ b.stopped => b.head - 1 = sc + b.dropped
      /\ b.retry # NoRetry => b.retry.size # 0
      /\ b.stopped => ~ b.ready /\ b.retry = NoRetry
      /\ b.stopped => b.head = b.next
      /\ \A x, y \in b.sends : x = y
  BY <1>0, <1>1 DEF Sound, Batcher, Buffered
<1>3. /\ s.size \in 1 .. MaxBatch /\ s.count \in 0 .. MaxRetries
      /\ ~ b.stopped => s.size <= Buffered(b)
  BY <1>1 DEF Sound, AwaitedFits, Send
<1>4. OnFailure(b, s) = Settle(c, s)
  BY DEF OnFailure
<1>5. CASE GivesUp(s)
  <2>1. n \in Nat /\ n <= Buffered(b) /\ (~ b.stopped => n = s.size)
    BY <1>0, <1>2, <1>3 DEF Least
  <2>2. c = [b EXCEPT !.head = @ + n, !.timer = FALSE, !.dropped = @ + s.size]
    BY <1>1, <1>5 DEF Splice, Batcher
  <2>3. b.head + n \in 1 .. MaxDeltas + 1 /\ b.dropped + s.size \in Nat
    BY <1>0, <1>2, <1>3, <2>1 DEF Buffered
  <2>4. c \in Batcher
    BY <1>1, <2>2, <2>3 DEF Batcher
  <2>5. /\ c.head = b.head + n /\ c.next = b.next /\ c.stopped = b.stopped
        /\ c.dropped = b.dropped + s.size /\ c.retry = b.retry
        /\ c.ready = b.ready /\ c.sends = b.sends
    BY <1>1, <2>2 DEF Batcher
  <2> HIDE DEF c, n
  <2>6. /\ c.head <= c.next /\ Buffered(c) <= BufferCap /\ ls < c.head
        /\ ~ c.stopped => c.head - 1 = sc + c.dropped
        /\ c.stopped => c.head = c.next
    BY <1>0, <1>1, <1>2, <1>3, <2>1, <2>5 DEF Buffered
  <2>7. /\ \A x, y \in c.sends : x = y
        /\ c.retry # NoRetry => c.retry.size # 0
        /\ c.stopped => ~ c.ready /\ c.retry = NoRetry
        /\ s \in c.sends
    BY <1>2, <2>5
  <2> QED BY <1>1, <1>4, <2>4, <2>6, <2>7, SettleIsSound
<1>6. CASE ~ GivesUp(s) /\ (b.retry # NoRetry \/ b.stopped)
  <2>1. c = b
    BY <1>6
  <2> HIDE DEF c, n
  <2> QED BY <1>1, <1>2, <1>4, <2>1, SettleIsSound
<1>7. CASE ~ GivesUp(s) /\ ~ (b.retry # NoRetry \/ b.stopped)
  <2> DEFINE r == [size |-> s.size, count |-> s.count + 1]
  <2>1. c = [b EXCEPT !.retry = r]
    BY <1>7
  <2>2. r \in Retry /\ r.size # 0
    BY <1>0, <1>3, <1>7 DEF Retry, GivesUp
  <2>3. c \in Batcher
    BY <1>1, <2>1, <2>2 DEF Batcher
  <2>4. /\ c.head = b.head /\ c.next = b.next /\ ~ c.stopped
        /\ c.dropped = b.dropped /\ c.retry = r
        /\ c.sends = b.sends
    BY <1>1, <1>7, <2>1 DEF Batcher
  <2>5. /\ c.head <= c.next /\ Buffered(c) <= BufferCap /\ ls < c.head
        /\ ~ c.stopped => c.head - 1 = sc + c.dropped
        /\ c.stopped => c.head = c.next
        /\ \A x, y \in c.sends : x = y
        /\ c.retry # NoRetry => c.retry.size # 0
        /\ c.stopped => ~ c.ready /\ c.retry = NoRetry
        /\ s \in c.sends
    <3> HIDE DEF c, r
    <3> QED BY <1>2, <1>7, <2>2, <2>4 DEF Buffered
  <2> HIDE DEF c, n, r
  <2> QED BY <1>1, <1>4, <2>3, <2>5, SettleIsSound
<1> HIDE DEF c
<1> QED BY <1>5, <1>6, <1>7

(* The steps that only move flags of the connection, or its retry. *)
LEMMA FlagsAreSound ==
  ASSUME NEW b, NEW sc, NEW ls, Sound(b, sc, ls),
         NEW t \in BOOLEAN, NEW d \in BOOLEAN,
         NEW r \in BOOLEAN, NEW v \in BOOLEAN, b.stopped => ~ r
  PROVE  /\ Sound([b EXCEPT !.timer = t], sc, ls)
         /\ Sound([b EXCEPT !.drain = d], sc, ls)
         /\ Sound([b EXCEPT !.retry = NoRetry], sc, ls)
         /\ Sound([b EXCEPT !.ready = r], sc, ls)
         /\ Sound([b EXCEPT !.ready = r, !.recovering = v], sc, ls)
<1>1. NoRetry \in Retry
  BY BatcherAssumption DEF BatcherAssumption, NoRetry, Retry
<1>2. Sound([b EXCEPT !.timer = t], sc, ls)
  BY DEF Sound, Batcher, AwaitedFits, Buffered
<1>3. Sound([b EXCEPT !.drain = d], sc, ls)
  BY DEF Sound, Batcher, AwaitedFits, Buffered
<1>4. Sound([b EXCEPT !.retry = NoRetry], sc, ls)
  BY <1>1 DEF Sound, Batcher, AwaitedFits, Buffered
<1>5. Sound([b EXCEPT !.ready = r], sc, ls)
  BY DEF Sound, Batcher, AwaitedFits, Buffered
<1>6. Sound([b EXCEPT !.ready = r, !.recovering = v], sc, ls)
  BY DEF Sound, Batcher, AwaitedFits, Buffered
<1> QED BY <1>2, <1>3, <1>4, <1>5, <1>6

(* stop() preserves Sound. *)
LEMMA TornDownIsSound ==
  ASSUME NEW b, NEW sc, NEW ls, Sound(b, sc, ls)
  PROVE  Sound(TornDown(b), sc, ls)
<1>1. NoRetry \in Retry /\ BufferCap \in Nat /\ MaxDeltas \in Nat
  BY BatcherAssumption DEF BatcherAssumption, NoRetry, Retry
<1> DEFINE c == TornDown(b)
<1>2. b \in Batcher /\ b.next \in 1 .. MaxDeltas + 1 /\ b.head \in 1 .. MaxDeltas + 1
  BY DEF Sound, Batcher
<1>3. c \in Batcher
  BY <1>1, <1>2 DEF TornDown, Batcher
<1>4. /\ c.head = b.next /\ c.next = b.next /\ c.stopped
      /\ c.retry = NoRetry /\ ~ c.ready /\ c.sends = b.sends
  BY <1>2 DEF TornDown, Batcher
<1>5. AwaitedFits(c)
  <2> SUFFICES ASSUME NEW s \in c.sends
               PROVE  s.from <= c.head /\ s.from + s.size <= c.next
    BY <1>4 DEF AwaitedFits
  <2>1. s \in b.sends /\ s \in Send /\ s.from <= b.head /\ s.from + s.size <= b.next
    BY <1>2, <1>4 DEF Sound, AwaitedFits, Batcher
  <2>2. b.head <= b.next
    BY DEF Sound
  <2>3. MaxBatch \in Nat /\ s.from \in Nat /\ s.size \in Nat
    BY <1>1, <2>1, BatcherAssumption DEF BatcherAssumption, Send
  <2> HIDE DEF c
  <2> QED BY <1>1, <1>2, <1>4, <2>1, <2>2, <2>3
<1> HIDE DEF c
<1>6. Buffered(c) = 0
  BY <1>1, <1>2, <1>4 DEF Buffered
<1>7. /\ sc \in Nat /\ ls \in 0 .. MaxDeltas /\ ls < b.head /\ b.head <= b.next
      /\ \A x, y \in b.sends : x = y
  BY DEF Sound
<1>8. Sound(c, sc, ls)
  BY <1>1, <1>2, <1>3, <1>4, <1>5, <1>6, <1>7 DEF Sound
<1> QED BY <1>8 DEF c

-----------------------------------------------------------------------------
(* Becomes keeps the types of the history it updates. *)
LEMMA BecomesTyped ==
  ASSUME NEW b, attempts \in [1 .. MaxDeltas -> 0 .. MaxRetries + 1], Becomes(b)
  PROVE  /\ batcher' = b
         /\ attempts' \in [1 .. MaxDeltas -> 0 .. MaxRetries + 1]
         /\ trimmed' \in BOOLEAN
<1>1. MaxRetries \in Nat
  BY BatcherAssumption DEF BatcherAssumption
<1>2. \A d \in 1 .. MaxDeltas :
        Least(attempts[d] + 1, MaxRetries + 1) \in 0 .. MaxRetries + 1
  BY <1>1 DEF Least
<1> QED BY <1>2 DEF Becomes

(* What flushDeltaBatch does up to its await: nothing that a later attempt *)
(* can see, or it takes a batch off the head of an idle buffer.            *)
LEMMA FlushTakesHead ==
  ASSUME NEW b, NEW sc, NEW ls, Sound(b, sc, ls),
         NEW size \in Int, NEW count \in 0 .. MaxRetries,
         NEW f, f = Flush(b, size, count)
  PROVE  /\ f.head = b.head /\ f.next = b.next /\ f.stopped = b.stopped
         /\ f.retry = b.retry
         /\ \/ f.sends = b.sends
            \/ /\ b.sends = {} /\ b.retry = NoRetry
               /\ \E s \in Send : /\ f.sends = {s} /\ s.from = b.head
                                  /\ s.size <= size /\ s.count = count
                                  /\ s.from + s.size <= b.next
<1> DEFINE n == Least(Least(size, Buffered(b)), b.maxBatch)
           s == [from |-> b.head, size |-> n, count |-> count]
<1>0. MaxBatch \in Nat /\ MaxDeltas \in Nat /\ MaxRetries \in Nat
  BY BatcherAssumption DEF BatcherAssumption
<1>1. /\ b \in Batcher
      /\ b.head \in 1 .. MaxDeltas + 1 /\ b.next \in 1 .. MaxDeltas + 1
      /\ b.maxBatch \in 1 .. MaxBatch /\ Buffered(b) \in Int
  BY <1>0 DEF Sound, Batcher, Buffered
<1>2. CASE ~ MayFlush(b)
  BY <1>2 DEF Flush
<1>3. CASE MayFlush(b) /\ n <= 0
  <2>1. f = [b EXCEPT !.timer = FALSE]
    BY <1>3 DEF Flush
  <2> QED BY <1>1, <2>1 DEF Batcher
<1>4. CASE MayFlush(b) /\ ~ n <= 0
  <2>1. f = [b EXCEPT !.inFlight = TRUE, !.sends = @ \cup {s}]
    BY <1>4 DEF Flush
  <2>2. b.sends = {} /\ b.retry = NoRetry
    BY <1>4 DEF MayFlush, Sound
  <2>3. n \in 1 .. MaxBatch /\ n <= Buffered(b) /\ n <= size
    BY <1>0, <1>1, <1>4 DEF Least
  <2>4. b.head + n <= b.next
    BY <1>0, <1>1, <2>3 DEF Buffered
  <2>5. s \in Send
    BY <1>0, <1>1, <2>3, <2>4 DEF Send
  <2>6. /\ f.head = b.head /\ f.next = b.next /\ f.stopped = b.stopped
        /\ f.retry = b.retry /\ f.sends = {s}
    BY <1>1, <2>1, <2>2 DEF Batcher
  <2>7. s.from = b.head /\ s.size <= size /\ s.count = count /\ s.from + s.size <= b.next
    BY <2>3, <2>4
  <2> HIDE DEF s, n
  <2> QED BY <2>2, <2>5, <2>6, <2>7
<1> QED BY <1>2, <1>3, <1>4

(* An attempt is counted once more, up to the budget. *)
LEMMA AttemptsGrow ==
  ASSUME NEW b, Becomes(b),
         attempts \in [1 .. MaxDeltas -> 0 .. MaxRetries + 1],
         NEW d \in 1 .. MaxDeltas
  PROVE  /\ attempts'[d] >= attempts[d] /\ attempts'[d] \in 0 .. MaxRetries + 1
         /\ \A s \in b.sends \ batcher.sends :
              d \in s.from .. s.from + s.size - 1 =>
                attempts'[d] = Least(attempts[d] + 1, MaxRetries + 1)
<1>1. MaxRetries \in Nat /\ attempts[d] \in 0 .. MaxRetries + 1
  BY BatcherAssumption DEF BatcherAssumption
<1>2. /\ Least(attempts[d] + 1, MaxRetries + 1) \in 0 .. MaxRetries + 1
      /\ Least(attempts[d] + 1, MaxRetries + 1) >= attempts[d]
  BY <1>1 DEF Least
<1>3. attempts'[d] = IF \E s \in b.sends \ batcher.sends :
                            d \in s.from .. s.from + s.size - 1
                     THEN Least(attempts[d] + 1, MaxRetries + 1)
                     ELSE attempts[d]
  BY DEF Becomes
<1> HIDE DEF Becomes
<1>4. CASE \E s \in b.sends \ batcher.sends : d \in s.from .. s.from + s.size - 1
  BY <1>1, <1>2, <1>3, <1>4
<1>5. CASE ~ \E s \in b.sends \ batcher.sends : d \in s.from .. s.from + s.size - 1
  <2>1. attempts'[d] = attempts[d]
    BY <1>3, <1>5
  <2> QED BY <1>1, <1>5, <2>1
<1> QED BY <1>4, <1>5

(* The bounds of the batcher are numbers, and so are the fields of a send. *)
LEMMA BatcherNumbers ==
  MaxDeltas \in Nat /\ MaxRetries \in Nat /\ MaxBatch \in Nat /\ BufferCap \in Nat
BY BatcherAssumption DEF BatcherAssumption

LEMMA SendFields ==
  ASSUME NEW s \in Send
  PROVE  /\ s.from \in 1 .. MaxDeltas /\ s.size \in 1 .. MaxBatch
         /\ s.count \in 0 .. MaxRetries
         /\ s.from \in Nat /\ s.size \in Nat /\ s.count \in Nat
<1>1. /\ s.from \in 1 .. MaxDeltas /\ s.size \in 1 .. MaxBatch
      /\ s.count \in 0 .. MaxRetries
  BY DEF Send
<1>2. s.from \in Nat /\ s.size \in Nat /\ s.count \in Nat
  BY <1>1, BatcherNumbers
<1> QED BY <1>1, <1>2

(* A step that begins no send keeps the count, if it leaves the head where *)
(* it is, forgets what was tried, or is the cap that moves the head.       *)
LEMMA NothingBegun ==
  ASSUME IInv, NEW b, Becomes(b), b.sends \subseteq batcher.sends,
         \/ b.next > batcher.next /\ Buffered(batcher) >= BufferCap
         \/ /\ b.head = batcher.head /\ b.stopped = batcher.stopped
            /\ b.next \in Nat /\ b.next >= batcher.next
            /\ b.retry \in {NoRetry, batcher.retry}
         \/ b.retry = NoRetry /\ (b.stopped \/ b.sends = {})
  PROVE  AttemptsCounted'
<1>1. batcher' = b
  BY DEF Becomes
<1>2. trimmed' = (trimmed \/ (b.next > batcher.next /\ Buffered(batcher) >= BufferCap))
  BY DEF Becomes
<1>3. /\ attempts \in [1 .. MaxDeltas -> 0 .. MaxRetries + 1]
      /\ batcher \in Batcher /\ MaxDeltas \in Nat /\ MaxRetries \in Nat
      /\ MaxBatch \in Nat /\ AttemptsCounted
  BY BatcherAssumption DEF BatcherAssumption, IInv, TypeOK
<1>4. /\ batcher.head \in 1 .. MaxDeltas + 1 /\ batcher.next \in 1 .. MaxDeltas + 1
      /\ batcher.retry \in Retry /\ batcher.sends \subseteq Send
  BY <1>3 DEF Batcher
<1> SUFFICES ASSUME ~ trimmed' PROVE AttemptsCounted'
  BY DEF AttemptsCounted
<1>5. ~ trimmed /\ ~ (b.next > batcher.next /\ Buffered(batcher) >= BufferCap)
  BY <1>2
<1>6. ASSUME NEW s \in b.sends
      PROVE  /\ ~ b.stopped => s.from = b.head
             /\ \A d \in s.from .. s.from + s.size - 1 : attempts'[d] > s.count
  <2>1. s \in batcher.sends /\ s \in Send
    BY <1>4, <1>6
  <2>2. /\ ~ batcher.stopped => s.from = batcher.head
        /\ \A d \in s.from .. s.from + s.size - 1 : attempts[d] > s.count
    BY <1>3, <1>5, <2>1 DEF AttemptsCounted
  <2>3. s.from + s.size <= batcher.next
    BY <2>1 DEF IInv, AwaitedFits
  <2>4. /\ s.from \in Nat /\ s.size \in Nat /\ s.count \in Nat
        /\ s.from .. s.from + s.size - 1 \subseteq 1 .. MaxDeltas
    <3>1. /\ s.from \in 1 .. MaxDeltas
          /\ s.from \in Nat /\ s.size \in Nat /\ s.count \in Nat
      BY <2>1, SendFields
    <3>2. batcher.next \in 1 .. MaxDeltas + 1
      BY <1>4
    <3>3. ASSUME NEW d \in s.from .. s.from + s.size - 1 PROVE d \in 1 .. MaxDeltas
      BY <2>3, <3>1, <3>2, BatcherNumbers
    <3> QED BY <3>1, <3>3
  <2>5. ASSUME NEW d \in s.from .. s.from + s.size - 1 PROVE attempts'[d] > s.count
    <3>1. d \in 1 .. MaxDeltas
      BY <2>4
    <3>2. /\ attempts'[d] >= attempts[d] /\ attempts'[d] \in 0 .. MaxRetries + 1
          /\ attempts[d] \in 0 .. MaxRetries + 1
      BY <1>3, <3>1, AttemptsGrow
    <3>3. attempts[d] > s.count
      BY <2>2
    <3> QED BY <2>4, <3>2, <3>3, BatcherNumbers
  <2>6. ~ b.stopped => s.from = b.head
    BY <1>5, <1>6, <2>2
  <2> QED BY <2>5, <2>6
<1>7. ASSUME b.retry # NoRetry
      PROVE  /\ b.retry.size <= Buffered(b)
             /\ \A d \in b.head .. b.head + b.retry.size - 1 :
                  attempts'[d] >= b.retry.count
  <2>1. /\ b.head = batcher.head /\ b.next \in Nat /\ b.next >= batcher.next
        /\ b.retry = batcher.retry
    BY <1>5, <1>7
  <2>2. /\ b.retry.size <= Buffered(batcher)
        /\ \A d \in b.head .. b.head + b.retry.size - 1 :
             attempts[d] >= b.retry.count
    BY <1>3, <1>5, <1>7, <2>1 DEF AttemptsCounted
  <2>3. b.retry.size \in Nat /\ b.retry.count \in Nat
    BY <1>3, <1>4, <2>1 DEF Retry
  <2>4. /\ b.retry.size <= Buffered(b)
        /\ b.head .. b.head + b.retry.size - 1 \subseteq 1 .. MaxDeltas
    <3>1. /\ batcher.head \in 1 .. MaxDeltas + 1 /\ batcher.next \in 1 .. MaxDeltas + 1
      BY <1>4
    <3>2. b.retry.size <= batcher.next - batcher.head
      BY <2>2 DEF Buffered
    <3>3. b.retry.size <= b.next - b.head
      BY <2>1, <3>1, <3>2, <2>3, BatcherNumbers
    <3>4. b.head + b.retry.size <= MaxDeltas + 1 /\ b.head \in 1 .. MaxDeltas + 1
      BY <2>1, <3>1, <3>2, <2>3, BatcherNumbers
    <3>5. ASSUME NEW d \in b.head .. b.head + b.retry.size - 1 PROVE d \in 1 .. MaxDeltas
      BY <2>3, <3>4, BatcherNumbers
    <3> QED BY <3>3, <3>5 DEF Buffered
  <2>5. ASSUME NEW d \in b.head .. b.head + b.retry.size - 1
        PROVE  attempts'[d] >= b.retry.count
    <3>1. d \in 1 .. MaxDeltas
      BY <2>4
    <3>2. /\ attempts'[d] >= attempts[d] /\ attempts'[d] \in 0 .. MaxRetries + 1
          /\ attempts[d] \in 0 .. MaxRetries + 1
      BY <1>3, <3>1, AttemptsGrow
    <3>3. attempts[d] >= b.retry.count
      BY <2>2
    <3> QED BY <2>3, <3>2, <3>3, BatcherNumbers
  <2> QED BY <2>4, <2>5
<1> QED BY <1>1, <1>6, <1>7 DEF AttemptsCounted

(* A send that is begun counts an attempt of each of its deltas: the first *)
(* one, or one after as many as the retry says.                            *)
LEMMA OneIsBegun ==
  ASSUME IInv, NEW b, Becomes(b), batcher.sends = {},
         NEW s \in Send, b.sends = {s}, s.from = b.head,
         s.from + s.size <= b.next, b.next \in 1 .. MaxDeltas + 1,
         b.retry = NoRetry,
         \/ s.count = 0
         \/ /\ batcher.retry # NoRetry /\ s.count = batcher.retry.count
            /\ s.size <= batcher.retry.size
            /\ b.head = batcher.head /\ b.next = batcher.next
  PROVE  AttemptsCounted'
<1>1. batcher' = b
  BY DEF Becomes
<1>2. /\ attempts \in [1 .. MaxDeltas -> 0 .. MaxRetries + 1]
      /\ batcher \in Batcher /\ MaxDeltas \in Nat /\ MaxRetries \in Nat
      /\ MaxBatch \in Nat /\ AttemptsCounted
  BY BatcherAssumption DEF BatcherAssumption, IInv, TypeOK
<1>3. /\ batcher.head \in 1 .. MaxDeltas + 1 /\ batcher.next \in 1 .. MaxDeltas + 1
      /\ batcher.retry \in Retry
  BY <1>2 DEF Batcher
<1>4. /\ s.from \in 1 .. MaxDeltas /\ s.size \in 1 .. MaxBatch
      /\ s.count \in 0 .. MaxRetries
      /\ s.from .. s.from + s.size - 1 \subseteq 1 .. MaxDeltas
  <2>1. /\ s.from \in 1 .. MaxDeltas /\ s.size \in 1 .. MaxBatch
        /\ s.count \in 0 .. MaxRetries /\ s.from \in Nat /\ s.size \in Nat
    BY SendFields
  <2>2. s.from + s.size <= MaxDeltas + 1
    BY <2>1, BatcherNumbers
  <2>3. ASSUME NEW d \in s.from .. s.from + s.size - 1 PROVE d \in 1 .. MaxDeltas
    BY <2>1, <2>2, BatcherNumbers
  <2> QED BY <2>1, <2>3
<1> SUFFICES ASSUME ~ trimmed' PROVE AttemptsCounted'
  BY DEF AttemptsCounted
<1>5. ASSUME NEW d \in s.from .. s.from + s.size - 1 PROVE attempts'[d] > s.count
  <2>1. d \in 1 .. MaxDeltas /\ s \in b.sends \ batcher.sends
    BY <1>4
  <2>2. /\ attempts'[d] = Least(attempts[d] + 1, MaxRetries + 1)
        /\ attempts[d] \in 0 .. MaxRetries + 1
    BY <1>2, <2>1, AttemptsGrow
  <2>3. attempts[d] >= s.count
    <3>1. CASE s.count = 0
      BY <1>2, <2>2, <3>1
    <3>2. CASE s.count # 0
      <4>1. ~ trimmed
        BY <3>2 DEF Becomes
      <4>2. \A e \in batcher.head .. batcher.head + batcher.retry.size - 1 :
              attempts[e] >= batcher.retry.count
        BY <1>2, <3>2, <4>1 DEF AttemptsCounted
      <4>3. batcher.retry.size \in Nat
        BY <1>2, <1>3 DEF Retry
      <4>4. s.from = batcher.head /\ s.size <= batcher.retry.size
        BY <3>2
      <4>5. d \in batcher.head .. batcher.head + batcher.retry.size - 1
        <5>1. s.size \in Nat /\ s.from \in Nat
          BY SendFields
        <5> QED BY <4>3, <4>4, <5>1
      <4>6. attempts[d] >= batcher.retry.count
        BY <4>2, <4>5
      <4> QED BY <3>2, <4>6
    <3> QED BY <3>1, <3>2
  <2> QED BY <1>4, <2>2, <2>3, BatcherNumbers DEF Least
<1> QED BY <1>1, <1>5 DEF AttemptsCounted

(* A flush of a batcher c that a step made of the present one. *)
LEMMA FlushCounts ==
  ASSUME IInv, NEW c, Sound(c, sentCount, lastSent), c.sends = batcher.sends,
         NEW size \in Int, NEW count \in 0 .. MaxRetries,
         Becomes(Flush(c, size, count)) \/ Becomes(c),
         \/ count = 0 /\ c.next > batcher.next /\ Buffered(batcher) >= BufferCap
         \/ /\ c.head = batcher.head /\ c.stopped = batcher.stopped
            /\ c.next >= batcher.next /\ c.retry \in {NoRetry, batcher.retry}
            /\ \/ count = 0
               \/ /\ batcher.retry # NoRetry /\ count = batcher.retry.count
                  /\ size <= batcher.retry.size /\ c.next = batcher.next
  PROVE  AttemptsCounted'
<1>1. c.next \in 1 .. MaxDeltas + 1 /\ MaxDeltas \in Nat
  BY BatcherAssumption DEF BatcherAssumption, Sound, Batcher
<1>2. CASE Becomes(c)
  BY <1>1, <1>2, NothingBegun
<1>3. CASE Becomes(Flush(c, size, count))
  <2> DEFINE f == Flush(c, size, count)
  <2>1. /\ f.head = c.head /\ f.next = c.next /\ f.stopped = c.stopped
        /\ f.retry = c.retry
        /\ \/ f.sends = c.sends
           \/ /\ c.sends = {} /\ c.retry = NoRetry
              /\ \E s \in Send : /\ f.sends = {s} /\ s.from = c.head
                                 /\ s.size <= size /\ s.count = count
                                 /\ s.from + s.size <= c.next
    BY FlushTakesHead
  <2> HIDE DEF f
  <2>2. Becomes(f)
    BY <1>3 DEF f
  <2>3. CASE f.sends = c.sends
    <3>1. f.sends \subseteq batcher.sends
      BY <2>3
    <3>2. \/ f.next > batcher.next /\ Buffered(batcher) >= BufferCap
          \/ /\ f.head = batcher.head /\ f.stopped = batcher.stopped
             /\ f.next \in Nat /\ f.next >= batcher.next
             /\ f.retry \in {NoRetry, batcher.retry}
      BY <1>1, <2>1
    <3> QED BY <2>2, <3>1, <3>2, NothingBegun
  <2>4. CASE f.sends # c.sends
    <3>1. PICK s \in Send : /\ f.sends = {s} /\ s.from = c.head
                            /\ s.size <= size /\ s.count = count
                            /\ s.from + s.size <= c.next
      BY <2>1, <2>4
    <3>2. batcher.sends = {} /\ f.retry = NoRetry
      BY <2>1, <2>4
    <3>3. \/ s.count = 0
          \/ /\ batcher.retry # NoRetry /\ s.count = batcher.retry.count
             /\ s.size <= batcher.retry.size
             /\ f.head = batcher.head /\ f.next = batcher.next
      <4>1. batcher.retry \in Retry /\ MaxBatch \in Nat
        BY BatcherAssumption DEF BatcherAssumption, IInv, TypeOK, Batcher
      <4>2. batcher.retry.size \in Int /\ s.size \in Int
        BY <3>1, <4>1 DEF Retry, Send
      <4> QED BY <2>1, <3>1, <4>2
    <3> QED BY <1>1, <2>1, <2>2, <3>1, <3>2, <3>3, OneIsBegun
  <2> QED BY <2>3, <2>4
<1> QED BY <1>2, <1>3

(* The buffer that a new delta meets: the cap is enforced first. *)
Appended(b) == [EnforceBufferCap(b) EXCEPT !.next = @ + 1]

(* The trim removes the head only of a full buffer. *)
LEMMA AppendKeepsHead ==
  ASSUME NEW b \in Batcher
  PROVE  /\ Appended(b).next = b.next + 1 /\ Appended(b).sends = b.sends
         /\ Appended(b).stopped = b.stopped /\ Appended(b).retry = b.retry
         /\ Appended(b).head = b.head \/ Buffered(b) >= BufferCap
<1>1. Buffered(b) \in Int /\ BufferCap \in Int
  BY BatcherAssumption DEF BatcherAssumption, Batcher, Buffered
<1>2. CASE Buffered(b) < BufferCap
  BY <1>1, <1>2 DEF EnforceBufferCap, Appended, Batcher
<1>3. CASE ~ Buffered(b) < BufferCap
  BY <1>1, <1>3 DEF EnforceBufferCap, Appended, Splice, Batcher
<1> QED BY <1>2, <1>3

(* A failed send leaves its batch where it was, for the next attempt, or   *)
(* drops it.                                                               *)
LEMMA FailureCounts ==
  ASSUME IInv, NEW s \in batcher.sends, SendFails(s)
  PROVE  AttemptsCounted'
<1> DEFINE b == OnFailure(batcher, s)
<1>1. Becomes(b)
  BY DEF SendFails
<1>2. /\ batcher \in Batcher /\ s \in Send /\ AttemptsCounted
      /\ attempts \in [1 .. MaxDeltas -> 0 .. MaxRetries + 1]
      /\ batcher.retry = NoRetry
      /\ \A x, y \in batcher.sends : x = y
  BY DEF IInv, TypeOK, Batcher
<1>3. /\ MaxDeltas \in Nat /\ MaxRetries \in Nat /\ MaxBatch \in Nat
      /\ batcher.head \in 1 .. MaxDeltas + 1 /\ batcher.next \in 1 .. MaxDeltas + 1
      /\ s.from \in Nat /\ s.size \in Nat /\ s.count \in 0 .. MaxRetries
  <2>1. batcher.head \in 1 .. MaxDeltas + 1 /\ batcher.next \in 1 .. MaxDeltas + 1
    BY <1>2 DEF Batcher
  <2> QED BY <1>2, <2>1, BatcherNumbers, SendFields
<1>4. batcher.sends = {s}
  BY <1>2
<1>5. CASE GivesUp(s) \/ batcher.stopped
  <2>1. b.sends = {} /\ b.retry = NoRetry
    BY <1>2, <1>4, <1>5 DEF OnFailure, Settle, Splice, Batcher
  <2> HIDE DEF b
  <2> QED BY <1>1, <2>1, NothingBegun
<1>6. CASE ~ GivesUp(s) /\ ~ batcher.stopped
  <2> DEFINE r == [size |-> s.size, count |-> s.count + 1]
  <2>1. /\ b.sends = {} /\ b.retry = r /\ b.head = batcher.head
        /\ b.next = batcher.next
    BY <1>2, <1>4, <1>6 DEF OnFailure, Settle, Batcher
  <2>2. batcher' = b /\ (~ trimmed' => ~ trimmed)
    <3> HIDE DEF b
    <3> QED BY <1>1, <2>1 DEF Becomes
  <2>3. SUFFICES ASSUME ~ trimmed' PROVE AttemptsCounted'
    BY DEF AttemptsCounted
  <2>4. /\ s.from = batcher.head
        /\ \A d \in s.from .. s.from + s.size - 1 : attempts[d] > s.count
    BY <1>2, <1>6, <2>2, <2>3 DEF AttemptsCounted
  <2>5. s.size <= Buffered(batcher) /\ s.from + s.size <= batcher.next
    BY <1>6 DEF IInv, AwaitedFits
  <2>6. s.size <= Buffered(b)
    <3> HIDE DEF b, r
    <3> QED BY <2>1, <2>5 DEF Buffered
  <2>7. ASSUME NEW d \in s.from .. s.from + s.size - 1
        PROVE  attempts'[d] >= s.count + 1
    <3>1. d \in 1 .. MaxDeltas
      BY <1>3, <2>4, <2>5
    <3> HIDE DEF b, r
    <3>2. /\ attempts'[d] >= attempts[d] /\ attempts'[d] \in 0 .. MaxRetries + 1
          /\ attempts[d] \in 0 .. MaxRetries + 1
      BY <1>1, <1>2, <3>1, AttemptsGrow
    <3> QED BY <1>3, <2>4, <3>2
  <2>8. b.retry.size = s.size /\ b.retry.count = s.count + 1
    BY <2>1
  <2> HIDE DEF b, r
  <2> QED BY <2>1, <2>2, <2>4, <2>6, <2>7, <2>8 DEF AttemptsCounted
<1> QED BY <1>5, <1>6

(* No handler loses count of the attempts. *)
LEMMA StepCounts ==
  ASSUME IInv, [Next]_vars
  PROVE  AttemptsCounted'
<1>1. /\ Sound(batcher, sentCount, lastSent)
      /\ attempts \in [1 .. MaxDeltas -> 0 .. MaxRetries + 1]
  BY SoundIsIInv
<1>2. /\ batcher \in Batcher /\ MaxDeltas \in Nat /\ MaxRetries \in Nat
      /\ MaxBatch \in Nat /\ BufferCap \in Nat
      /\ batcher.next \in 1 .. MaxDeltas + 1
      /\ batcher.retry \in Retry
      /\ Buffered(batcher) \in Int /\ 0 \in 0 .. MaxRetries
  <2>1. batcher \in Batcher
    BY <1>1 DEF Sound
  <2>2. /\ batcher.head \in 1 .. MaxDeltas + 1 /\ batcher.next \in 1 .. MaxDeltas + 1
        /\ batcher.retry \in Retry
    BY <2>1 DEF Batcher
  <2>3. Buffered(batcher) \in Int
    BY <2>2, BatcherNumbers DEF Buffered
  <2> QED BY <2>1, <2>2, <2>3, BatcherNumbers
<1>3. CASE ProcessDelta
  <2> DEFINE c == [EnforceBufferCap(batcher) EXCEPT !.next = @ + 1]
  <2>1. Sound(c, sentCount, lastSent)
    BY <1>1, <1>3, AppendIsSound DEF ProcessDelta
  <2>2. /\ c.next = batcher.next + 1 /\ c.sends = batcher.sends
        /\ c.stopped = batcher.stopped /\ c.retry = batcher.retry
        /\ c.head = batcher.head \/ Buffered(batcher) >= BufferCap
    <3>1. c = Appended(batcher)
      BY DEF Appended
    <3> HIDE DEF c
    <3> QED BY <1>2, <3>1, AppendKeepsHead
  <2>3. Becomes(MaybeFlush(c))
    BY <1>3 DEF ProcessDelta
  <2> HIDE DEF c
  <2>4. Becomes(Flush(c, Buffered(c), 0)) \/ Becomes(c)
    BY <2>3 DEF MaybeFlush, FlushAll
  <2>5. Buffered(c) \in Int
    BY <1>2, <2>1 DEF Sound, Batcher, Buffered
  <2> QED BY <1>2, <2>1, <2>2, <2>4, <2>5, FlushCounts
<1>4. CASE DeltaTimer
  <2> DEFINE c == [batcher EXCEPT !.timer = TRUE]
  <2>1. Sound(c, sentCount, lastSent)
    BY <1>1, FlagsAreSound
  <2>2. /\ c.head = batcher.head /\ c.next = batcher.next /\ c.sends = batcher.sends
        /\ c.stopped = batcher.stopped /\ c.retry = batcher.retry
    BY <1>2 DEF Batcher
  <2>3. Becomes(Flush(c, Buffered(c), 0)) \/ Becomes(c)
    BY <1>4 DEF DeltaTimer, OnDeltaTimer, FlushAll
  <2> HIDE DEF c
  <2>4. Buffered(c) \in Int
    BY <1>2, <2>2 DEF Buffered
  <2> QED BY <1>2, <2>1, <2>2, <2>3, <2>4, FlushCounts
<1>5. CASE RetryTimer
  <2> DEFINE c == [batcher EXCEPT !.retry = NoRetry]
  <2>1. Sound(c, sentCount, lastSent)
    BY <1>1, FlagsAreSound
  <2>2. /\ c.head = batcher.head /\ c.next = batcher.next /\ c.sends = batcher.sends
        /\ c.stopped = batcher.stopped /\ c.retry = NoRetry
    BY <1>2 DEF Batcher
  <2>3. /\ batcher.retry # NoRetry
        /\ Becomes(Flush(c, batcher.retry.size, batcher.retry.count))
    BY <1>5 DEF RetryTimer
  <2>4. batcher.retry.size \in Int /\ batcher.retry.count \in 0 .. MaxRetries
    BY <1>2 DEF Retry
  <2> HIDE DEF c
  <2> QED BY <1>2, <2>1, <2>2, <2>3, <2>4, FlushCounts
<1>6. CASE Drain
  <2> DEFINE c == [batcher EXCEPT !.drain = FALSE]
  <2>1. Sound(c, sentCount, lastSent)
    BY <1>1, FlagsAreSound
  <2>2. /\ c.head = batcher.head /\ c.next = batcher.next /\ c.sends = batcher.sends
        /\ c.stopped = batcher.stopped /\ c.retry = batcher.retry
    BY <1>2 DEF Batcher
  <2>3. Becomes(Flush(c, Buffered(c), 0))
    BY <1>6 DEF Drain, FlushAll
  <2> HIDE DEF c
  <2>4. Buffered(c) \in Int
    BY <1>2, <2>2 DEF Buffered
  <2> QED BY <1>2, <2>1, <2>2, <2>3, <2>4, FlushCounts
<1>7. CASE SendSettles
  <2>1. PICK s \in batcher.sends : SendSucceeds(s) \/ SendFails(s)
    BY <1>7 DEF SendSettles
  <2>2. CASE SendSucceeds(s)
    <3>1. PICK m \in 1 .. MaxBatch : Becomes(OnSent(batcher, s, m))
      BY <2>2 DEF SendSucceeds
    <3>2. batcher.sends = {s} /\ batcher.retry = NoRetry
      BY DEF IInv
    <3>3. OnSent(batcher, s, m).sends = {} /\ OnSent(batcher, s, m).retry = NoRetry
      BY <1>2, <3>2 DEF OnSent, Settle, Splice, Batcher
    <3> QED BY <3>1, <3>3, NothingBegun
  <2> QED BY <2>1, <2>2, FailureCounts
<1>8. CASE SocketError \/ SocketRecovered \/ SubscriptionError \/ SubscriptionRestored
  <2>1. ASSUME NEW b, Becomes(b), b.sends = batcher.sends, b.head = batcher.head,
               b.next = batcher.next, b.stopped = batcher.stopped,
               b.retry = batcher.retry
        PROVE  AttemptsCounted'
    BY <1>2, <2>1, NothingBegun
  <2>2. ASSUME NEW r \in BOOLEAN, NEW v \in BOOLEAN,
               \/ Becomes([batcher EXCEPT !.ready = r, !.recovering = v])
               \/ Becomes([batcher EXCEPT !.ready = r])
        PROVE  AttemptsCounted'
    <3> DEFINE b == [batcher EXCEPT !.ready = r, !.recovering = v]
               c == [batcher EXCEPT !.ready = r]
    <3>1. /\ b.sends = batcher.sends /\ b.head = batcher.head
          /\ b.next = batcher.next /\ b.stopped = batcher.stopped
          /\ b.retry = batcher.retry
          /\ c.sends = batcher.sends /\ c.head = batcher.head
          /\ c.next = batcher.next /\ c.stopped = batcher.stopped
          /\ c.retry = batcher.retry
      BY <1>2 DEF Batcher
    <3>2. Becomes(b) \/ Becomes(c)
      BY <2>2
    <3> HIDE DEF b, c
    <3> QED BY <2>1, <3>1, <3>2
  <2> QED BY <1>8, <2>2 DEF SocketError, SocketRecovered, SubscriptionError,
                            SubscriptionRestored
<1>9. CASE Stop
  <2>1. /\ TornDown(batcher).sends = batcher.sends /\ TornDown(batcher).stopped
        /\ TornDown(batcher).retry = NoRetry /\ Becomes(TornDown(batcher))
    BY <1>2, <1>9 DEF Stop, TornDown, Batcher
  <2> QED BY <2>1, NothingBegun
<1>10. CASE UNCHANGED vars
  BY <1>10 DEF vars, IInv, AttemptsCounted, Buffered
<1> QED BY <1>3, <1>4, <1>5, <1>6, <1>7, <1>8, <1>9, <1>10 DEF Next

(* createDeltaBatcher on a started client satisfies the inductive          *)
(* invariant IInv of the buffer, the guard flags and the awaited send.     *)
THEOREM InitIsSound == Init => IInv
<1> SUFFICES ASSUME Init PROVE IInv
  OBVIOUS
<1>1. /\ NoRetry \in Retry /\ BufferCap \in Nat /\ MaxDeltas \in Nat
      /\ MaxRetries \in Nat
  BY BatcherAssumption DEF BatcherAssumption, NoRetry, Retry
<1>2. PICK m \in 1 .. MaxBatch, v \in BOOLEAN :
        batcher = [head |-> 1, next |-> 1, timer |-> FALSE, inFlight |-> FALSE,
                   retry |-> NoRetry, drain |-> FALSE, sends |-> {},
                   maxBatch |-> m, dropped |-> 0, ready |-> TRUE,
                   recovering |-> v, stopped |-> FALSE]
  BY DEF Init
<1>3. 1 \in 1 .. MaxDeltas + 1 /\ {} \in SUBSET Send /\ 0 \in Nat
  BY <1>1
<1>4. batcher \in Batcher
  BY <1>1, <1>2, <1>3 DEF Batcher
<1>5. /\ batcher.head = 1 /\ batcher.next = 1 /\ ~ batcher.inFlight
      /\ batcher.retry = NoRetry /\ batcher.sends = {} /\ batcher.dropped = 0
      /\ ~ batcher.stopped
  BY <1>2
<1>6. sentCount = 0 /\ lastSent = 0
  BY DEF Init
<1>7. Buffered(batcher) = 0 /\ AwaitedFits(batcher)
  BY <1>5 DEF Buffered, AwaitedFits
<1>8. /\ batcher.head - 1 = sentCount + batcher.dropped
      /\ batcher.head <= batcher.next /\ lastSent < batcher.head
      /\ sentCount \in Nat /\ lastSent \in 0 .. MaxDeltas
      /\ Buffered(batcher) <= BufferCap
  BY <1>1, <1>5, <1>6, <1>7
<1>a. /\ batcher.inFlight = (batcher.sends # {})
      /\ \A s, t \in batcher.sends : s = t
  <2>1. batcher.inFlight = FALSE /\ batcher.sends = {}
    BY <1>2
  <2> QED BY <2>1
<1>9. Sound(batcher, sentCount, lastSent)
  BY <1>4, <1>5, <1>7, <1>8, <1>a DEF Sound
<1>10. 0 \in 0 .. MaxRetries + 1
  BY <1>1
<1>11. /\ attempts \in [1 .. MaxDeltas -> 0 .. MaxRetries + 1]
       /\ trimmed \in BOOLEAN
  BY <1>10 DEF Init
<1>12. AttemptsCounted
  BY <1>5 DEF AttemptsCounted
<1> QED BY <1>9, <1>11, <1>12, SoundIsIInv

(* Every handler that touches state.deltas, flushDeltaBatch's two halves   *)
(* and enforceBufferCap among them, preserves IInv.                        *)
THEOREM StepIsSound == IInv /\ [Next]_vars => IInv'
<1> SUFFICES ASSUME IInv, [Next]_vars PROVE IInv'
  OBVIOUS
<1>0. /\ Sound(batcher, sentCount, lastSent)
      /\ attempts \in [1 .. MaxDeltas -> 0 .. MaxRetries + 1]
      /\ trimmed \in BOOLEAN
  BY SoundIsIInv
<1> DEFINE SoundAfter(b) == Sound(b, sentCount', lastSent')
(* A step is sound when the batcher it arrives at is. *)
<1>a. ASSUME NEW b, Becomes(b), SoundAfter(b) PROVE IInv'
  <2>1. /\ batcher' = b
        /\ attempts' \in [1 .. MaxDeltas -> 0 .. MaxRetries + 1]
        /\ trimmed' \in BOOLEAN
    BY <1>0, <1>a, BecomesTyped
  <2>2. Sound(batcher', sentCount', lastSent')
    BY <1>a, <2>1
  <2>3. AttemptsCounted'
    BY StepCounts
  <2> QED BY <2>1, <2>2, <2>3, SoundIsIInv DEF Sound, IInv, TypeOK,
            EveryDeltaAccounted, SentLeavesBuffer, BufferCapped
<1>1. CASE ProcessDelta
  <2> DEFINE c == [EnforceBufferCap(batcher) EXCEPT !.next = @ + 1]
  <2>1. Sound(c, sentCount, lastSent)
    BY <1>0, <1>1, AppendIsSound DEF ProcessDelta
  <2>2. Sound(MaybeFlush(c), sentCount, lastSent)
    BY <2>1, FlushAllIsSound DEF MaybeFlush
  <2> HIDE DEF c
  <2> QED BY <1>1, <1>a, <2>2 DEF ProcessDelta, c
<1>2. CASE DeltaTimer
  <2> DEFINE c == [batcher EXCEPT !.timer = TRUE]
  <2>1. Sound(c, sentCount, lastSent)
    BY <1>0, FlagsAreSound
  <2>2. Sound(OnDeltaTimer(batcher), sentCount, lastSent)
    <3> HIDE DEF c
    <3> QED BY <2>1, FlushAllIsSound DEF OnDeltaTimer, c
  <2> QED BY <1>2, <1>a, <2>2 DEF DeltaTimer
<1>3. CASE RetryTimer
  <2> DEFINE c == [batcher EXCEPT !.retry = NoRetry]
  <2>1. Sound(c, sentCount, lastSent)
    BY <1>0, FlagsAreSound
  <2>2. batcher.retry \in Retry
    BY <1>0 DEF Sound, Batcher
  <2>3. batcher.retry.size \in Int /\ batcher.retry.count \in 0 .. MaxRetries
    BY <2>2, BatcherAssumption DEF BatcherAssumption, Retry
  <2> HIDE DEF c
  <2>4. Sound(Flush(c, batcher.retry.size, batcher.retry.count), sentCount, lastSent)
    BY <2>1, <2>3, FlushIsSound
  <2> QED BY <1>3, <1>a, <2>4 DEF RetryTimer, c
<1>4. CASE Drain
  <2> DEFINE c == [batcher EXCEPT !.drain = FALSE]
  <2>1. Sound(c, sentCount, lastSent)
    BY <1>0, FlagsAreSound
  <2> HIDE DEF c
  <2>2. Sound(FlushAll(c), sentCount, lastSent)
    BY <2>1, FlushAllIsSound
  <2> QED BY <1>4, <1>a, <2>2 DEF Drain, c
<1>5. CASE SendSettles
  <2>1. PICK s \in batcher.sends : SendSucceeds(s) \/ SendFails(s)
    BY <1>5 DEF SendSettles
  <2>2. CASE SendSucceeds(s)
    <3>1. PICK m \in 1 .. MaxBatch : Becomes(OnSent(batcher, s, m))
      BY <2>2 DEF SendSucceeds
    <3>2. sentCount' = sentCount + s.size /\ lastSent' = s.from + s.size - 1
      BY <2>2 DEF SendSucceeds
    <3> QED BY <1>0, <1>a, <3>1, <3>2, OnSentIsSound
  <2>3. CASE SendFails(s)
    BY <1>0, <1>a, <2>3, OnFailureIsSound DEF SendFails
  <2> QED BY <2>1, <2>2, <2>3
<1>6. CASE SocketError \/ SocketRecovered
  <2>1. \A r, v \in BOOLEAN : (batcher.stopped => ~ r) =>
          Sound([batcher EXCEPT !.ready = r, !.recovering = v], sentCount, lastSent)
    BY <1>0, FlagsAreSound
  <2> QED BY <1>6, <1>a, <2>1 DEF SocketError, SocketRecovered
<1>7. CASE SubscriptionError \/ SubscriptionRestored
  <2>1. \A r \in BOOLEAN : (batcher.stopped => ~ r) =>
          Sound([batcher EXCEPT !.ready = r], sentCount, lastSent)
    BY <1>0, FlagsAreSound
  <2> QED BY <1>7, <1>a, <2>1 DEF SubscriptionError, SubscriptionRestored
<1>8. CASE Stop
  BY <1>0, <1>8, <1>a, TornDownIsSound DEF Stop
<1>9. CASE UNCHANGED vars
  BY <1>9 DEF vars, IInv, TypeOK, EveryDeltaAccounted, SentLeavesBuffer,
              BufferCapped, AwaitedFits, AttemptsCounted, Buffered
<1> QED BY <1>1, <1>2, <1>3, <1>4, <1>5, <1>6, <1>7, <1>8, <1>9 DEF Next

(* The batcher of state.deltas keeps its inductive invariant. *)
THEOREM InductiveInvariant == Spec => []IInv
<1> QED BY InitIsSound, StepIsSound, PTL DEF Spec

(* processDelta and flushDeltaBatch keep the types of what they share. *)
THEOREM TypeCorrect == Spec => []TypeOK
<1>1. IInv => TypeOK
  BY DEF IInv
<1> QED BY <1>1, InductiveInvariant, PTL

(* The counters of flushDeltaBatch and enforceBufferCap balance, although  *)
(* enforceBufferCap may trim the batch that flushDeltaBatch is awaiting:   *)
(* the deltas that left the buffer are as many as sent and dropped ones.   *)
THEOREM NoDeltaUnaccounted == Spec => []EveryDeltaAccounted
<1>1. IInv => EveryDeltaAccounted
  BY DEF IInv
<1> QED BY <1>1, InductiveInvariant, PTL

(* batchSendInFlight and pendingRetry admit one send at a time. *)
THEOREM OneSendAtATime == Spec => []SingleFlight
<1>1. IInv => SingleFlight
  <2> SUFFICES ASSUME IInv PROVE Cardinality(batcher.sends) <= 1
    BY DEF IInv, SingleFlight
  <2>1. \A s, t \in batcher.sends : s = t
    BY DEF IInv
  <2>2. CASE batcher.sends = {}
    BY <2>2, FS_EmptySet
  <2>3. CASE batcher.sends # {}
    <3>1. PICK s : batcher.sends = {s}
      BY <2>1, <2>3
    <3> QED BY <3>1, FS_Singleton
  <2> QED BY <2>2, <2>3
<1> QED BY <1>1, InductiveInvariant, PTL

(* A delta whose send succeeded is never in the buffer again. *)
THEOREM SentOnce == Spec => []SentLeavesBuffer
<1>1. IInv => SentLeavesBuffer
  BY DEF IInv
<1> QED BY <1>1, InductiveInvariant, PTL

(* enforceBufferCap bounds state.deltas. *)
THEOREM BufferIsCapped == Spec => []BufferCapped
<1>1. IInv => BufferCapped
  BY DEF IInv
<1> QED BY <1>1, InductiveInvariant, PTL

(* A batch that fails for good was tried as often as the budget allows:    *)
(* handleBatchSendFailure drops nothing else, as long as the cap has not   *)
(* moved the head while the batch was awaited or waited for its retry.     *)
THEOREM DroppedWereTried == Spec => DroppedAfterRetries
<1> DEFINE Tried ==
      \A d \in 1 .. MaxDeltas :
        DroppedBySend(d) /\ ~ trimmed => attempts[d] = MaxRetries + 1
<1>1. ASSUME IInv PROVE Tried
  <2> SUFFICES ASSUME NEW d \in 1 .. MaxDeltas, NEW s \in batcher.sends,
                      SendFails(s), d \in batcher.head .. batcher'.head - 1,
                      ~ trimmed
               PROVE  attempts[d] = MaxRetries + 1
    BY DEF DroppedBySend
  <2>1. /\ batcher \in Batcher /\ s \in Send
        /\ attempts[d] \in 0 .. MaxRetries + 1
    BY <1>1 DEF IInv, TypeOK, Batcher
  <2>2. /\ MaxDeltas \in Nat /\ MaxRetries \in Nat /\ MaxBatch \in Nat
        /\ batcher.head \in 1 .. MaxDeltas + 1
        /\ batcher.next \in 1 .. MaxDeltas + 1 /\ batcher.head <= batcher.next
        /\ s.size \in 1 .. MaxBatch /\ s.count \in 0 .. MaxRetries
    BY <1>1, <2>1, BatcherAssumption DEF BatcherAssumption, Batcher, Send, IInv
  <2>3. batcher' = OnFailure(batcher, s)
    BY DEF SendFails, Becomes
  <2>4. CASE ~ GivesUp(s)
    <3>1. batcher'.head = batcher.head
      BY <2>1, <2>3, <2>4 DEF OnFailure, Settle, Batcher
    <3> QED BY <2>2, <3>1
  <2>5. CASE GivesUp(s)
    <3>1. batcher'.head = batcher.head + Least(s.size, Buffered(batcher))
      BY <2>1, <2>3, <2>5 DEF OnFailure, Settle, Splice, Batcher
    <3>2. s.count = MaxRetries
      BY <2>2, <2>5 DEF GivesUp
    <3>3. CASE ~ batcher.stopped
      <4>1. /\ s.from = batcher.head
            /\ \A e \in s.from .. s.from + s.size - 1 : attempts[e] > s.count
        BY <1>1, <3>3 DEF IInv, AttemptsCounted
      <4>2. d \in s.from .. s.from + s.size - 1
        BY <2>2, <3>1, <4>1 DEF Least, Buffered
      <4> QED BY <2>1, <2>2, <3>2, <4>1, <4>2
    <3>4. CASE batcher.stopped
      <4>1. batcher.head = batcher.next
        BY <1>1, <3>4 DEF IInv
      <4> QED BY <2>2, <3>1, <4>1 DEF Least, Buffered
    <3> QED BY <3>3, <3>4
  <2> QED BY <2>4, <2>5
<1> HIDE DEF Tried
<1>2. IInv /\ [Next]_vars => [Tried]_vars
  BY <1>1
<1>3. Spec => [][Tried]_vars
  BY InductiveInvariant, <1>2, PTL DEF Spec
<1> QED BY <1>3 DEF DroppedAfterRetries, Tried

(* A send that is begun takes its batch off the head. *)
LEMMA BegunAtHead ==
  ASSUME IInv, NEW c, Sound(c, sentCount, lastSent), c.sends = batcher.sends,
         NEW size \in Int, NEW count \in 0 .. MaxRetries,
         Becomes(Flush(c, size, count)) \/ Becomes(c),
         NEW s \in batcher'.sends \ batcher.sends
  PROVE  s.from = batcher'.head
<1>1. CASE Becomes(c)
  BY <1>1 DEF Becomes
<1>2. CASE Becomes(Flush(c, size, count))
  <2> DEFINE f == Flush(c, size, count)
  <2>1. /\ f.head = c.head /\ f.next = c.next /\ f.stopped = c.stopped
        /\ f.retry = c.retry
        /\ \/ f.sends = c.sends
           \/ /\ c.sends = {} /\ c.retry = NoRetry
              /\ \E t \in Send : /\ f.sends = {t} /\ t.from = c.head
                                 /\ t.size <= size /\ t.count = count
                                 /\ t.from + t.size <= c.next
    BY FlushTakesHead
  <2>2. batcher' = f
    BY <1>2 DEF Becomes
  <2> HIDE DEF f
  <2> QED BY <2>1, <2>2
<1> QED BY <1>1, <1>2

(* Every batch is taken off the head of the buffer, behind everything      *)
(* whose send succeeded, although the cap, failures and retries move the   *)
(* head while flushDeltaBatch awaits sendDelta.                            *)
THEOREM BatchesAreInOrder == Spec => SentInOrder
<1> DEFINE Ordered ==
      \A s \in batcher'.sends \ batcher.sends :
        s.from > lastSent /\ s.from = batcher'.head
<1>1. ASSUME IInv, [Next]_vars, IInv' PROVE Ordered
  <2> SUFFICES ASSUME NEW s \in batcher'.sends \ batcher.sends
               PROVE  s.from > lastSent /\ s.from = batcher'.head
    OBVIOUS
  <2>1. Sound(batcher, sentCount, lastSent) /\ 0 \in 0 .. MaxRetries
    BY <1>1, SoundIsIInv, BatcherAssumption DEF BatcherAssumption
  <2>2. lastSent \in Int /\ batcher'.head \in Int /\ lastSent' < batcher'.head
    BY <1>1, <2>1, BatcherAssumption
       DEF BatcherAssumption, Sound, IInv, TypeOK, SentLeavesBuffer, Batcher
  <2>3. batcher \in Batcher /\ batcher.retry \in Retry
    BY <2>1 DEF Sound, Batcher
  <2>4. CASE lastSent' = lastSent /\ s.from = batcher'.head
    BY <2>2, <2>4
  <2>5. ASSUME NEW c, Sound(c, sentCount, lastSent), c.sends = batcher.sends,
               Becomes(FlushAll(c)) \/ Becomes(c)
        PROVE  s.from = batcher'.head
    <3>1. Buffered(c) \in Int
      BY <2>5, BatcherAssumption DEF BatcherAssumption, Sound, Batcher, Buffered
    <3> QED BY <1>1, <2>1, <2>5, <3>1, BegunAtHead DEF FlushAll
  <2>6. CASE ProcessDelta
    <3> DEFINE c == [EnforceBufferCap(batcher) EXCEPT !.next = @ + 1]
    <3>1. Sound(c, sentCount, lastSent)
      BY <2>1, <2>6, AppendIsSound DEF ProcessDelta
    <3>2. c = Appended(batcher)
      BY DEF Appended
    <3>3. Becomes(MaybeFlush(c)) /\ lastSent' = lastSent
      BY <2>6 DEF ProcessDelta
    <3> HIDE DEF c
    <3>4. c.sends = batcher.sends
      BY <2>3, <3>2, AppendKeepsHead
    <3>5. Becomes(FlushAll(c)) \/ Becomes(c)
      BY <3>3 DEF MaybeFlush
    <3> QED BY <2>4, <2>5, <3>1, <3>3, <3>4, <3>5
  <2>7. CASE DeltaTimer
    <3> DEFINE c == [batcher EXCEPT !.timer = TRUE]
    <3>1. Sound(c, sentCount, lastSent) /\ c.sends = batcher.sends
      BY <2>1, <2>3, FlagsAreSound DEF Batcher
    <3>2. Becomes(FlushAll(c)) \/ Becomes(c)
      BY <2>7 DEF DeltaTimer, OnDeltaTimer
    <3>3. lastSent' = lastSent
      BY <2>7 DEF DeltaTimer
    <3> HIDE DEF c
    <3> QED BY <2>4, <2>5, <3>1, <3>2, <3>3
  <2>8. CASE RetryTimer
    <3> DEFINE c == [batcher EXCEPT !.retry = NoRetry]
    <3>1. Sound(c, sentCount, lastSent) /\ c.sends = batcher.sends
      BY <2>1, <2>3, FlagsAreSound DEF Batcher
    <3>2. Becomes(Flush(c, batcher.retry.size, batcher.retry.count))
      BY <2>8 DEF RetryTimer
    <3>3. batcher.retry.size \in Int /\ batcher.retry.count \in 0 .. MaxRetries
      BY <2>3, BatcherAssumption DEF BatcherAssumption, Retry
    <3>4. lastSent' = lastSent
      BY <2>8 DEF RetryTimer
    <3> HIDE DEF c
    <3>5. s.from = batcher'.head
      BY <1>1, <3>1, <3>2, <3>3, BegunAtHead
    <3> QED BY <2>4, <3>4, <3>5
  <2>9. CASE Drain
    <3> DEFINE c == [batcher EXCEPT !.drain = FALSE]
    <3>1. Sound(c, sentCount, lastSent) /\ c.sends = batcher.sends
      BY <2>1, <2>3, FlagsAreSound DEF Batcher
    <3>2. Becomes(FlushAll(c)) /\ lastSent' = lastSent
      BY <2>9 DEF Drain
    <3> HIDE DEF c
    <3> QED BY <2>4, <2>5, <3>1, <3>2
  <2>10. CASE SendSettles
    <3>1. PICK t \in batcher.sends : SendSucceeds(t) \/ SendFails(t)
      BY <2>10 DEF SendSettles
    <3>2. batcher.sends = {t}
      BY <1>1, <3>1 DEF IInv
    <3>3. CASE SendSucceeds(t)
      <4>1. PICK m \in 1 .. MaxBatch : batcher' = OnSent(batcher, t, m)
        BY <3>3 DEF SendSucceeds, Becomes
      <4>2. batcher'.sends = {}
        BY <2>3, <3>2, <4>1 DEF OnSent, Settle, Splice, Batcher
      <4> QED BY <4>2
    <3>4. CASE SendFails(t)
      <4>1. batcher' = OnFailure(batcher, t)
        BY <3>4 DEF SendFails, Becomes
      <4>2. batcher'.sends = {}
        BY <2>3, <3>2, <4>1 DEF OnFailure, Settle, Splice, Batcher
      <4> QED BY <4>2
    <3> QED BY <3>1, <3>3, <3>4
  <2>11. CASE SocketError \/ SocketRecovered \/ SubscriptionError
              \/ SubscriptionRestored \/ Stop
    <3>1. batcher'.sends = batcher.sends
      BY <2>3, <2>11 DEF SocketError, SocketRecovered, SubscriptionError,
           SubscriptionRestored, Stop, TornDown, Becomes, Batcher
    <3> QED BY <3>1
  <2>12. CASE UNCHANGED vars
    BY <2>12 DEF vars
  <2> QED BY <1>1, <2>6, <2>7, <2>8, <2>9, <2>10, <2>11, <2>12 DEF Next
<1> HIDE DEF Ordered
<1>2. IInv /\ [Next]_vars /\ IInv' => [Ordered]_vars
  BY <1>1
<1>3. Spec => [][Ordered]_vars
  BY InductiveInvariant, <1>2, PTL DEF Spec
<1> QED BY <1>3 DEF SentInOrder, Ordered

-----------------------------------------------------------------------------
(* Why the buffer drains.  A batch at the head ends after a bounded number *)
(* of turns: the delta timer begins its send, and the send settles or,     *)
(* after a back-off, the retry timer begins it again.                      *)
Turns(b) ==
  IF b.sends # {}
  THEN 2 * (MaxRetries - (CHOOSE s \in b.sends : TRUE).count) + 1
  ELSE IF b.retry # NoRetry THEN 2 * (MaxRetries - b.retry.count) + 2
  ELSE 2 * MaxRetries + 3

CanSend(b) == b.ready /\ ~ b.recovering

(* Something left the head of the buffer, or fewer turns are left. *)
Nearer(b, c) == b.head < c.head \/ (b.head = c.head /\ Turns(c) < Turns(b))

Unmoved(b, c) == c.head = b.head /\ c.sends = b.sends /\ c.retry = b.retry

(* Whose turn it is. *)
HelpfulTurn ==
  IF batcher.sends # {} THEN SendSettles
  ELSE IF batcher.retry # NoRetry THEN RetryTimer
  ELSE DeltaTimer

(* A delta waits, and the connection can send before and after the step. *)
Waiting == Buffered(batcher) > 0 /\ CanSend(batcher) /\ CanSend(batcher')

(* Turns in the three phases of a batch. *)
LEMMA TurnsOf ==
  ASSUME NEW b
  PROVE  /\ \A s : b.sends = {s} => Turns(b) = 2 * (MaxRetries - s.count) + 1
         /\ b.sends = {} /\ b.retry # NoRetry
              => Turns(b) = 2 * (MaxRetries - b.retry.count) + 2
         /\ b.sends = {} /\ b.retry = NoRetry => Turns(b) = 2 * MaxRetries + 3
BY DEF Turns

(* A flush that begins a send takes a turn, and any other changes nothing. *)
LEMMA FlushTakesTurn ==
  ASSUME NEW a, NEW b, NEW sc, NEW ls, Sound(b, sc, ls),
         NEW size \in Int, NEW count \in 0 .. MaxRetries,
         b.head = a.head, b.sends = a.sends,
         NEW f, f = Flush(b, size, count),
         \/ b.retry = a.retry /\ count = 0
         \/ /\ a.sends = {} /\ a.retry # NoRetry /\ f.sends # {}
            /\ count = a.retry.count
  PROVE  /\ Nearer(a, f) \/ Unmoved(a, f)
         /\ f.sends # a.sends => Nearer(a, f)
<1>1. /\ f.head = b.head /\ f.next = b.next /\ f.retry = b.retry
      /\ \/ f.sends = b.sends
         \/ /\ b.sends = {} /\ b.retry = NoRetry
            /\ \E s \in Send : f.sends = {s} /\ s.count = count
  <2>1. /\ f.head = b.head /\ f.next = b.next /\ f.stopped = b.stopped
        /\ f.retry = b.retry
        /\ \/ f.sends = b.sends
           \/ /\ b.sends = {} /\ b.retry = NoRetry
              /\ \E s \in Send : /\ f.sends = {s} /\ s.from = b.head
                                 /\ s.size <= size /\ s.count = count
                                 /\ s.from + s.size <= b.next
    BY FlushTakesHead
  <2> QED BY <2>1
<1>2. CASE f.sends = b.sends
  BY <1>1, <1>2 DEF Unmoved
<1>3. CASE f.sends # b.sends
  <2>1. /\ a.sends = {} /\ b.retry = NoRetry
        /\ \E s \in Send : f.sends = {s} /\ s.count = count
    BY <1>1, <1>3
  <2>2. Turns(f) = 2 * (MaxRetries - count) + 1
    BY <2>1, TurnsOf
  <2>3. Turns(a) = 2 * (MaxRetries - count) + 2
        \/ (count = 0 /\ Turns(a) = 2 * MaxRetries + 3)
    BY <2>1, TurnsOf
  <2>4. MaxRetries \in Int /\ count \in Int
    BY BatcherNumbers
  <2>5. Turns(f) < Turns(a)
    BY <2>2, <2>3, <2>4
  <2> QED BY <1>1, <2>5 DEF Nearer
<1> QED BY <1>2, <1>3

(* flushDeltaBatch begins a send of what it may and can send. *)
LEMMA FlushBegins ==
  ASSUME NEW b \in Batcher, NEW size \in Int, NEW count, size > 0,
         Buffered(b) > 0, MayFlush(b)
  PROVE  Flush(b, size, count).sends # {}
<1> DEFINE n == Least(Least(size, Buffered(b)), b.maxBatch)
           s == [from |-> b.head, size |-> n, count |-> count]
<1>1. Buffered(b) \in Int /\ b.maxBatch \in Int /\ b.maxBatch > 0
  BY BatcherNumbers DEF Batcher, Buffered
<1>2. ~ n <= 0
  BY <1>1 DEF Least
<1>3. Flush(b, size, count) = [b EXCEPT !.inFlight = TRUE, !.sends = @ \cup {s}]
  BY <1>2 DEF Flush
<1> HIDE DEF s, n
<1>4. Flush(b, size, count).sends = b.sends \cup {s}
  BY <1>3 DEF Batcher
<1> QED BY <1>4

(* The end of an await takes a turn: the batch leaves the buffer, sent or  *)
(* given up, or waits for a retry with one attempt more behind it.         *)
LEMMA SettlingTakesTurn ==
  ASSUME NEW b, NEW sc, NEW ls, Sound(b, sc, ls), NEW s \in b.sends,
         ~ b.stopped, Buffered(b) > 0
  PROVE  /\ \A m \in 1 .. MaxBatch : Nearer(b, OnSent(b, s, m))
         /\ Nearer(b, OnFailure(b, s))
<1> DEFINE n == Least(s.size, Buffered(b))
<1>1. /\ b \in Batcher /\ s \in Send /\ b.sends = {s} /\ b.retry = NoRetry
  BY DEF Sound, Batcher
<1>2. /\ b.head \in Int /\ Buffered(b) \in Int /\ s.size \in Int /\ s.size > 0
      /\ s.count \in Int
  BY <1>1, BatcherNumbers, SendFields DEF Batcher, Buffered
<1>3. n \in Int /\ n > 0
  BY <1>2 DEF Least
<1>4. ASSUME NEW m \in 1 .. MaxBatch PROVE Nearer(b, OnSent(b, s, m))
  <2>1. OnSent(b, s, m).head = b.head + n
    BY <1>1 DEF OnSent, Settle, Splice, Batcher
  <2> HIDE DEF n
  <2> QED BY <1>2, <1>3, <2>1 DEF Nearer
<1>5. CASE GivesUp(s)
  <2>1. OnFailure(b, s).head = b.head + n
    BY <1>1, <1>5 DEF OnFailure, Settle, Splice, Batcher
  <2> HIDE DEF n
  <2>2. Nearer(b, OnFailure(b, s))
    BY <1>2, <1>3, <2>1 DEF Nearer
  <2> QED BY <1>4, <2>2
<1>6. CASE ~ GivesUp(s)
  <2> DEFINE r == [size |-> s.size, count |-> s.count + 1]
             f == OnFailure(b, s)
  <2>1. f.head = b.head /\ f.sends = {} /\ f.retry = r
    BY <1>1, <1>6 DEF OnFailure, Settle, Batcher
  <2>2. r.size = s.size /\ r.count = s.count + 1 /\ NoRetry.size = 0
    BY DEF NoRetry
  <2> HIDE DEF r, f
  <2>3. f.retry # NoRetry /\ f.retry.count = s.count + 1
    BY <1>2, <2>1, <2>2
  <2>4. Turns(f) = 2 * (MaxRetries - (s.count + 1)) + 2
    BY <2>1, <2>3, TurnsOf
  <2>5. Turns(b) = 2 * (MaxRetries - s.count) + 1
    BY <1>1, TurnsOf
  <2>6. Turns(f) < Turns(b)
    BY <1>2, <2>4, <2>5, BatcherNumbers
  <2>7. Nearer(b, f)
    BY <2>1, <2>6 DEF Nearer
  <2> QED BY <1>4, <2>7 DEF f
<1> QED BY <1>5, <1>6

(* The number of turns is bounded by the retry budget alone. *)
LEMMA TurnsBounded ==
  ASSUME IInv
  PROVE  Turns(batcher) \in 1 .. 2 * MaxRetries + 3
<1>1. /\ batcher \in Batcher /\ \A s, t \in batcher.sends : s = t
  BY DEF IInv, TypeOK
<1>2. CASE batcher.sends # {}
  <2>1. PICK s : batcher.sends = {s}
    BY <1>1, <1>2
  <2>2. s \in Send
    BY <1>1, <2>1 DEF Batcher
  <2>3. s.count \in 0 .. MaxRetries
    BY <2>2, SendFields
  <2>4. Turns(batcher) = 2 * (MaxRetries - s.count) + 1
    BY <2>1, TurnsOf
  <2> QED BY <2>3, <2>4, BatcherNumbers
<1>3. CASE batcher.sends = {}
  <2>1. batcher.retry.count \in 0 .. MaxRetries
    BY <1>1 DEF Batcher, Retry
  <2>2. \/ Turns(batcher) = 2 * (MaxRetries - batcher.retry.count) + 2
        \/ Turns(batcher) = 2 * MaxRetries + 3
    BY <1>3, TurnsOf
  <2> QED BY <2>1, <2>2, BatcherNumbers
<1> QED BY <1>2, <1>3

(* The cap moves the head, or the append leaves it where it is. *)
LEMMA AppendMovesHead ==
  ASSUME NEW b \in Batcher, NEW sc, NEW ls, Sound(b, sc, ls)
  PROVE  Appended(b).head = b.head \/ b.head < Appended(b).head
<1>1. Buffered(b) \in Int /\ b.head \in Int /\ BufferCap \in Int /\ DropCount \in Int
      /\ DropCount > 0 /\ BufferCap > 0
  BY BatcherAssumption DEF BatcherAssumption, Batcher, Buffered
<1>2. CASE Buffered(b) < BufferCap
  BY <1>2 DEF EnforceBufferCap, Appended, Batcher
<1>3. CASE ~ Buffered(b) < BufferCap
  <2>1. Appended(b).head = b.head + Least(DropCount, Buffered(b))
    BY <1>3 DEF EnforceBufferCap, Appended, Splice, Batcher
  <2>2. PICK n : n = Least(DropCount, Buffered(b))
    OBVIOUS
  <2>3. n \in Int /\ n > 0
    BY <1>1, <1>3, <2>2 DEF Least
  <2> QED BY <1>1, <2>1, <2>2, <2>3
<1> QED BY <1>2, <1>3

(* A flush with its default arguments, of the batcher or of one that       *)
(* differs from it in its flags or in its end.                             *)
LEMMA FlushAllTakesTurn ==
  ASSUME NEW c, Sound(c, sentCount, lastSent), c.head = batcher.head,
         c.sends = batcher.sends, c.retry = batcher.retry,
         Becomes(FlushAll(c)) \/ Becomes(c)
  PROVE  /\ Nearer(batcher, batcher') \/ Unmoved(batcher, batcher')
         /\ batcher'.sends # batcher.sends => Nearer(batcher, batcher')
<1>1. batcher' = Flush(c, Buffered(c), 0) \/ batcher' = c
  BY DEF Becomes, FlushAll
<1>2. Buffered(c) \in Int /\ 0 \in 0 .. MaxRetries
  BY BatcherNumbers DEF Sound, Batcher, Buffered
<1>3. CASE batcher' = c
  BY <1>3 DEF Unmoved
<1>4. CASE batcher' = Flush(c, Buffered(c), 0)
  BY <1>2, <1>4, FlushTakesTurn
<1> QED BY <1>1, <1>3, <1>4

(* The flags of the two timers, and the retry, alone. *)
LEMMA TimersAreSound ==
  ASSUME NEW b, NEW sc, NEW ls, Sound(b, sc, ls)
  PROVE  /\ Sound([b EXCEPT !.timer = TRUE], sc, ls)
         /\ Sound([b EXCEPT !.drain = FALSE], sc, ls)
         /\ Sound([b EXCEPT !.retry = NoRetry], sc, ls)
<1>1. NoRetry \in Retry
  BY BatcherAssumption DEF BatcherAssumption, NoRetry, Retry
<1>2. Sound([b EXCEPT !.timer = TRUE], sc, ls)
  BY DEF Sound, Batcher, AwaitedFits, Buffered
<1>3. Sound([b EXCEPT !.drain = FALSE], sc, ls)
  BY DEF Sound, Batcher, AwaitedFits, Buffered
<1>4. Sound([b EXCEPT !.retry = NoRetry], sc, ls)
  BY <1>1 DEF Sound, Batcher, AwaitedFits, Buffered
<1> QED BY <1>2, <1>3, <1>4

(* The retry timer begins the send it waited for, and takes its turn.      *)
LEMMA RetryTakesTurn ==
  ASSUME IInv, Waiting, RetryTimer
  PROVE  Nearer(batcher, batcher')
<1> DEFINE c == [batcher EXCEPT !.retry = NoRetry]
           size == batcher.retry.size
           count == batcher.retry.count
<1>1. /\ Sound(batcher, sentCount, lastSent) /\ batcher \in Batcher
      /\ Buffered(batcher) > 0 /\ CanSend(batcher) /\ ~ batcher.stopped
      /\ batcher.retry # NoRetry
  BY SoundIsIInv DEF Waiting, Sound, CanSend, RetryTimer
<1>2. /\ batcher.sends = {} /\ size # 0 /\ batcher.inFlight = FALSE
      /\ batcher.retry \in Retry
  BY <1>1 DEF Sound, Batcher
<1>3. size \in Int /\ size > 0 /\ count \in 0 .. MaxRetries
  <2>1. size \in 0 .. MaxBatch /\ count \in 0 .. MaxRetries
    BY <1>2 DEF Retry
  <2> QED BY <1>2, <2>1, BatcherNumbers
<1>4. Sound(c, sentCount, lastSent)
  BY <1>1, TimersAreSound
<1>5. /\ c.head = batcher.head /\ c.next = batcher.next /\ c.sends = {}
      /\ c.retry = NoRetry /\ c.inFlight = FALSE /\ ~ c.stopped
      /\ c.ready = batcher.ready /\ c.recovering = batcher.recovering
  BY <1>1, <1>2 DEF Batcher
<1>6. batcher' = Flush(c, size, count)
  BY DEF RetryTimer, Becomes
<1> HIDE DEF c
<1>7. MayFlush(c) /\ Buffered(c) > 0 /\ c \in Batcher
  BY <1>1, <1>4, <1>5 DEF MayFlush, CanSend, Buffered, Sound
<1> HIDE DEF size, count
<1>8. Flush(c, size, count).sends # {}
  BY <1>3, <1>7, FlushBegins
<1> HIDE DEF Sound
<1>9. count = batcher.retry.count
  BY DEF count
<1> QED BY <1>1, <1>2, <1>3, <1>4, <1>5, <1>6, <1>8, <1>9, FlushTakesTurn

(* A send that settles takes its turn. *)
LEMMA SendTakesTurn ==
  ASSUME IInv, Waiting, SendSettles
  PROVE  Nearer(batcher, batcher')
<1>1. /\ Sound(batcher, sentCount, lastSent)
      /\ Buffered(batcher) > 0 /\ ~ batcher.stopped
  BY SoundIsIInv DEF Waiting, Sound, CanSend
<1>2. PICK s \in batcher.sends : SendSucceeds(s) \/ SendFails(s)
  BY DEF SendSettles
<1>3. \/ \E m \in 1 .. MaxBatch : batcher' = OnSent(batcher, s, m)
      \/ batcher' = OnFailure(batcher, s)
  BY <1>2 DEF SendSucceeds, SendFails, Becomes
<1> QED BY <1>1, <1>3, SettlingTakesTurn

(* Nothing sets a waiting delta back. *)
LEMMA StepDrains ==
  ASSUME IInv, [Next]_vars, Waiting
  PROVE  Nearer(batcher, batcher') \/ Unmoved(batcher, batcher')
<1>1. /\ Sound(batcher, sentCount, lastSent) /\ batcher \in Batcher
  BY SoundIsIInv DEF Sound
<1>2. CASE ProcessDelta
  <2> DEFINE c == Appended(batcher)
  <2>1. Becomes(MaybeFlush(c)) /\ Sound(c, sentCount, lastSent)
    BY <1>1, <1>2, AppendIsSound DEF ProcessDelta, Appended
  <2>2. /\ c.sends = batcher.sends /\ c.retry = batcher.retry
        /\ c.head = batcher.head \/ batcher.head < c.head
    BY <1>1, AppendKeepsHead, AppendMovesHead
  <2> HIDE DEF c
  <2>3. Becomes(FlushAll(c)) \/ Becomes(c)
    BY <2>1 DEF MaybeFlush
  <2>4. CASE c.head = batcher.head
    BY <2>1, <2>2, <2>3, <2>4, FlushAllTakesTurn
  <2>5. CASE batcher.head < c.head
    <3>1. Buffered(c) \in Int /\ 0 \in 0 .. MaxRetries
      BY <2>1, BatcherNumbers DEF Sound, Batcher, Buffered
    <3>2. batcher' = Flush(c, Buffered(c), 0) \/ batcher' = c
      BY <2>3 DEF Becomes, FlushAll
    <3>3. batcher'.head = c.head
      BY <2>1, <3>1, <3>2, FlushTakesHead
    <3> QED BY <2>5, <3>3 DEF Nearer
  <2> QED BY <2>2, <2>4, <2>5
<1>3. CASE DeltaTimer
  <2> DEFINE c == [batcher EXCEPT !.timer = TRUE]
  <2>1. /\ c.head = batcher.head /\ c.sends = batcher.sends
        /\ c.retry = batcher.retry
    BY <1>1 DEF Batcher
  <2>2. Sound(c, sentCount, lastSent)
    BY <1>1, TimersAreSound
  <2>3. Becomes(FlushAll(c)) \/ Becomes(c)
    BY <1>3 DEF DeltaTimer, OnDeltaTimer
  <2> HIDE DEF c
  <2> QED BY <2>1, <2>2, <2>3, FlushAllTakesTurn
<1>4. CASE Drain
  <2> DEFINE c == [batcher EXCEPT !.drain = FALSE]
  <2>1. /\ c.head = batcher.head /\ c.sends = batcher.sends
        /\ c.retry = batcher.retry
    BY <1>1 DEF Batcher
  <2>2. Sound(c, sentCount, lastSent)
    BY <1>1, TimersAreSound
  <2>3. Becomes(FlushAll(c))
    BY <1>4 DEF Drain
  <2> HIDE DEF c
  <2> QED BY <2>1, <2>2, <2>3, FlushAllTakesTurn
<1>5. CASE SocketError \/ SocketRecovered \/ SubscriptionError \/ SubscriptionRestored
  <2>1. \/ batcher' = [batcher EXCEPT !.ready = FALSE, !.recovering = TRUE]
        \/ batcher' = [batcher EXCEPT !.ready = TRUE, !.recovering = FALSE]
        \/ batcher' = [batcher EXCEPT !.ready = FALSE]
        \/ batcher' = [batcher EXCEPT !.ready = TRUE]
    BY <1>5 DEF SocketError, SocketRecovered, SubscriptionError,
                SubscriptionRestored, Becomes
  <2> QED BY <1>1, <2>1 DEF Unmoved, Batcher
<1>6. CASE Stop
  <2>1. batcher' = TornDown(batcher)
    BY <1>6 DEF Stop, Becomes
  <2>2. ~ CanSend(batcher')
    BY <1>1, <2>1 DEF TornDown, CanSend, Batcher
  <2> QED BY <2>2 DEF Waiting
<1>7. CASE UNCHANGED vars
  BY <1>7 DEF vars, Unmoved
<1> QED BY <1>2, <1>3, <1>4, <1>5, <1>6, <1>7, RetryTakesTurn, SendTakesTurn
  DEF Next

(* The step whose turn it is brings a waiting delta nearer to its end. *)
LEMMA TurnDrains ==
  ASSUME IInv, Waiting, HelpfulTurn
  PROVE  Nearer(batcher, batcher')
<1>1. CASE batcher.sends # {}
  BY <1>1, SendTakesTurn DEF HelpfulTurn
<1>2. CASE batcher.sends = {} /\ batcher.retry # NoRetry
  BY <1>2, RetryTakesTurn DEF HelpfulTurn
<1>3. CASE batcher.sends = {} /\ batcher.retry = NoRetry
  <2> DEFINE c == [batcher EXCEPT !.timer = TRUE]
  <2>1. /\ Sound(batcher, sentCount, lastSent) /\ batcher \in Batcher
        /\ Buffered(batcher) > 0 /\ CanSend(batcher) /\ ~ batcher.stopped
        /\ batcher.inFlight = FALSE
    BY <1>3, SoundIsIInv DEF Waiting, Sound, CanSend, Batcher
  <2>2. /\ c.head = batcher.head /\ c.next = batcher.next
        /\ c.sends = batcher.sends /\ c.retry = batcher.retry
        /\ c.inFlight = FALSE /\ ~ c.stopped
        /\ c.ready = batcher.ready /\ c.recovering = batcher.recovering
    BY <2>1 DEF Batcher
  <2>3. Sound(c, sentCount, lastSent)
    BY <2>1, TimersAreSound
  <2>4. Becomes(FlushAll(c))
    BY <1>3, <2>1 DEF HelpfulTurn, DeltaTimer, OnDeltaTimer
  <2> HIDE DEF c
  <2>5. MayFlush(c) /\ Buffered(c) > 0 /\ c \in Batcher
    BY <1>3, <2>1, <2>2, <2>3 DEF MayFlush, CanSend, Buffered, Sound
  <2>6. Buffered(c) \in Int
    BY <2>5, BatcherNumbers DEF Batcher, Buffered
  <2>7. batcher'.sends # {}
    BY <2>4, <2>5, <2>6, FlushBegins DEF Becomes, FlushAll
  <2> QED BY <1>3, <2>2, <2>3, <2>4, <2>7, FlushAllTakesTurn
<1> QED BY <1>1, <1>2, <1>3

(* The argument behind BufferDrains, but for the fairness that makes the   *)
(* timers fire and sendDelta settle: while the connection can send, no     *)
(* handler sets the batch at the head of state.deltas back, the handler    *)
(* whose turn it is (the end of the awaited send, the retry timer or the   *)
(* delta timer) brings it nearer to its end, and its turns are bounded by  *)
(* the retry budget, however the other handlers interleave.                *)
THEOREM EveryTurnDrains ==
  Spec => /\ [](Turns(batcher) \in 1 .. 2 * MaxRetries + 3)
          /\ [][Waiting => \/ Nearer(batcher, batcher')
                           \/ Unmoved(batcher, batcher')]_vars
          /\ [][Waiting /\ HelpfulTurn => Nearer(batcher, batcher')]_vars
<1> DEFINE Bounded == Turns(batcher) \in 1 .. 2 * MaxRetries + 3
           Steady == Waiting => \/ Nearer(batcher, batcher')
                                \/ Unmoved(batcher, batcher')
           Helped == Waiting /\ HelpfulTurn => Nearer(batcher, batcher')
<1>1. IInv => Bounded
  BY TurnsBounded
<1>2. IInv /\ [Next]_vars => [Steady]_vars
  BY StepDrains
<1>3. IInv /\ [Next]_vars => [Helped]_vars
  BY TurnDrains
<1> HIDE DEF Bounded, Steady, Helped
<1>4. Spec => []Bounded /\ [][Steady]_vars /\ [][Helped]_vars
  BY InductiveInvariant, <1>1, <1>2, <1>3, PTL DEF Spec
<1> QED BY <1>4 DEF Bounded, Steady, Helped

-----------------------------------------------------------------------------
(* Value deduplication: lists that lose an element. *)

(* What leaves a list: the place of an element moves down by one behind it. *)
Behind(i, j) == IF j < i THEN j ELSE j + 1

LEMMA RemoveAtFacts ==
  ASSUME NEW S, NEW s \in Seq(S), NEW i \in 1 .. Len(s)
  PROVE  /\ RemoveAt(s, i) \in Seq(S) /\ Len(RemoveAt(s, i)) = Len(s) - 1
         /\ \A j \in 1 .. Len(s) - 1 : RemoveAt(s, i)[j] = s[Behind(i, j)]
<1> DEFINE n == Len(s)
           a == SubSeq(s, 1, i - 1)
           b == SubSeq(s, i + 1, n)
<1>1. /\ n \in Nat /\ i \in 1 .. n /\ \A k \in 1 .. n : s[k] \in S
  BY LenProperties
<1>2. /\ a \in Seq(S) /\ Len(a) = i - 1
      /\ \A k \in 1 .. i - 1 : a[k] = s[k]
  <2>1. /\ 1 \in Int /\ i - 1 \in Int
        /\ \A k \in 1 .. i - 1 : s[k] \in S
    BY <1>1
  <2>2. /\ a \in Seq(S)
        /\ Len(a) = IF 1 <= i - 1 THEN i - 1 - 1 + 1 ELSE 0
        /\ \A k \in 1 .. i - 1 - 1 + 1 : a[k] = s[1 + k - 1]
    BY <2>1, SubSeqProperties
  <2> QED BY <1>1, <2>2
<1>3. /\ b \in Seq(S) /\ Len(b) = n - i
      /\ \A k \in 1 .. n - i : b[k] = s[i + k]
  <2>1. /\ i + 1 \in Int /\ n \in Int
        /\ \A k \in i + 1 .. n : s[k] \in S
    BY <1>1
  <2>2. /\ b \in Seq(S)
        /\ Len(b) = IF i + 1 <= n THEN n - (i + 1) + 1 ELSE 0
        /\ \A k \in 1 .. n - (i + 1) + 1 : b[k] = s[i + 1 + k - 1]
    BY <2>1, SubSeqProperties
  <2> QED BY <1>1, <2>2
<1>4. PICK r : r = RemoveAt(s, i)
  OBVIOUS
<1>5. r = a \o b
  BY <1>4 DEF RemoveAt
<1> HIDE DEF a, b
<1>6. /\ a \o b \in Seq(S) /\ Len(a \o b) = Len(a) + Len(b)
      /\ \A k \in 1 .. Len(a) + Len(b) :
           (a \o b)[k] = IF k <= Len(a) THEN a[k] ELSE b[k - Len(a)]
  BY <1>2, <1>3, ConcatProperties
<1>7. \A k \in 1 .. n - 1 :
        r[k] = IF k <= i - 1 THEN a[k] ELSE b[k - (i - 1)]
  <2>1. Len(a) = i - 1 /\ Len(a) + Len(b) = n - 1
    BY <1>1, <1>2, <1>3
  <2> QED BY <1>5, <1>6, <2>1
<1>8. ASSUME NEW k \in 1 .. n - 1 PROVE r[k] = s[Behind(i, k)]
  <2>1. CASE k < i
    BY <1>1, <1>2, <1>7, <1>8, <2>1 DEF Behind
  <2>2. CASE ~ k < i
    <3>1. k - (i - 1) \in 1 .. n - i /\ i + (k - (i - 1)) = k + 1
      BY <1>1, <1>8, <2>2
    <3>2. b[k - (i - 1)] = s[i + (k - (i - 1))]
      BY <1>3, <3>1
    <3>3. r[k] = b[k - (i - 1)]
      BY <1>1, <1>7, <1>8, <2>2
    <3> QED BY <2>2, <3>1, <3>2, <3>3 DEF Behind
  <2> QED BY <2>1, <2>2
<1>9. Len(r) = n - 1
  BY <1>1, <1>2, <1>3, <1>5, <1>6
<1> QED BY <1>4, <1>5, <1>6, <1>8, <1>9

(* The first leaves. *)
LEMMA TailFacts ==
  ASSUME NEW S, NEW s \in Seq(S), Len(s) # 0
  PROVE  /\ Tail(s) \in Seq(S) /\ Len(Tail(s)) = Len(s) - 1
         /\ \A j \in 1 .. Len(s) - 1 : Tail(s)[j] = s[Behind(1, j)]
<1>1. s # << >> /\ Len(s) \in Nat
  BY LenProperties, EmptySeq
<1>2. /\ Tail(s) \in Seq(S) /\ Len(Tail(s)) = Len(s) - 1
      /\ \A j \in 1 .. Len(Tail(s)) : Tail(s)[j] = s[j + 1]
  BY <1>1, HeadTailProperties
<1>3. \A j \in 1 .. Len(s) - 1 : Behind(1, j) = j + 1
  BY <1>1 DEF Behind
<1> QED BY <1>2, <1>3

LEMMA BehindFacts ==
  ASSUME NEW n \in Nat, NEW i \in 1 .. n
  PROVE  /\ \A j \in 1 .. n - 1 : Behind(i, j) \in (1 .. n) \ {i}
         /\ \A j, k \in 1 .. n - 1 : Behind(i, j) = Behind(i, k) => j = k
BY DEF Behind

-----------------------------------------------------------------------------
(* cacheSet *)

(* The places of a cache. *)
LEMMA CacheFacts ==
  ASSUME NEW c \in Cache
  PROVE  /\ c \in Seq(Entry) /\ Len(c) \in Nat /\ Len(c) <= CacheMax
         /\ DOMAIN c = 1 .. Len(c)
         /\ \A i \in 1 .. Len(c) : c[i].key \in Key /\ c[i].value \in Value
         /\ \A i, j \in 1 .. Len(c) : c[i].key = c[j].key => i = j
<1>1. /\ c \in Seq(Entry) /\ Len(c) <= CacheMax
      /\ \A i, j \in DOMAIN c : c[i].key = c[j].key => i = j
  BY DEF Cache
<1>2. Len(c) \in Nat /\ DOMAIN c = 1 .. Len(c)
  BY <1>1, LenProperties
<1>3. \A i \in 1 .. Len(c) : c[i] \in Entry
  BY <1>1, ElementOfSeq
<1>4. \A i \in 1 .. Len(c) : c[i].key \in Key /\ c[i].value \in Value
  BY <1>3 DEF Entry
<1> QED BY <1>1, <1>2, <1>4

LEMMA CachedFacts ==
  ASSUME NEW c \in Cache, NEW k, Has(c, k)
  PROVE  /\ PlaceOf(c, k) \in 1 .. Len(c) /\ c[PlaceOf(c, k)].key = k
         /\ Cached(c, k) = c[PlaceOf(c, k)].value /\ Cached(c, k) \in Value
<1>1. PlaceOf(c, k) \in 1 .. Len(c) /\ c[PlaceOf(c, k)].key = k
  BY CacheFacts DEF Has, PlaceOf
<1> QED BY <1>1, CacheFacts DEF Cached

(* The key moves to the end or comes in there, in place of another: the    *)
(* cache keeps its bound, has no key twice and no entry from anywhere else. *)
LEMMA CacheSetFacts ==
  ASSUME NEW c \in Cache, NEW k \in Key, NEW v \in Value
  PROVE  /\ CacheSet(c, k, v) \in Cache
         /\ \A i \in DOMAIN CacheSet(c, k, v) :
              \/ CacheSet(c, k, v)[i] = [key |-> k, value |-> v]
              \/ \E j \in DOMAIN c : CacheSet(c, k, v)[i] = c[j]
<1> DEFINE n == Len(c)
<1>1. /\ c \in Seq(Entry) /\ n \in Nat /\ n <= CacheMax /\ DOMAIN c = 1 .. n
      /\ \A i, j \in 1 .. n : c[i].key = c[j].key => i = j
  BY CacheFacts
<1>2. PICK e : e = [key |-> k, value |-> v]
  OBVIOUS
<1>3. e \in Entry /\ e.key = k
  BY <1>2 DEF Entry
<1>4. PICK kept : kept = IF Has(c, k) THEN RemoveAt(c, PlaceOf(c, k))
                         ELSE IF Len(c) >= CacheMax THEN Tail(c) ELSE c
  OBVIOUS
<1>5. CacheSet(c, k, v) = Append(kept, e)
  BY <1>2, <1>4 DEF CacheSet
<1>6. \E m \in Nat :
        /\ kept \in Seq(Entry) /\ Len(kept) = m /\ m < CacheMax
        /\ \E f \in [1 .. m -> 1 .. n] :
             /\ \A j \in 1 .. m : kept[j] = c[f[j]] /\ c[f[j]].key # k
             /\ \A i, j \in 1 .. m : f[i] = f[j] => i = j
  <2>1. CASE Has(c, k)
    <3>1. PICK p : p = PlaceOf(c, k)
      OBVIOUS
    <3>2. p \in 1 .. n /\ c[p].key = k
      BY <2>1, <3>1, CachedFacts
    <3>3. n - 1 \in Nat /\ n - 1 < CacheMax
      BY <1>1, <3>2, DedupAssumption
    <3>4. /\ kept \in Seq(Entry) /\ Len(kept) = n - 1
          /\ \A j \in 1 .. n - 1 : kept[j] = c[Behind(p, j)]
      <4>1. kept = RemoveAt(c, p)
        BY <1>4, <2>1, <3>1
      <4>2. c \in Seq(Entry) /\ p \in 1 .. Len(c)
        BY <1>1, <3>2
      <4>3. /\ RemoveAt(c, p) \in Seq(Entry) /\ Len(RemoveAt(c, p)) = Len(c) - 1
            /\ \A j \in 1 .. Len(c) - 1 : RemoveAt(c, p)[j] = c[Behind(p, j)]
        <5> HIDE DEF n
        <5> QED BY <4>2, RemoveAtFacts
      <4> QED BY <4>1, <4>3
    <3>5. /\ \A j \in 1 .. n - 1 : Behind(p, j) \in 1 .. n /\ Behind(p, j) # p
          /\ \A i, j \in 1 .. n - 1 : Behind(p, i) = Behind(p, j) => i = j
      BY <1>1, <3>2, BehindFacts
    <3>6. \A j \in 1 .. n - 1 : c[Behind(p, j)].key # k
      BY <1>1, <3>2, <3>5
    <3>7. PICK f : f = [j \in 1 .. n - 1 |-> Behind(p, j)]
      OBVIOUS
    <3>8. /\ f \in [1 .. n - 1 -> 1 .. n]
          /\ \A j \in 1 .. n - 1 : f[j] = Behind(p, j)
      BY <3>5, <3>7
    <3>9. /\ \A j \in 1 .. n - 1 : kept[j] = c[f[j]] /\ c[f[j]].key # k
          /\ \A i, j \in 1 .. n - 1 : f[i] = f[j] => i = j
      BY <3>4, <3>5, <3>6, <3>8
    <3> QED BY <3>3, <3>4, <3>8, <3>9
  <2>2. CASE ~ Has(c, k) /\ n >= CacheMax
    <3>1. n = CacheMax /\ n # 0 /\ n - 1 \in Nat /\ n - 1 < CacheMax
          /\ 1 \in 1 .. n
      <4> HIDE DEF n
      <4>1. CacheMax \in Nat /\ CacheMax # 0
        BY DedupAssumption
      <4>2. n >= CacheMax /\ n \in Nat /\ n <= CacheMax
        BY <1>1, <2>2
      <4>3. n = CacheMax
        BY <4>1, <4>2
      <4> QED BY <4>1, <4>3
    <3>2. /\ kept \in Seq(Entry) /\ Len(kept) = n - 1
          /\ \A j \in 1 .. n - 1 : kept[j] = c[Behind(1, j)]
      BY <1>1, <1>4, <2>2, <3>1, TailFacts
    <3>3. /\ \A j \in 1 .. n - 1 : Behind(1, j) \in 1 .. n
          /\ \A i, j \in 1 .. n - 1 : Behind(1, i) = Behind(1, j) => i = j
      BY <1>1, <3>1, BehindFacts
    <3>4. \A j \in 1 .. n - 1 : c[Behind(1, j)].key # k
      BY <1>1, <2>2, <3>3 DEF Has
    <3>5. PICK f : f = [j \in 1 .. n - 1 |-> Behind(1, j)]
      OBVIOUS
    <3>6. /\ f \in [1 .. n - 1 -> 1 .. n]
          /\ \A j \in 1 .. n - 1 : f[j] = Behind(1, j)
      BY <3>3, <3>5
    <3>7. /\ \A j \in 1 .. n - 1 : kept[j] = c[f[j]] /\ c[f[j]].key # k
          /\ \A i, j \in 1 .. n - 1 : f[i] = f[j] => i = j
      BY <3>2, <3>3, <3>4, <3>6
    <3> QED BY <3>1, <3>2, <3>6, <3>7
  <2>3. CASE ~ Has(c, k) /\ ~ n >= CacheMax
    <3>1. n < CacheMax /\ kept = c
      BY <1>1, <1>4, <2>3, DedupAssumption
    <3>2. PICK f : f = [j \in 1 .. n |-> j]
      OBVIOUS
    <3>3. f \in [1 .. n -> 1 .. n] /\ \A j \in 1 .. n : f[j] = j
      BY <3>2
    <3>4. \A j \in 1 .. n : c[j].key # k
      BY <1>1, <2>3 DEF Has
    <3>5. /\ \A j \in 1 .. n : kept[j] = c[f[j]] /\ c[f[j]].key # k
          /\ \A i, j \in 1 .. n : f[i] = f[j] => i = j
      BY <3>1, <3>3, <3>4
    <3> QED BY <1>1, <3>1, <3>3, <3>5
  <2> QED BY <2>1, <2>2, <2>3
<1>7. PICK m \in Nat :
        /\ kept \in Seq(Entry) /\ Len(kept) = m /\ m < CacheMax
        /\ \E f \in [1 .. m -> 1 .. n] :
             /\ \A j \in 1 .. m : kept[j] = c[f[j]] /\ c[f[j]].key # k
             /\ \A i, j \in 1 .. m : f[i] = f[j] => i = j
  BY <1>6
<1>8. PICK f \in [1 .. m -> 1 .. n] :
        /\ \A j \in 1 .. m : kept[j] = c[f[j]] /\ c[f[j]].key # k
        /\ \A i, j \in 1 .. m : f[i] = f[j] => i = j
  BY <1>7
<1>9. PICK r : r = Append(kept, e)
  OBVIOUS
<1>10. /\ r \in Seq(Entry) /\ Len(r) = m + 1 /\ DOMAIN r = 1 .. m + 1
       /\ \A j \in 1 .. m : r[j] = kept[j]
       /\ r[m + 1] = e
  <2>1. /\ r \in Seq(Entry) /\ Len(r) = m + 1
        /\ \A j \in 1 .. m : r[j] = kept[j]
        /\ r[m + 1] = e
    BY <1>3, <1>7, <1>9, AppendProperties
  <2> QED BY <2>1, LenProperties
<1>11. \A j \in 1 .. m + 1 : j = m + 1 \/ j \in 1 .. m
  BY <1>7
<1>12. \A j \in 1 .. m : r[j] = c[f[j]] /\ f[j] \in 1 .. n /\ r[j].key # k
  BY <1>8, <1>10
<1>13. ASSUME NEW i \in 1 .. m + 1, NEW j \in 1 .. m + 1, r[i].key = r[j].key
       PROVE  i = j
  <2>1. CASE i \in 1 .. m /\ j \in 1 .. m
    BY <1>1, <1>8, <1>12, <1>13, <2>1
  <2>2. CASE i = m + 1 \/ j = m + 1
    BY <1>3, <1>10, <1>11, <1>12, <1>13, <2>2
  <2> QED BY <1>11, <2>1, <2>2
<1>14. Len(r) <= CacheMax
  BY <1>7, <1>10, DedupAssumption
<1>15. r \in Cache
  BY <1>10, <1>13, <1>14 DEF Cache
<1>16. \A i \in DOMAIN r : r[i] = e \/ \E j \in DOMAIN c : r[i] = c[j]
  BY <1>1, <1>10, <1>11, <1>12
<1> QED BY <1>2, <1>5, <1>9, <1>15, <1>16

-----------------------------------------------------------------------------
(* dedupDelta and undedupDelta *)

(* Every cached value is one of the vessel it is cached for. *)
Own(c) == \A i \in DOMAIN c : c[i].value[1] = c[i].key[1]


(* A packet that is not a sentinel has a value of its vessel. *)
OwnPacket(p) == p.body # Dup => p.body[1] = p.context

LEMMA CacheSetOwn ==
  ASSUME NEW c \in Cache, NEW k \in Key, NEW v \in Value, Own(c), v[1] = k[1]
  PROVE  Own(CacheSet(c, k, v))
<1>1. PICK e : e = [key |-> k, value |-> v]
  OBVIOUS
<1>2. e.key = k /\ e.value = v
  BY <1>1
<1>3. PICK r : r = CacheSet(c, k, v)
  OBVIOUS
<1>4. \A i \in DOMAIN r : r[i] = e \/ \E j \in DOMAIN c : r[i] = c[j]
  BY <1>1, <1>3, CacheSetFacts
<1>5. \A i \in DOMAIN r : r[i].value[1] = r[i].key[1]
  BY <1>2, <1>4 DEF Own
<1> QED BY <1>3, <1>5 DEF Own

(* A sentinel goes out only for what the cache has, so the same cache at   *)
(* the other end gives the value back and changes in the same way.         *)
LEMMA DedupFollows ==
  ASSUME NEW c \in Cache, NEW k \in Key, NEW v \in Value
  PROVE  /\ Dedup(c, k, v).cache = CacheSet(c, k, v)
         /\ Dedup(c, k, v).body \in {v, Dup}
         /\ Undedup(c, k, Dedup(c, k, v).body).value = v
         /\ Undedup(c, k, Dedup(c, k, v).body).cache = CacheSet(c, k, v)
<1>1. v # Dup
  BY DedupAssumption DEF Value
<1>2. PICK d : d = Dedup(c, k, v)
  OBVIOUS
<1>3. /\ d.cache = CacheSet(c, k, v)
      /\ d.body = IF Repeats(c, k, v) THEN Dup ELSE v
  BY <1>2 DEF Dedup
<1>4. PICK u : u = Undedup(c, k, d.body)
  OBVIOUS
<1>5. CASE Repeats(c, k, v)
  <2>1. d.body = Dup /\ Has(c, k) /\ Cached(c, k) = v
    BY <1>3, <1>5 DEF Repeats
  <2>2. u.value = Cached(c, k) /\ u.cache = CacheSet(c, k, Cached(c, k))
    BY <1>4, <2>1 DEF Undedup
  <2> QED BY <1>2, <1>3, <1>4, <2>1, <2>2
<1>6. CASE ~ Repeats(c, k, v)
  <2>1. d.body = v
    BY <1>3, <1>6
  <2>2. u.value = v /\ u.cache = CacheSet(c, k, v)
    BY <1>1, <1>4, <2>1 DEF Undedup
  <2> QED BY <1>2, <1>3, <1>4, <2>1, <2>2
<1> QED BY <1>5, <1>6

(* A cache c is the end of a cache r. *)
EndOf(c, r) ==
  /\ Len(c) <= Len(r)
  /\ \A i \in 1 .. Len(c) : c[i] = r[i + (Len(r) - Len(c))]

LEMMA SuffixFacts ==
  ASSUME NEW S, NEW c \in Seq(S), NEW r \in Seq(S), EndOf(c, r)
  PROVE  IsSuffix(c, r)
<1>1. PICK n : n = Len(c)
  OBVIOUS
<1>2. PICK m : m = Len(r)
  OBVIOUS
<1>3. n \in Nat /\ m \in Nat /\ n <= m
  BY <1>1, <1>2, LenProperties DEF EndOf
<1>4. PICK a : a = Reverse(c)
  OBVIOUS
<1>5. PICK b : b = Reverse(r)
  OBVIOUS
<1>6. /\ a = [i \in 1 .. n |-> c[(n - i) + 1]]
      /\ b = [i \in 1 .. m |-> r[(m - i) + 1]]
  BY <1>1, <1>2, <1>4, <1>5 DEF Reverse
<1>7. /\ \A i \in 1 .. n : c[(n - i) + 1] \in S
      /\ \A i \in 1 .. m : r[(m - i) + 1] \in S
  <2>1. /\ \A i \in 1 .. n : (n - i) + 1 \in 1 .. n
        /\ \A i \in 1 .. m : (m - i) + 1 \in 1 .. m
    BY <1>3
  <2>2. /\ \A i \in 1 .. n : c[i] \in S
        /\ \A i \in 1 .. m : r[i] \in S
    BY <1>1, <1>2, ElementOfSeq
  <2> QED BY <2>1, <2>2
<1>8. a \in Seq(S) /\ Len(a) = n /\ b \in Seq(S) /\ Len(b) = m
  BY <1>3, <1>6, <1>7
<1>9. \A i \in 1 .. n : a[i] = b[i]
  <2> SUFFICES ASSUME NEW i \in 1 .. n PROVE a[i] = b[i]
    OBVIOUS
  <2>1. /\ i \in 1 .. m /\ (n - i) + 1 \in 1 .. n
        /\ ((n - i) + 1) + (m - n) = (m - i) + 1
    BY <1>3
  <2>2. a[i] = c[(n - i) + 1] /\ b[i] = r[(m - i) + 1]
    BY <1>6, <2>1
  <2>3. c[(n - i) + 1] = r[((n - i) + 1) + (m - n)]
    BY <1>1, <1>2, <2>1 DEF EndOf
  <2> QED BY <2>1, <2>2, <2>3
<1>10. SubSeq(a, 1, n) = SubSeq(b, 1, n)
  <2>1. PICK x : x = SubSeq(a, 1, n)
    OBVIOUS
  <2>2. PICK y : y = SubSeq(b, 1, n)
    OBVIOUS
  <2>3. /\ \A i \in 1 .. n : a[i] \in S /\ b[i] \in S
        /\ 1 \in Int /\ n \in Int
    BY <1>3, <1>8, <1>9, ElementOfSeq
  <2>4. /\ x \in Seq(S) /\ Len(x) = (IF 1 <= n THEN n - 1 + 1 ELSE 0)
        /\ \A i \in 1 .. n - 1 + 1 : x[i] = a[1 + i - 1]
    BY <2>1, <2>3, SubSeqProperties
  <2>5. /\ y \in Seq(S) /\ Len(y) = (IF 1 <= n THEN n - 1 + 1 ELSE 0)
        /\ \A i \in 1 .. n - 1 + 1 : y[i] = b[1 + i - 1]
    BY <2>2, <2>3, SubSeqProperties
  <2>6. Len(x) = n /\ Len(y) = n /\ \A i \in 1 .. n : x[i] = a[i] /\ y[i] = b[i]
    BY <1>3, <2>4, <2>5
  <2>7. x = y
    BY <1>9, <2>4, <2>5, <2>6, SeqEqual
  <2> QED BY <2>1, <2>2, <2>7
<1> QED BY <1>1, <1>2, <1>3, <1>4, <1>5, <1>8, <1>10 DEF IsSuffix, IsPrefix

LEMMA EndOfTransitive ==
  ASSUME NEW a \in Cache, NEW b \in Cache, NEW c \in Cache,
         EndOf(a, b), EndOf(b, c)
  PROVE  EndOf(a, c)
<1>1. Len(a) \in Nat /\ Len(b) \in Nat /\ Len(c) \in Nat
  BY CacheFacts
<1>2. Len(a) <= Len(b) /\ Len(b) <= Len(c)
  BY DEF EndOf
<1>3. ASSUME NEW i \in 1 .. Len(a)
      PROVE  a[i] = c[i + (Len(c) - Len(a))]
  <2>1. a[i] = b[i + (Len(b) - Len(a))]
    BY DEF EndOf
  <2>2. PICK j : j = i + (Len(b) - Len(a))
    OBVIOUS
  <2>3. j \in 1 .. Len(b) /\ j + (Len(c) - Len(b)) = i + (Len(c) - Len(a))
    BY <1>1, <1>2, <2>2
  <2>4. b[j] = c[j + (Len(c) - Len(b))]
    BY <2>3 DEF EndOf
  <2> QED BY <2>1, <2>2, <2>3, <2>4
<1> QED BY <1>1, <1>2, <1>3 DEF EndOf

LEMMA EndOfItself ==
  ASSUME NEW c \in Cache
  PROVE  EndOf(c, c)
<1>1. Len(c) \in Nat
  BY CacheFacts
<1>2. \A i \in 1 .. Len(c) : i + (Len(c) - Len(c)) = i
  BY <1>1
<1> QED BY <1>1, <1>2 DEF EndOf

(* What the shorter cache has, the longer one has at the matching place,   *)
(* and nowhere else.                                                       *)
LEMMA EndOfHas ==
  ASSUME NEW c \in Cache, NEW r \in Cache, EndOf(c, r), NEW k, Has(c, k)
  PROVE  /\ Has(r, k) /\ Cached(r, k) = Cached(c, k)
         /\ PlaceOf(r, k) = PlaceOf(c, k) + (Len(r) - Len(c))
<1>1. PICK p : p = PlaceOf(c, k)
  OBVIOUS
<1>2. p \in 1 .. Len(c) /\ c[p].key = k /\ Cached(c, k) = c[p].value
  BY <1>1, CachedFacts
<1>3. PICK q : q = p + (Len(r) - Len(c))
  OBVIOUS
<1>4. Len(c) \in Nat /\ Len(r) \in Nat /\ Len(c) <= Len(r)
  BY CacheFacts DEF EndOf
<1>5. q \in 1 .. Len(r) /\ c[p] = r[q]
  BY <1>2, <1>3, <1>4 DEF EndOf
<1>6. Has(r, k)
  BY <1>2, <1>5, CacheFacts DEF Has
<1>7. /\ PlaceOf(r, k) \in 1 .. Len(r) /\ r[PlaceOf(r, k)].key = k
      /\ Cached(r, k) = r[PlaceOf(r, k)].value
  BY <1>6, CachedFacts
<1>8. PlaceOf(r, k) = q
  BY <1>2, <1>5, <1>7, CacheFacts
<1> QED BY <1>1, <1>2, <1>3, <1>5, <1>6, <1>7, <1>8

LEMMA EndOfAppend ==
  ASSUME NEW c \in Seq(Entry), NEW r \in Seq(Entry), NEW e \in Entry, EndOf(c, r)
  PROVE  EndOf(Append(c, e), Append(r, e))
<1>1. PICK n : n = Len(c)
  OBVIOUS
<1>2. PICK m : m = Len(r)
  OBVIOUS
<1>3. /\ n \in Nat /\ m \in Nat /\ n <= m
      /\ \A i \in 1 .. n : c[i] = r[i + (m - n)]
  BY <1>1, <1>2, LenProperties DEF EndOf
<1>4. PICK a : a = Append(c, e)
  OBVIOUS
<1>5. PICK b : b = Append(r, e)
  OBVIOUS
<1>6. /\ Len(a) = n + 1 /\ a[n + 1] = e /\ \A i \in 1 .. n : a[i] = c[i]
      /\ Len(b) = m + 1 /\ b[m + 1] = e /\ \A i \in 1 .. m : b[i] = r[i]
  BY <1>1, <1>2, <1>4, <1>5, AppendProperties
<1>7. ASSUME NEW i \in 1 .. n + 1
      PROVE  a[i] = b[i + ((m + 1) - (n + 1))]
  <2>1. CASE i = n + 1
    <3>1. i + ((m + 1) - (n + 1)) = m + 1
      BY <1>3, <2>1
    <3> QED BY <1>6, <2>1, <3>1
  <2>2. CASE i # n + 1
    <3>1. /\ i \in 1 .. n /\ i + (m - n) \in 1 .. m
          /\ i + ((m + 1) - (n + 1)) = i + (m - n)
      BY <1>3, <2>2
    <3> QED BY <1>3, <1>6, <3>1
  <2> QED BY <2>1, <2>2
<1>8. Len(a) <= Len(b)
  BY <1>3, <1>6
<1>9. EndOf(a, b)
  BY <1>6, <1>7, <1>8 DEF EndOf
<1> QED BY <1>4, <1>5, <1>9

(* cacheSet at both ends keeps the one cache the end of the other: the     *)
(* longer one removes the same entry, or one the shorter has not.          *)
LEMMA CacheSetEnds ==
  ASSUME NEW c \in Cache, NEW r \in Cache, NEW k \in Key, NEW v \in Value,
         EndOf(c, r)
  PROVE  EndOf(CacheSet(c, k, v), CacheSet(r, k, v))
<1>1. PICK n : n = Len(c)
  OBVIOUS
<1>2. PICK m : m = Len(r)
  OBVIOUS
<1>3. /\ n \in Nat /\ m \in Nat /\ n <= m /\ m <= CacheMax
      /\ c \in Seq(Entry) /\ r \in Seq(Entry)
      /\ \A i \in 1 .. n : c[i] = r[i + (m - n)]
  BY <1>1, <1>2, CacheFacts DEF EndOf
<1>4. PICK e : e = [key |-> k, value |-> v]
  OBVIOUS
<1>5. e \in Entry
  BY <1>4 DEF Entry
<1>6. PICK a : a = IF Has(c, k) THEN RemoveAt(c, PlaceOf(c, k))
                   ELSE IF n >= CacheMax THEN Tail(c) ELSE c
  OBVIOUS
<1>7. PICK b : b = IF Has(r, k) THEN RemoveAt(r, PlaceOf(r, k))
                   ELSE IF m >= CacheMax THEN Tail(r) ELSE r
  OBVIOUS
<1>8. CacheSet(c, k, v) = Append(a, e) /\ CacheSet(r, k, v) = Append(b, e)
  BY <1>1, <1>2, <1>4, <1>6, <1>7 DEF CacheSet
<1>9. CacheMax \in Nat /\ CacheMax # 0
  BY DedupAssumption
<1>10. a \in Seq(Entry) /\ b \in Seq(Entry) /\ EndOf(a, b)
  <2>1. CASE Has(c, k)
    <3>1. PICK p : p = PlaceOf(c, k)
      OBVIOUS
    <3>2. PICK q : q = PlaceOf(r, k)
      OBVIOUS
    <3>3. p \in 1 .. n /\ q = p + (m - n) /\ q \in 1 .. m /\ Has(r, k)
      BY <1>1, <1>2, <2>1, <3>1, <3>2, EndOfHas, CachedFacts
    <3>4. /\ a \in Seq(Entry) /\ Len(a) = n - 1
          /\ \A j \in 1 .. n - 1 : a[j] = c[Behind(p, j)]
      <4>1. a = RemoveAt(c, p)
        BY <1>6, <2>1, <3>1
      <4>2. c \in Seq(Entry) /\ p \in 1 .. Len(c)
        BY <1>1, <1>3, <3>3
      <4>3. /\ RemoveAt(c, p) \in Seq(Entry) /\ Len(RemoveAt(c, p)) = Len(c) - 1
            /\ \A j \in 1 .. Len(c) - 1 : RemoveAt(c, p)[j] = c[Behind(p, j)]
        BY <4>2, RemoveAtFacts
      <4> QED BY <1>1, <4>1, <4>3
    <3>5. /\ b \in Seq(Entry) /\ Len(b) = m - 1
          /\ \A j \in 1 .. m - 1 : b[j] = r[Behind(q, j)]
      <4>1. b = RemoveAt(r, q)
        BY <1>7, <3>2, <3>3
      <4>2. r \in Seq(Entry) /\ q \in 1 .. Len(r)
        BY <1>2, <1>3, <3>3
      <4>3. /\ RemoveAt(r, q) \in Seq(Entry) /\ Len(RemoveAt(r, q)) = Len(r) - 1
            /\ \A j \in 1 .. Len(r) - 1 : RemoveAt(r, q)[j] = r[Behind(q, j)]
        BY <4>2, RemoveAtFacts
      <4> QED BY <1>2, <4>1, <4>3
    <3>6. ASSUME NEW j \in 1 .. n - 1
          PROVE  a[j] = b[j + ((m - 1) - (n - 1))]
      <4>1. /\ j + ((m - 1) - (n - 1)) = j + (m - n)
            /\ j + (m - n) \in 1 .. m - 1 /\ Behind(p, j) \in 1 .. n
            /\ Behind(q, j + (m - n)) = Behind(p, j) + (m - n)
        BY <1>3, <3>3 DEF Behind
      <4> QED BY <1>3, <3>4, <3>5, <4>1
    <3> QED BY <1>3, <3>4, <3>5, <3>6 DEF EndOf
  <2>2. CASE ~ Has(c, k) /\ Has(r, k)
    <3>1. PICK q : q = PlaceOf(r, k)
      OBVIOUS
    <3>2. q \in 1 .. m /\ r[q].key = k
      BY <1>2, <2>2, <3>1, CachedFacts
    <3>3. q <= m - n
      <4> SUFFICES ASSUME ~ q <= m - n PROVE FALSE
        OBVIOUS
      <4>1. q - (m - n) \in 1 .. n /\ (q - (m - n)) + (m - n) = q
        BY <1>3, <3>2
      <4>2. c[q - (m - n)] = r[q]
        BY <1>3, <4>1
      <4> QED BY <1>1, <2>2, <3>2, <4>1, <4>2, CacheFacts DEF Has
    <3>4. a = c
      <4>1. ~ n >= CacheMax
        BY <1>3, <1>9, <3>2, <3>3
      <4> QED BY <1>6, <2>2, <4>1
    <3>5. /\ b \in Seq(Entry) /\ Len(b) = m - 1
          /\ \A j \in 1 .. m - 1 : b[j] = r[Behind(q, j)]
      <4>1. b = RemoveAt(r, q)
        BY <1>7, <2>2, <3>1
      <4>2. r \in Seq(Entry) /\ q \in 1 .. Len(r)
        BY <1>2, <1>3, <3>2
      <4>3. /\ RemoveAt(r, q) \in Seq(Entry) /\ Len(RemoveAt(r, q)) = Len(r) - 1
            /\ \A j \in 1 .. Len(r) - 1 : RemoveAt(r, q)[j] = r[Behind(q, j)]
        BY <4>2, RemoveAtFacts
      <4> QED BY <1>2, <4>1, <4>3
    <3>6. ASSUME NEW j \in 1 .. n
          PROVE  c[j] = b[j + ((m - 1) - n)]
      <4>1. /\ j + ((m - 1) - n) \in 1 .. m - 1
            /\ Behind(q, j + ((m - 1) - n)) = j + (m - n)
        BY <1>3, <3>2, <3>3 DEF Behind
      <4> QED BY <1>3, <3>5, <4>1
    <3>7. n <= m - 1
      BY <1>3, <3>2, <3>3
    <3> QED BY <1>1, <1>3, <3>4, <3>5, <3>6, <3>7 DEF EndOf
  <2>3. CASE ~ Has(c, k) /\ ~ Has(r, k) /\ m >= CacheMax
    <3>1. m # 0 /\ 1 \in 1 .. m
      BY <1>3, <1>9, <2>3
    <3>2. /\ b \in Seq(Entry) /\ Len(b) = m - 1
          /\ \A j \in 1 .. m - 1 : b[j] = r[Behind(1, j)]
      BY <1>2, <1>3, <1>7, <2>3, <3>1, TailFacts
    <3>3. CASE n >= CacheMax
      <4>1. n = m
        BY <1>3, <1>9, <3>3
      <4>2. /\ a \in Seq(Entry) /\ Len(a) = n - 1
            /\ \A j \in 1 .. n - 1 : a[j] = c[Behind(1, j)]
        BY <1>1, <1>3, <1>6, <2>3, <3>1, <3>3, <4>1, TailFacts
      <4>3. ASSUME NEW j \in 1 .. n - 1
            PROVE  a[j] = b[j + ((m - 1) - (n - 1))]
        <5>1. /\ j + ((m - 1) - (n - 1)) = j /\ Behind(1, j) \in 1 .. n
              /\ Behind(1, j) + (m - n) = Behind(1, j)
          BY <1>3, <4>1 DEF Behind
        <5> QED BY <1>3, <3>2, <4>1, <4>2, <5>1
      <4>4. Len(a) <= Len(b) /\ Len(b) - Len(a) = (m - 1) - (n - 1)
        BY <1>3, <3>2, <4>1, <4>2
      <4>5. EndOf(a, b)
        BY <4>2, <4>3, <4>4 DEF EndOf
      <4> QED BY <3>2, <4>2, <4>5
    <3>4. CASE ~ n >= CacheMax
      <4>1. n <= m - 1 /\ a = c
        BY <1>3, <1>6, <1>9, <2>3, <3>4
      <4>2. ASSUME NEW j \in 1 .. n
            PROVE  c[j] = b[j + ((m - 1) - n)]
        <5>1. /\ j + ((m - 1) - n) \in 1 .. m - 1
              /\ Behind(1, j + ((m - 1) - n)) = j + (m - n)
          BY <1>3, <4>1 DEF Behind
        <5> QED BY <1>3, <3>2, <5>1
      <4> QED BY <1>1, <1>3, <3>2, <4>1, <4>2 DEF EndOf
    <3> QED BY <3>3, <3>4
  <2>4. CASE ~ Has(c, k) /\ ~ Has(r, k) /\ ~ m >= CacheMax
    <3>1. ~ n >= CacheMax
      BY <1>3, <1>9, <2>4
    <3>2. a = c /\ b = r
      BY <1>6, <1>7, <2>4, <3>1
    <3> QED BY <1>3, <3>2
  <2>5. Has(c, k) => Has(r, k)
    BY EndOfHas
  <2> QED BY <2>1, <2>2, <2>3, <2>4
<1> QED BY <1>5, <1>8, <1>10, EndOfAppend

(* What a cache decodes, a longer one with that end decodes alike. *)
LEMMA UndedupEnds ==
  ASSUME NEW c \in Cache, NEW r \in Cache, EndOf(c, r), NEW k \in Key,
         NEW body \in Value \cup {Dup}, Undedup(c, k, body).value \in Value
  PROVE  /\ Undedup(r, k, body).value = Undedup(c, k, body).value
         /\ Undedup(c, k, body).cache \in Cache
         /\ Undedup(r, k, body).cache \in Cache
         /\ EndOf(Undedup(c, k, body).cache, Undedup(r, k, body).cache)
<1>1. NoValue \notin Value
  BY DedupAssumption DEF Value
<1>2. PICK u : u = Undedup(c, k, body)
  OBVIOUS
<1>3. PICK w : w = Undedup(r, k, body)
  OBVIOUS
<1>4. CASE body # Dup
  <2>1. /\ u.value = body /\ u.cache = CacheSet(c, k, body)
        /\ w.value = body /\ w.cache = CacheSet(r, k, body)
    BY <1>2, <1>3, <1>4 DEF Undedup
  <2>2. body \in Value
    BY <1>4
  <2>3. CacheSet(c, k, body) \in Cache /\ CacheSet(r, k, body) \in Cache
    BY <2>2, CacheSetFacts
  <2>4. EndOf(CacheSet(c, k, body), CacheSet(r, k, body))
    BY <2>2, CacheSetEnds
  <2> QED BY <1>2, <1>3, <2>1, <2>3, <2>4
<1>5. CASE body = Dup /\ ~ Has(c, k)
  <2>1. u.value = NoValue
    BY <1>2, <1>5 DEF Undedup
  <2> QED BY <1>1, <1>2, <2>1
<1>6. CASE body = Dup /\ Has(c, k)
  <2>1. PICK x : x = Cached(c, k)
    OBVIOUS
  <2>2. Has(r, k) /\ Cached(r, k) = x /\ x \in Value
    BY <1>6, <2>1, EndOfHas, CachedFacts
  <2>3. /\ u.value = x /\ u.cache = CacheSet(c, k, x)
        /\ w.value = x /\ w.cache = CacheSet(r, k, x)
    BY <1>2, <1>3, <1>6, <2>1, <2>2 DEF Undedup
  <2>4. CacheSet(c, k, x) \in Cache /\ CacheSet(r, k, x) \in Cache
    BY <2>2, CacheSetFacts
  <2>5. EndOf(CacheSet(c, k, x), CacheSet(r, k, x))
    BY <2>2, CacheSetEnds
  <2> QED BY <1>2, <1>3, <2>3, <2>4, <2>5
<1> QED BY <1>4, <1>5, <1>6

(* What decoding a packet with a cache gives: the value that was sent, and *)
(* a cache that ends with the sender's.                                    *)
Follows(c, p) ==
  /\ Undedup(c, CacheKey(p.context, p.path), p.body).value = p.origin
  /\ EndOf(p.cache, Undedup(c, CacheKey(p.context, p.path), p.body).cache)

LEMMA FollowsLonger ==
  ASSUME NEW c \in Cache, NEW r \in Cache, EndOf(c, r), NEW p \in Packet,
         Follows(c, p)
  PROVE  Follows(r, p)
<1>1. PICK k : k = CacheKey(p.context, p.path)
  OBVIOUS
<1>2. /\ p.body \in Value \cup {Dup} /\ p.origin \in Value /\ p.cache \in Cache
      /\ k \in Key
  BY <1>1 DEF Packet, CacheKey, Key
<1>3. PICK u : u = Undedup(c, k, p.body)
  OBVIOUS
<1>4. PICK w : w = Undedup(r, k, p.body)
  OBVIOUS
<1>5. u.value = p.origin /\ EndOf(p.cache, u.cache)
  BY <1>1, <1>3 DEF Follows
<1>6. /\ w.value = u.value /\ u.cache \in Cache /\ w.cache \in Cache
      /\ EndOf(u.cache, w.cache)
  BY <1>2, <1>3, <1>4, <1>5, UndedupEnds
<1>7. EndOf(p.cache, w.cache)
  BY <1>1, <1>2, <1>4, <1>5, <1>6, EndOfTransitive
<1> QED BY <1>1, <1>4, <1>5, <1>6, <1>7 DEF Follows

LEMMA UndedupFacts ==
  ASSUME NEW c \in Cache, NEW k \in Key, NEW body \in Value \cup {Dup},
         Own(c), body # Dup => body[1] = k[1]
  PROVE  /\ Undedup(c, k, body).cache \in Cache
         /\ Own(Undedup(c, k, body).cache)
         /\ Undedup(c, k, body).value # NoValue =>
              Undedup(c, k, body).value[1] = k[1]
<1>1. PICK u : u = Undedup(c, k, body)
  OBVIOUS
<1>2. CASE body # Dup
  <2>1. u.value = body /\ u.cache = CacheSet(c, k, body)
    BY <1>1, <1>2 DEF Undedup
  <2> QED BY <1>1, <1>2, <2>1, CacheSetFacts, CacheSetOwn
<1>3. CASE body = Dup /\ ~ Has(c, k)
  <2>1. u.value = NoValue /\ u.cache = c
    BY <1>1, <1>3 DEF Undedup
  <2> QED BY <1>1, <2>1
<1>4. CASE body = Dup /\ Has(c, k)
  <2>1. u.value = Cached(c, k) /\ u.cache = CacheSet(c, k, Cached(c, k))
    BY <1>1, <1>4 DEF Undedup
  <2>2. Cached(c, k) \in Value /\ Cached(c, k)[1] = k[1]
    <3>1. /\ PlaceOf(c, k) \in 1 .. Len(c) /\ c[PlaceOf(c, k)].key = k
          /\ Cached(c, k) = c[PlaceOf(c, k)].value /\ Cached(c, k) \in Value
      BY <1>4, CachedFacts
    <3> QED BY <3>1, CacheFacts DEF Own
  <2> QED BY <1>1, <2>1, <2>2, CacheSetFacts, CacheSetOwn
<1> QED BY <1>2, <1>3, <1>4

-----------------------------------------------------------------------------
(* The cache with which the i-th packet of ch is decoded. *)
Before(r, ch, i) == IF i = 1 THEN r ELSE ch[i - 1].cache

(* The inductive invariant: types, caches in step as long as the link lets *)
(* them, and values that belong to the vessel they are cached, sent or     *)
(* injected for.                                                           *)
DedupIInv ==
  /\ DedupTypeOK
  /\ ~ diverged =>
       /\ \A i \in 1 .. Len(channel) : Follows(Before(receiver, channel, i), channel[i])
       /\ EndOf(sender, Before(receiver, channel, Len(channel) + 1))
       /\ injected.value = injected.origin
  /\ Own(sender) /\ Own(receiver)
  /\ \A i \in 1 .. Len(channel) : OwnPacket(channel[i])
  /\ OnlyOwnValues

LEMMA ChannelFacts ==
  ASSUME DedupTypeOK
  PROVE  /\ Len(channel) \in Nat /\ DOMAIN channel = 1 .. Len(channel)
         /\ \A i \in 1 .. Len(channel) :
              /\ channel[i] \in Packet
              /\ channel[i].context \in Contexts /\ channel[i].path \in Paths
              /\ channel[i].body \in Value \cup {Dup}
              /\ channel[i].origin \in Value /\ channel[i].cache \in Cache
<1>1. channel \in Seq(Packet)
  BY DEF DedupTypeOK
<1>2. \A i \in 1 .. Len(channel) : channel[i] \in Packet
  BY <1>1, ElementOfSeq
<1>3. \A p \in Packet : /\ p.context \in Contexts /\ p.path \in Paths
                        /\ p.body \in Value \cup {Dup}
                        /\ p.origin \in Value /\ p.cache \in Cache
  BY DEF Packet
<1> QED BY <1>1, <1>2, <1>3, LenProperties

LEMMA BeforeFacts ==
  ASSUME DedupTypeOK, NEW i \in 1 .. Len(channel) + 1
  PROVE  Before(receiver, channel, i) \in Cache
<1>1. receiver \in Cache /\ Len(channel) \in Nat
  BY ChannelFacts DEF DedupTypeOK
<1>2. i # 1 => i - 1 \in 1 .. Len(channel)
  BY <1>1
<1> QED BY <1>1, <1>2, ChannelFacts DEF Before

LEMMA KeyOfPacket ==
  ASSUME NEW c \in Contexts, NEW p \in Paths
  PROVE  CacheKey(c, p) \in Key /\ CacheKey(c, p)[1] = c
BY DEF CacheKey, Key

(* prepareDeltaPayload and a send that succeeds *)
LEMMA SendKeeps ==
  ASSUME DedupIInv, NEW c \in Contexts, NEW p \in Paths, NEW w \in Values,
         SendValue(c, p, <<c, w>>)
  PROVE  DedupIInv'
<1> DEFINE v == <<c, w>>
           k == CacheKey(c, p)
           n == Len(channel)
<1>1. k \in Key /\ k[1] = c /\ v \in Value /\ v[1] = c /\ sender \in Cache
  BY KeyOfPacket DEF Value, DedupIInv, DedupTypeOK
<1> HIDE DEF v, k
<1>2. PICK q : q = [context |-> c, path |-> p, body |-> Dedup(sender, k, v).body,
                    origin |-> v, cache |-> Dedup(sender, k, v).cache]
  OBVIOUS
<1>3. /\ sender' = CacheSet(sender, k, v) /\ channel' = Append(channel, q)
      /\ receiver' = receiver /\ injected' = injected /\ diverged' = diverged
      /\ n < MaxChannel
  BY <1>1, <1>2, DedupFollows DEF SendValue, v, k
<1>4. /\ q.context = c /\ q.path = p /\ q.origin = v
      /\ q.cache = CacheSet(sender, k, v) /\ q.body = Dedup(sender, k, v).body
      /\ q.body \in {v, Dup}
  BY <1>1, <1>2, DedupFollows
<1>5. CacheSet(sender, k, v) \in Cache
  BY <1>1, CacheSetFacts
<1>6. q \in Packet
  <2>1. Dedup(sender, k, v).body \in Value \cup {Dup}
    BY <1>1, <1>4
  <2>2. Dedup(sender, k, v).cache \in Cache
    BY <1>1, <1>5, DedupFollows
  <2> QED BY <1>1, <1>2, <2>1, <2>2 DEF Packet
<1>7. /\ n \in Nat /\ channel \in Seq(Packet)
      /\ channel' \in Seq(Packet) /\ Len(channel') = n + 1
      /\ \A i \in 1 .. n : channel'[i] = channel[i]
      /\ channel'[n + 1] = q
  BY <1>3, <1>6, AppendProperties, ChannelFacts DEF DedupIInv, DedupTypeOK
<1>8. DedupTypeOK'
  <2>1. Len(channel') <= MaxChannel
    BY <1>3, <1>7, DedupAssumption
  <2> QED BY <1>3, <1>5, <1>7, <2>1 DEF DedupIInv, DedupTypeOK
<1>9. Own(sender') /\ Own(receiver')
  BY <1>1, <1>3, CacheSetOwn DEF DedupIInv
<1>10. \A i \in 1 .. n + 1 : i = n + 1 \/ i \in 1 .. n
  BY <1>7
<1>11. \A i \in 1 .. Len(channel') : OwnPacket(channel'[i])
  BY <1>1, <1>4, <1>7, <1>10 DEF OwnPacket, DedupIInv
<1>12. \A i \in 1 .. n + 1 : Before(receiver', channel', i) = Before(receiver, channel, i)
  <2>1. \A i \in 1 .. n + 1 : i # 1 => i - 1 \in 1 .. n
    BY <1>7
  <2> QED BY <1>3, <1>7, <2>1 DEF Before
<1>13. Before(receiver', channel', n + 1 + 1) = q.cache
  <2>1. n + 1 + 1 # 1 /\ n + 1 + 1 - 1 = n + 1
    BY <1>7
  <2> QED BY <1>7, <2>1 DEF Before
<1>14. ASSUME ~ diverged
       PROVE  /\ \A i \in 1 .. Len(channel') :
                   Follows(Before(receiver', channel', i), channel'[i])
              /\ EndOf(sender', Before(receiver', channel', Len(channel') + 1))
  <2>1. Follows(sender, q)
    BY <1>1, <1>4, <1>5, DedupFollows, EndOfItself DEF Follows, k
  <2>2. PICK r : r = Before(receiver, channel, n + 1)
    OBVIOUS
  <2>3. Follows(Before(receiver', channel', n + 1), channel'[n + 1])
    <3>1. EndOf(sender, r)
      BY <1>14, <2>2 DEF DedupIInv
    <3>2. r \in Cache
      BY <2>2, <1>7, BeforeFacts DEF DedupIInv
    <3>3. Follows(r, q)
      BY <1>1, <1>6, <2>1, <3>1, <3>2, FollowsLonger
    <3>4. n + 1 \in 1 .. n + 1
      BY <1>7
    <3> QED BY <1>7, <1>12, <2>2, <3>3, <3>4
  <2>4. \A i \in 1 .. n : Follows(Before(receiver', channel', i), channel'[i])
    BY <1>7, <1>12, <1>14 DEF DedupIInv
  <2>5. EndOf(sender', Before(receiver', channel', n + 1 + 1))
    BY <1>3, <1>4, <1>5, <1>13, EndOfItself
  <2> QED BY <1>7, <1>10, <2>3, <2>4, <2>5
<1>15. OnlyOwnValues'
  BY <1>3 DEF DedupIInv, OnlyOwnValues
<1> QED BY <1>3, <1>8, <1>9, <1>11, <1>14, <1>15
        DEF DedupIInv, Follows, OwnPacket, Own

(* A send that throws *)
LEMMA SendFailsKeeps ==
  ASSUME DedupIInv, NEW c \in Contexts, NEW p \in Paths, NEW w \in Values,
         SendValueFails(c, p, <<c, w>>)
  PROVE  DedupIInv'
<1> DEFINE v == <<c, w>>
           k == CacheKey(c, p)
<1>1. k \in Key /\ k[1] = c /\ v \in Value /\ v[1] = c /\ sender \in Cache
  BY KeyOfPacket DEF Value, DedupIInv, DedupTypeOK
<1> HIDE DEF v, k
<1>2. /\ sender' = CacheSet(sender, k, v) /\ diverged' = TRUE
      /\ UNCHANGED <<receiver, channel, injected>>
  BY <1>1, DedupFollows DEF SendValueFails, v, k
<1>3. sender' \in Cache /\ Own(sender')
  BY <1>1, <1>2, CacheSetFacts, CacheSetOwn DEF DedupIInv
<1> QED BY <1>2, <1>3 DEF DedupIInv, DedupTypeOK, OnlyOwnValues, Own, OwnPacket

(* A packet leaves the channel. *)
LEMMA LeftChannel ==
  ASSUME DedupTypeOK, NEW i \in DOMAIN channel, channel' = RemoveAt(channel, i)
  PROVE  /\ channel' \in Seq(Packet) /\ Len(channel') = Len(channel) - 1
         /\ Len(channel') \in Nat /\ Len(channel') <= MaxChannel
         /\ \A j \in 1 .. Len(channel') : /\ Behind(i, j) \in 1 .. Len(channel)
                                          /\ channel'[j] = channel[Behind(i, j)]
<1> DEFINE n == Len(channel)
<1>1. n \in Nat /\ i \in 1 .. n /\ channel \in Seq(Packet) /\ n <= MaxChannel
  BY ChannelFacts DEF DedupTypeOK
<1>2. /\ channel' \in Seq(Packet) /\ Len(channel') = n - 1
      /\ \A j \in 1 .. n - 1 : channel'[j] = channel[Behind(i, j)]
  BY <1>1, RemoveAtFacts
<1>3. \A j \in 1 .. n - 1 : Behind(i, j) \in 1 .. n
  BY <1>1, BehindFacts
<1>4. Len(channel') \in Nat
  BY <1>2, LenProperties
<1> HIDE DEF n
<1>5. Len(channel') <= MaxChannel
  BY <1>1, <1>2, DedupAssumption
<1> QED BY <1>2, <1>3, <1>4, <1>5 DEF n

(* processDelta *)
LEMMA ReceiveKeeps ==
  ASSUME DedupIInv, NEW i \in DOMAIN channel, ReceiveValue(i)
  PROVE  DedupIInv'
<1> DEFINE n == Len(channel)
<1>1. /\ n \in Nat /\ i \in 1 .. n /\ DedupTypeOK
      /\ channel' = RemoveAt(channel, i) /\ sender' = sender
  BY ChannelFacts DEF DedupIInv, ReceiveValue
<1>2. PICK p : p = channel[i]
  OBVIOUS
<1>3. /\ p.context \in Contexts /\ p.path \in Paths
      /\ p.body \in Value \cup {Dup}
      /\ OwnPacket(p)
  BY <1>1, <1>2, ChannelFacts DEF DedupIInv
<1>4. PICK k : k = CacheKey(p.context, p.path)
  OBVIOUS
<1>5. k \in Key /\ k[1] = p.context /\ k = <<p.context, p.path>>
  BY <1>3, <1>4, KeyOfPacket DEF CacheKey
<1>6. PICK u : u = Undedup(receiver, k, p.body)
  OBVIOUS
<1>7. /\ receiver' = u.cache /\ diverged' = (diverged \/ i > 1)
      /\ injected' = [key |-> k, value |-> u.value, origin |-> p.origin]
  BY <1>2, <1>4, <1>5, <1>6 DEF ReceiveValue
<1>8. injected'.key = k /\ injected'.value = u.value /\ injected'.origin = p.origin
  BY <1>7
<1>9. /\ u.cache \in Cache /\ Own(u.cache)
      /\ u.value # NoValue => u.value[1] = k[1]
  <2>1. receiver \in Cache /\ Own(receiver)
    BY DEF DedupIInv, DedupTypeOK
  <2>2. p.body # Dup => p.body[1] = k[1]
    BY <1>3, <1>5 DEF OwnPacket
  <2> QED BY <1>3, <1>5, <1>6, <2>1, <2>2, UndedupFacts
<1>10. /\ channel' \in Seq(Packet) /\ Len(channel') = n - 1
       /\ Len(channel') \in Nat /\ Len(channel') <= MaxChannel
       /\ \A j \in 1 .. Len(channel') : /\ Behind(i, j) \in 1 .. n
                                        /\ channel'[j] = channel[Behind(i, j)]
  BY <1>1, LeftChannel
<1>11. DedupTypeOK'
  BY <1>1, <1>7, <1>9, <1>10 DEF DedupTypeOK
<1>12. Own(sender') /\ Own(receiver')
  BY <1>1, <1>7, <1>9 DEF DedupIInv
<1>13. \A j \in 1 .. Len(channel') : OwnPacket(channel'[j])
  BY <1>10 DEF DedupIInv
<1>14. OnlyOwnValues'
  BY <1>8, <1>9 DEF OnlyOwnValues
<1>15. ASSUME ~ diverged'
       PROVE  /\ \A j \in 1 .. Len(channel') :
                   Follows(Before(receiver', channel', j), channel'[j])
              /\ EndOf(sender', Before(receiver', channel', Len(channel') + 1))
              /\ injected'.value = injected'.origin
  <2>1. i = 1 /\ ~ diverged
    <3>1. ~ diverged /\ ~ i > 1
      BY <1>7, <1>15
    <3>2. i = 1
      BY <1>1, <3>1
    <3> QED BY <3>1, <3>2
  <2>2. Follows(receiver, p)
    BY <1>1, <1>2, <2>1 DEF DedupIInv, Before
  <2>3. u.value = p.origin /\ EndOf(p.cache, u.cache)
    BY <1>4, <1>6, <2>2 DEF Follows
  <2>4. EndOf(channel[1].cache, receiver') /\ receiver' \in Cache
    BY <1>2, <1>7, <1>9, <2>1, <2>3
  <2>5. \A j \in 1 .. n - 1 : channel'[j] = channel[j + 1]
    <3>1. \A j \in 1 .. n - 1 : Behind(i, j) = j + 1
      BY <1>1, <2>1 DEF Behind
    <3> HIDE DEF n
    <3> QED BY <1>10, <3>1
  <2>6. ASSUME NEW j \in 1 .. n
        PROVE  /\ Before(receiver, channel, j + 1) \in Cache
               /\ Before(receiver', channel', j) \in Cache
               /\ EndOf(Before(receiver, channel, j + 1),
                        Before(receiver', channel', j))
    <3>0. j + 1 \in 1 .. n + 1
      BY <1>1, <2>6
    <3>3. Before(receiver, channel, j + 1) \in Cache
      BY <1>1, <3>0, BeforeFacts
    <3>1. CASE j = 1
      <4>1. j + 1 # 1 /\ j + 1 - 1 = 1
        BY <3>1
      <4>2. /\ Before(receiver, channel, j + 1) = channel[1].cache
            /\ Before(receiver', channel', j) = receiver'
        BY <3>1, <4>1 DEF Before
      <4> QED BY <2>4, <3>3, <4>2
    <3>2. CASE j # 1
      <4>1. j - 1 \in 1 .. n - 1 /\ j - 1 + 1 = j /\ j + 1 # 1 /\ j + 1 - 1 = j
        BY <1>1, <2>6, <3>2
      <4>2. channel'[j - 1] = channel[j]
        BY <2>5, <4>1
      <4>3. Before(receiver', channel', j) = Before(receiver, channel, j + 1)
        BY <3>2, <4>1, <4>2 DEF Before
      <4> QED BY <3>3, <4>3, EndOfItself
    <3> QED BY <3>1, <3>2
  <2>7. ASSUME NEW j \in 1 .. Len(channel')
        PROVE  Follows(Before(receiver', channel', j), channel'[j])
    <3>1. j \in 1 .. n - 1 /\ j \in 1 .. n /\ j + 1 \in 1 .. n
      BY <1>1, <1>10, <2>7
    <3>2. Follows(Before(receiver, channel, j + 1), channel[j + 1])
      BY <2>1, <3>1 DEF DedupIInv
    <3>3. channel[j + 1] \in Packet
      BY <1>1, <3>1, ChannelFacts
    <3>4. Follows(Before(receiver', channel', j), channel[j + 1])
      BY <2>6, <3>1, <3>2, <3>3, FollowsLonger
    <3> QED BY <2>5, <3>1, <3>4
  <2>8. Len(channel') + 1 = n /\ n \in 1 .. n
    BY <1>1, <1>10
  <2>9. EndOf(sender, Before(receiver, channel, n + 1)) /\ sender \in Cache
    BY <2>1 DEF DedupIInv, DedupTypeOK
  <2>10. EndOf(sender', Before(receiver', channel', Len(channel') + 1))
    BY <1>1, <2>6, <2>8, <2>9, EndOfTransitive
  <2> QED BY <1>8, <2>3, <2>7, <2>10
<1> QED BY <1>11, <1>12, <1>13, <1>14, <1>15
        DEF DedupIInv, Follows, OwnPacket, Own, Before

(* A packet is lost, the session or the client is replaced. *)
LEMMA LoseKeeps ==
  ASSUME DedupIInv, NEW i \in DOMAIN channel, LoseValue(i)
  PROVE  DedupIInv'
<1>1. /\ channel' = RemoveAt(channel, i) /\ diverged' = TRUE
      /\ UNCHANGED <<sender, receiver, injected>>
  BY DEF LoseValue
<1>2. /\ channel' \in Seq(Packet) /\ Len(channel') <= MaxChannel
      /\ \A j \in 1 .. Len(channel') : /\ Behind(i, j) \in 1 .. Len(channel)
                                       /\ channel'[j] = channel[Behind(i, j)]
  BY <1>1, LeftChannel DEF DedupIInv
<1> QED BY <1>1, <1>2 DEF DedupIInv, DedupTypeOK, OnlyOwnValues, Own, OwnPacket

LEMMA EmptyCacheFacts ==
  /\ EmptyCache \in Cache /\ Own(EmptyCache)
  /\ << >> \in Seq(Packet) /\ Len(<< >>) = 0 /\ Len(<< >>) <= MaxChannel
<1>1. << >> \in Seq(Entry) /\ << >> \in Seq(Packet) /\ Len(<< >>) = 0
  BY EmptySeq
<1>2. DOMAIN << >> = {}
  BY <1>1, LenProperties
<1>3. 0 <= CacheMax /\ 0 <= MaxChannel
  BY DedupAssumption
<1> QED BY <1>1, <1>2, <1>3 DEF EmptyCache, Cache, Own

LEMMA DedupStarts ==
  ASSUME sender = EmptyCache, receiver = EmptyCache, channel = << >>,
         injected = NothingInjected, diverged = FALSE
  PROVE  DedupIInv
<1>1. injected.value = NoValue /\ injected.origin = NoValue
  BY DEF NothingInjected
<1>2. \A i \in 1 .. Len(channel) : FALSE
  BY EmptyCacheFacts
<1>3. EndOf(sender, Before(receiver, channel, Len(channel) + 1))
  <2>1. Before(receiver, channel, Len(channel) + 1) = sender
    BY EmptyCacheFacts DEF Before
  <2> QED BY <2>1, EmptyCacheFacts, EndOfItself
<1> QED BY <1>1, <1>2, <1>3, EmptyCacheFacts
        DEF DedupIInv, DedupTypeOK, OnlyOwnValues

LEMMA RestartKeeps ==
  ASSUME DedupIInv, Restart
  PROVE  DedupIInv'
<1>1. /\ sender' = EmptyCache /\ injected' = NothingInjected
      /\ receiver' \in {receiver, EmptyCache}
      /\ channel' = << >> \/ (channel' = channel /\ diverged' = TRUE)
      /\ diverged' \in BOOLEAN
  BY DEF Restart
<1>2. injected'.value = NoValue /\ injected'.origin = NoValue
  BY <1>1 DEF NothingInjected
<1>3. /\ receiver' \in Cache /\ Own(receiver')
      /\ sender' \in Cache /\ Own(sender')
  BY <1>1, EmptyCacheFacts DEF DedupIInv, DedupTypeOK
<1>4. channel' \in Seq(Packet) /\ Len(channel') <= MaxChannel
  BY <1>1, EmptyCacheFacts DEF DedupIInv, DedupTypeOK
<1>5. \A i \in 1 .. Len(channel') : OwnPacket(channel'[i])
  <2>1. CASE channel' = channel
    BY <2>1 DEF DedupIInv
  <2>2. CASE channel' = << >>
    BY <2>2, EmptyCacheFacts
  <2> QED BY <1>1, <2>1, <2>2
<1>6. ASSUME ~ diverged'
      PROVE  /\ \A i \in 1 .. Len(channel') : FALSE
             /\ EndOf(sender', Before(receiver', channel', Len(channel') + 1))
  <2>1. channel' = << >> /\ Len(channel') = 0
    BY <1>1, <1>6, EmptyCacheFacts
  <2>2. Before(receiver', channel', Len(channel') + 1) = receiver'
    BY <2>1 DEF Before
  <2>3. Len(receiver') \in Nat /\ Len(EmptyCache) = 0
    BY <1>3, CacheFacts, EmptyCacheFacts DEF EmptyCache
  <2>4. EndOf(EmptyCache, receiver')
    BY <2>3 DEF EndOf
  <2> QED BY <1>1, <2>1, <2>2, <2>4
<1> QED BY <1>1, <1>2, <1>3, <1>4, <1>5, <1>6
        DEF DedupIInv, DedupTypeOK, OnlyOwnValues, Follows, OwnPacket, Own, Before, EndOf

LEMMA NewSessionKeeps ==
  ASSUME DedupIInv, NewSession
  PROVE  DedupIInv'
<1>1. /\ receiver' = EmptyCache /\ channel' \in {channel, << >>}
      /\ diverged' = TRUE /\ UNCHANGED <<sender, injected>>
  BY DEF NewSession
<1>2. DedupTypeOK'
  BY <1>1, EmptyCacheFacts DEF DedupIInv, DedupTypeOK
<1>3. \A i \in 1 .. Len(channel') : OwnPacket(channel'[i])
  <2>1. CASE channel' = channel
    BY <2>1 DEF DedupIInv
  <2>2. CASE channel' = << >>
    BY <2>2, EmptyCacheFacts
  <2> QED BY <1>1, <2>1, <2>2
<1>4. Own(sender') /\ Own(receiver')
  BY <1>1, EmptyCacheFacts DEF DedupIInv
<1> QED BY <1>1, <1>2, <1>3, <1>4
        DEF DedupIInv, OnlyOwnValues, Own, OwnPacket

-----------------------------------------------------------------------------
(* dedupDelta and undedupDelta across a link that may lose, reorder and    *)
(* replace: the invariant all three properties follow from.                *)
THEOREM DedupSafe == DedupSpec => []DedupIInv
<1>1. DedupInit => DedupIInv
  BY DedupStarts DEF DedupInit
<1>2. DedupIInv /\ [DedupNext]_dedupVars => DedupIInv'
  <2> SUFFICES ASSUME DedupIInv, [DedupNext]_dedupVars PROVE DedupIInv'
    OBVIOUS
  <2>1. CASE UNCHANGED dedupVars
    BY <2>1 DEF dedupVars, DedupIInv, DedupTypeOK, OnlyOwnValues, Own,
                OwnPacket, Follows, Before
  <2>2. CASE DedupNext
    BY <2>2, SendKeeps, SendFailsKeeps, ReceiveKeeps, LoseKeeps, RestartKeeps,
       NewSessionKeeps DEF DedupNext
  <2> QED BY <2>1, <2>2
<1> QED BY <1>1, <1>2, PTL DEF DedupSpec

(* The two caches, which are never compared, agree as long as nothing is   *)
(* lost, overtaken or replaced since the client's pipeline was made: the   *)
(* sender's is the end of the receiver's, which may have older entries of  *)
(* the pipeline before.  Both always keep their bound.                     *)
THEOREM CachesStayInStep == DedupSpec => []DedupInv
<1>1. DedupIInv => DedupInv
  <2> SUFFICES ASSUME DedupIInv PROVE InStep
    BY DEF DedupInv, DedupIInv
  <2>1. /\ DOMAIN channel = 1 .. Len(channel) /\ Len(channel) \in Nat
        /\ \A i : CacheBefore(i) = Before(receiver, channel, i)
    BY ChannelFacts DEF DedupIInv, CacheBefore, Before
  <2>2. DedupTypeOK /\ Len(channel) + 1 \in 1 .. Len(channel) + 1
    BY <2>1 DEF DedupIInv
  <2> SUFFICES ASSUME ~ diverged
               PROVE  /\ \A i \in DOMAIN channel :
                           LET p == channel[i]
                               u == Undedup(CacheBefore(i),
                                            CacheKey(p.context, p.path), p.body)
                           IN  u.value = p.origin /\ IsSuffix(p.cache, u.cache)
                      /\ IsSuffix(sender, CacheBefore(Len(channel) + 1))
    BY DEF InStep
  <2>3. ASSUME NEW i \in DOMAIN channel,
               NEW u, u = Undedup(CacheBefore(i),
                                  CacheKey(channel[i].context, channel[i].path),
                                  channel[i].body)
        PROVE  u.value = channel[i].origin /\ IsSuffix(channel[i].cache, u.cache)
    <3>1. i \in 1 .. Len(channel) /\ i \in 1 .. Len(channel) + 1
      BY <2>1
    <3>2. PICK r : r = CacheBefore(i)
      OBVIOUS
    <3>3. r \in Cache /\ Follows(r, channel[i])
      BY <2>1, <2>2, <3>1, <3>2, BeforeFacts DEF DedupIInv
    <3>4. u.value = channel[i].origin /\ EndOf(channel[i].cache, u.cache)
      BY <2>3, <3>2, <3>3 DEF Follows
    <3>5. channel[i] \in Packet /\ channel[i].cache \in Cache
      BY <2>2, <3>1, ChannelFacts
    <3>6. u.cache \in Cache
      <4>1. EndOf(r, r)
        BY <3>3, EndOfItself
      <4>2. /\ channel[i].body \in Value \cup {Dup} /\ channel[i].origin \in Value
            /\ CacheKey(channel[i].context, channel[i].path) \in Key
        BY <2>2, <3>1, ChannelFacts, KeyOfPacket
      <4> QED BY <2>3, <3>2, <3>3, <3>4, <4>1, <4>2, UndedupEnds
    <3>7. channel[i].cache \in Seq(Entry) /\ u.cache \in Seq(Entry)
      BY <3>5, <3>6, CacheFacts
    <3>8. IsSuffix(channel[i].cache, u.cache)
      BY <3>4, <3>7, SuffixFacts
    <3> QED BY <3>4, <3>8
  <2>4. IsSuffix(sender, CacheBefore(Len(channel) + 1))
    <3>1. PICK r : r = CacheBefore(Len(channel) + 1)
      OBVIOUS
    <3>2. r \in Cache /\ EndOf(sender, r) /\ sender \in Cache
      BY <2>1, <2>2, <3>1, BeforeFacts DEF DedupIInv, DedupTypeOK
    <3>3. r \in Seq(Entry) /\ sender \in Seq(Entry)
      BY <3>2, CacheFacts
    <3>4. IsSuffix(sender, r)
      BY <3>2, <3>3, SuffixFacts
    <3> QED BY <3>1, <3>4
  <2> QED BY <2>3, <2>4
<1> QED BY <1>1, DedupSafe, PTL

(* Then every value injected is the value that was sent. *)
THEOREM RestoredInStep == DedupSpec => []ValueRestoredInStep
<1>1. DedupIInv => ValueRestoredInStep
  BY DEF DedupIInv, ValueRestoredInStep, ValueRestored
<1> QED BY <1>1, DedupSafe, PTL

(* Whatever the link does, a stale value is one of the same vessel. *)
THEOREM VesselsKeepApart == DedupSpec => []OnlyOwnValues
<1>1. DedupIInv => OnlyOwnValues
  BY DEF DedupIInv
<1> QED BY <1>1, DedupSafe, PTL

=============================================================================
