---------------------------- MODULE DeltaPipeline ----------------------------
(***************************************************************************)
(* From the Signal K tree of the vessel to the receiver: live deltas of    *)
(* the subscription and replays of the whole tree meet in processDelta     *)
(* (src/app/connection/process-delta.ts), and what it accepts is flushed   *)
(* in batches through the stages of prepareDeltaPayload (src/transport/    *)
(* pipeline/reliable-client/delta-sender.ts).                              *)
(*                                                                         *)
(* The subscription delivers only what is published while it lives, and    *)
(* processDelta forgets what comes while sending is paused.  Everything    *)
(* missed that way must come with a replay (src/domain/                    *)
(* source-snapshot-service.ts), which reads the tree at once and feeds it  *)
(* chunk by chunk, between live deltas; the chunks are single deltas here, *)
(* which allows every interleaving that chunks of 50 allow.                *)
(*                                                                         *)
(* A batch is prepared, and the throttle moves on, before its send is      *)
(* awaited; meanwhile the buffer may overflow, and what is cut off at its  *)
(* head when the send ends need not be the batch.                          *)
(*                                                                         *)
(* The batcher's timers and the connection's are in DeltaBatcher and       *)
(* Connection; the link, which is perfect here, in SequenceTracker and     *)
(* ReliableSender.  Time is the order of events: an entry is in recent as  *)
(* long as its 1.5 s last, an interval of the throttle is fresh as long as *)
(* it lasts, and limited holds for 10 s.                                   *)
(***************************************************************************)
EXTENDS OutboundRules, FiniteSets

CONSTANTS
  Leaves,         \* leaves of the tree: vessel, source and path
  PathOf,         \* the path of each
  Unattributed,   \* injected by this plugin, original source unknown
  FirstTree,      \* the tree at the start of the connection
  ValuesOf,       \* bound: the numbers published of each
  Precision,      \* pathPrecision of each leaf (1: none)
  Rules,          \* pathThrottle of each leaf
  Filter,         \* pathFilter
  SkipOwnData,    \* options.skipOwnData
  BufferCap,      \* MAX_DELTAS_BUFFER_SIZE
  DropCount,      \* BufferCap * DELTA_BUFFER_DROP_RATIO
  MaxBatch,       \* state.maxDeltasPerBatch
  RecentMax,      \* OUTBOUND_DEDUPE_MAX_ENTRIES
  MaxPumps,       \* bound: replays under way
  MaxPublished,   \* bound: values published, those of FirstTree included
  MaxFaults       \* bound: errors, failed flushes, restarts and edits of
                  \* subscription.json

ASSUME PipelineAssumption ==
  /\ IsFiniteSet(Leaves)
  /\ Unattributed \subseteq Leaves
  /\ MaxPublished \in Nat
  /\ FirstTree \in [Leaves -> [value : Int, at : 0 .. MaxPublished]]
  /\ \A l \in Leaves : ValuesOf[l] \subseteq Int
  /\ Precision \in [Leaves -> Nat \ {0}]
  /\ Rules \in [Leaves -> [interval : BOOLEAN, deadband : Nat]]
  /\ BufferCap \in Nat /\ DropCount \in 1 .. BufferCap
  /\ {MaxBatch, RecentMax} \subseteq Nat \ {0}

VARIABLES
  tree,           \* leaf |-> its value and timestamp
  client,         \* the connection of the vessel
  receiver,       \* leaf |-> the value the receiving server has
  asked,          \* a FULL_STATUS_REQUEST is on its way
  inFlight,       \* the batch whose send is awaited
  faults,
  newest,         \* history: the newest timestamp accepted of each leaf ...
  latest,         \* history: ... and the one accepted last
  primed,         \* history: leaves this start of the receiver should have
  lost,           \* history: leaves of which something was dropped
  underway        \* history: how many of the buffer are being sent

history == <<newest, latest, primed, lost, underway>>
pipelineVars == <<tree, client, receiver, asked, inFlight, faults, history>>

-----------------------------------------------------------------------------
Stamps == 0 .. MaxPublished       \* 0: never

Delta == [leaf : Leaves, value : Int, at : Stamps]

Client ==
  [ready      : BOOLEAN,            \* readyToSend
   recovering : BOOLEAN,            \* socketRecoveryInProgress
   retry      : BOOLEAN,            \* subscriptionRetryTimer
   delivers   : BOOLEAN,            \* the subscription delivers
   limited    : BOOLEAN,            \* a full status request would be refused
   pumps      : Seq(Seq(Delta)),    \* what the replays have still to feed
   recent     : Seq(Delta),         \* recentOutboundDeltas, oldest first
   buffer     : Seq(Delta),         \* state.deltas
   throttle   : Seq(ThrottleEntry(Leaves, Int))]

(* How long the batch was when it was sliced off (0: batchSendInFlight is  *)
(* false), and what was left of it to send.                                *)
InFlight == [size : 0 .. MaxBatch, out : Seq(Delta)]
Idle     == [size |-> 0, out |-> << >>]

Published == {l \in Leaves : tree[l].at > 0}
LastStamp == CHOOSE n \in Stamps : /\ \E l \in Leaves : tree[l].at = n
                                   /\ \A l \in Leaves : tree[l].at <= n

CurrentDelta(l) == [leaf |-> l, value |-> tree[l].value, at |-> tree[l].at]

LeavesOf(s) == {s[i].leaf : i \in DOMAIN s}

-----------------------------------------------------------------------------
(* sanitizeDeltaForSignalK and stripOwnDataFromDelta leave it. *)
IsForwarded(l) ==
  IsValidPath(PathOf[l]) /\ ~ (SkipOwnData /\ IsOwnDataPath(PathOf[l]))

(* suppressDuplicate *)
SuppressDuplicate(c, d) == d \in Range(c.recent)

(* What processDelta accepts; the gate comes before the memory. *)
Accepts(c, d) == c.ready /\ IsForwarded(d.leaf) /\ ~ SuppressDuplicate(c, d)

Remember(c, d) ==
  [c EXCEPT !.recent = IF Len(@) >= RecentMax THEN Append(Tail(@), d)
                                              ELSE Append(@, d)]

Overflows(c) == Len(c.buffer) >= BufferCap

(* enforceBufferCap *)
EnforceBufferCap(c) ==
  IF Overflows(c)
  THEN [c EXCEPT !.buffer = SubSeq(@, DropCount + 1, Len(@))]
  ELSE c

(* processDelta *)
ProcessDelta(c, d) ==
  IF ~ Accepts(c, d) THEN c
  ELSE [EnforceBufferCap(Remember(c, d)) EXCEPT !.buffer = Append(@, d)]

(* Its effect on the history. *)
Noted(c, d) ==
  IF ~ Accepts(c, d) THEN UNCHANGED history
  ELSE /\ newest' = [newest EXCEPT ![d.leaf] = IF d.at > @ THEN d.at ELSE @]
       /\ latest' = [latest EXCEPT ![d.leaf] = d.at]
       /\ primed' = primed \cup {d.leaf}
       /\ IF Overflows(c)
          THEN /\ lost' = lost \cup
                    LeavesOf(SubSeq(c.buffer, underway + 1, DropCount))
               /\ underway' = IF underway > DropCount
                              THEN underway - DropCount ELSE 0
          ELSE UNCHANGED <<lost, underway>>

-----------------------------------------------------------------------------
(* collectValuesSnapshot *)
Snapshot ==
  SetToSeq({CurrentDelta(l) : l \in Published \ Unattributed})

(* replayValuesSnapshot *)
Replay(c) ==
  IF c.ready /\ Snapshot # << >> THEN [c EXCEPT !.pumps = Append(@, Snapshot)]
  ELSE c

MayReplay == Len(client.pumps) < MaxPumps

(* handleFullStatusRequest of a connection that is not limited. *)
HandleFullStatusRequest(c) == Replay([c EXCEPT !.limited = TRUE])

(* Defect: a connection that sends again does not replay. *)
ResumedOnly(c) == [c EXCEPT !.ready = TRUE]

(* Sending resumes, and with it comes a replay: runSubscriptionRetry,      *)
(* recoverClientSocket.                                                    *)
Resumed(c) == Replay([c EXCEPT !.ready = TRUE])

(* runSubscriptionRetry, subscribe() accepted. *)
Resubscribed(c) ==
  LET s == [c EXCEPT !.delivers = TRUE, !.retry = FALSE]
  IN  IF c.recovering THEN s ELSE Resumed(s)

(* processSubscriptionConfig: the retry is cancelled in any case; success  *)
(* replays, if sending is not paused, failure pauses and arms the retry.   *)
Subscribed(c, ok) ==
  IF ok THEN Replay([c EXCEPT !.delivers = TRUE, !.retry = FALSE])
  ELSE [c EXCEPT !.delivers = FALSE, !.ready = FALSE, !.retry = TRUE]

-----------------------------------------------------------------------------
(* Defect: the throttle remembers what it drops. *)
ThrottleDrifting(acc, d) ==
  LET v == RoundTo(d.value, Precision[d.leaf])
  IN  [throttle |-> RecordSentValue(acc.throttle, d.leaf, v),
       out |-> IF ShouldDropValue(acc.throttle, d.leaf, v, Rules[d.leaf])
               THEN acc.out ELSE Append(acc.out, [d EXCEPT !.value = v])]

(* quantizeDelta and throttleDelta; without a rule a value is kept and not *)
(* recorded.                                                               *)
Throttle(acc, d) ==
  LET rule == Rules[d.leaf]
      v    == RoundTo(d.value, Precision[d.leaf])
      kept == Append(acc.out, [d EXCEPT !.value = v])
  IN  IF ~ rule.interval /\ rule.deadband = 0 THEN [acc EXCEPT !.out = kept]
      ELSE IF ShouldDropValue(acc.throttle, d.leaf, v, rule) THEN acc
      ELSE [throttle |-> RecordSentValue(acc.throttle, d.leaf, v),
            out |-> kept]

(* One delta of a batch: the path filter, then the rest. *)
Prepare(acc, d) ==
  IF IsPathAllowed(PathOf[d.leaf], Filter) THEN Throttle(acc, d) ELSE acc

(* What the deltas of a batch, one after the other, make of the throttle,  *)
(* and what they leave to send.                                            *)
Stages(throttle, batch) ==
  LET acc[n \in 0 .. Len(batch)] ==
        IF n = 0 THEN [throttle |-> throttle, out |-> << >>]
        ELSE Prepare(acc[n - 1], batch[n])
  IN  acc

(* prepareDeltaPayload *)
Prepared(c, batch) == Stages(c.throttle, batch)[Len(batch)]

Batch(c) ==
  SubSeq(c.buffer, 1, IF Len(c.buffer) < MaxBatch THEN Len(c.buffer)
                                                  ELSE MaxBatch)

(* What of the buffer is not being sent. *)
Waiting == SubSeq(client.buffer, underway + 1, Len(client.buffer))

(* deltas.splice(0, actualBatchSize) *)
Spliced(buffer) == SubSeq(buffer, inFlight.size + 1, Len(buffer))

(* What it cuts off that was not in the batch. *)
CutUnsent ==
  SubSeq(client.buffer, underway + 1,
         IF inFlight.size < Len(client.buffer) THEN inFlight.size
                                              ELSE Len(client.buffer))

(* The receiver has the entries of out, one after the other. *)
Shown(out) ==
  [l \in Leaves |->
     IF l \in LeavesOf(out)
     THEN LET i == CHOOSE i \in DOMAIN out :
                     /\ out[i].leaf = l
                     /\ \A j \in DOMAIN out : out[j].leaf = l => j <= i
          IN  {out[i].value}
     ELSE receiver[l]]

-----------------------------------------------------------------------------
Nothing == [l \in Leaves |-> {}]

(* A client that has just set readyToSend and has not read its             *)
(* subscription.json.                                                      *)
PipelineInit ==
  /\ tree = FirstTree
  /\ client = [ready |-> TRUE, recovering |-> FALSE, retry |-> FALSE,
               delivers |-> FALSE, limited |-> FALSE, pumps |-> << >>,
               recent |-> << >>, buffer |-> << >>, throttle |-> << >>]
  /\ receiver = Nothing
  /\ asked = FALSE
  /\ inFlight = Idle
  /\ faults = 0
  /\ newest = [l \in Leaves |-> 0]
  /\ latest = [l \in Leaves |-> 0]
  /\ primed = {}
  /\ lost = {}
  /\ underway = 0

Fault == faults < MaxFaults /\ faults' = faults + 1

(* A value is published, and the subscription may deliver it. *)
Publish(l, v) ==
  /\ LastStamp < MaxPublished
  /\ tree' = [tree EXCEPT ![l] = [value |-> v, at |-> LastStamp + 1]]
  /\ LET d == [leaf |-> l, value |-> v, at |-> LastStamp + 1]
     IN  IF client.delivers
         THEN client' = ProcessDelta(client, d) /\ Noted(client, d)
         ELSE UNCHANGED <<client, history>>
  /\ UNCHANGED <<receiver, asked, inFlight, faults>>

(* The subscription manager delivers the current value once more. *)
Redeliver(l) ==
  /\ client.delivers /\ l \in Published
  /\ client' = ProcessDelta(client, CurrentDelta(l))
  /\ Noted(client, CurrentDelta(l))
  /\ UNCHANGED <<tree, receiver, asked, inFlight, faults>>

(* Defect: the last delta of a replay is left out. *)
AfterChunkShort(pumps, i) ==
  IF Len(pumps[i]) <= 2 THEN RemoveAt(pumps, i)
  ELSE [pumps EXCEPT ![i] = Tail(@)]

(* The next chunk is left to a later turn, if there is one. *)
AfterChunk(pumps, i) ==
  IF Len(pumps[i]) = 1 THEN RemoveAt(pumps, i)
  ELSE [pumps EXCEPT ![i] = Tail(@)]

(* pumpSnapshotChunk; a replay that finds sending paused ends. *)
Pump(i) ==
  /\ IF client.ready
     THEN LET d == client.pumps[i][1] IN
          /\ client' = ProcessDelta([client EXCEPT !.pumps = AfterChunk(@, i)], d)
          /\ Noted(client, d)
     ELSE /\ client' = [client EXCEPT !.pumps = RemoveAt(@, i)]
          /\ UNCHANGED history
  /\ UNCHANGED <<tree, receiver, asked, inFlight, faults>>

(* OUTBOUND_DUPLICATE_SUPPRESS_MS pass since the oldest was accepted. *)
Forget ==
  /\ client.recent # << >>
  /\ client' = [client EXCEPT !.recent = Tail(@)]
  /\ UNCHANGED <<tree, receiver, asked, inFlight, faults, history>>

(* minIntervalMs pass since an entry of the throttle was recorded. *)
IntervalPasses(i) ==
  /\ client.throttle[i].fresh
  /\ client' = [client EXCEPT !.throttle[i].fresh = FALSE]
  /\ UNCHANGED <<tree, receiver, asked, inFlight, faults, history>>

(* flushDeltaBatch up to the await; the batch is prepared. *)
Flush ==
  LET p == Prepared(client, Batch(client)) IN
  /\ client.ready /\ client.buffer # << >> /\ inFlight = Idle
  /\ client' = [client EXCEPT !.throttle = p.throttle]
  /\ inFlight' = [size |-> Len(Batch(client)), out |-> p.out]
  /\ lost' = lost \ LeavesOf(p.out)
  /\ underway' = Len(Batch(client))
  /\ UNCHANGED <<tree, receiver, asked, faults, newest, latest, primed>>

(* The send ends, and the batch is removed. *)
FlushSucceeds ==
  /\ inFlight # Idle
  /\ client' = [client EXCEPT !.buffer = Spliced(@)]
  /\ receiver' = Shown(inFlight.out)
  /\ inFlight' = Idle
  /\ lost' = lost \cup LeavesOf(CutUnsent)
  /\ underway' = 0
  /\ UNCHANGED <<tree, asked, faults, newest, latest, primed>>

(* sendDelta throws: the throttle has moved on, and the batch is retried   *)
(* or, after the last attempt, dropped.                                    *)
FlushFails(last) ==
  /\ inFlight # Idle
  /\ Fault
  /\ client' = [client EXCEPT !.buffer = IF last THEN Spliced(@) ELSE @]
  /\ inFlight' = Idle
  /\ lost' = lost \cup LeavesOf(inFlight.out)
                  \cup IF last THEN LeavesOf(CutUnsent) ELSE {}
  /\ underway' = 0
  /\ UNCHANGED <<tree, receiver, asked, newest, latest, primed>>

(* handleClientSocketError *)
SocketError ==
  /\ ~ client.recovering
  /\ Fault
  /\ client' = [client EXCEPT !.ready = FALSE, !.recovering = TRUE]
  /\ UNCHANGED <<tree, receiver, asked, inFlight, history>>

(* recoverClientSocket *)
SocketRecovered ==
  /\ client.recovering
  /\ MayReplay
  /\ client' = Resumed([client EXCEPT !.recovering = FALSE])
  /\ UNCHANGED <<tree, receiver, asked, inFlight, faults, history>>

(* The error callback of the subscription, which may or may not go on      *)
(* delivering.                                                             *)
SubscriptionError ==
  /\ client.delivers
  /\ Fault
  /\ \E b \in BOOLEAN :
       client' = [client EXCEPT !.ready = FALSE, !.retry = TRUE,
                                !.delivers = b]
  /\ UNCHANGED <<tree, receiver, asked, inFlight, history>>

SubscriptionRetry ==
  /\ client.retry
  /\ MayReplay
  /\ \/ client' = Resubscribed(client) /\ UNCHANGED faults
     \/ client' = [client EXCEPT !.delivers = FALSE] /\ Fault
  /\ UNCHANGED <<tree, receiver, asked, inFlight, history>>

(* subscription.json is read, at the start and whenever it changes. *)
SubscriptionChange ==
  /\ MayReplay
  /\ \/ /\ client' = Subscribed(client, TRUE)
        /\ IF client.delivers THEN Fault ELSE UNCHANGED faults
     \/ client' = Subscribed(client, FALSE) /\ Fault
  /\ UNCHANGED <<tree, receiver, asked, inFlight, history>>

(* The receiver starts anew with an empty tree and asks for everything     *)
(* once it has the client's HELLO.  What is being sent it gets, or the     *)
(* receiver before it got it.                                              *)
ReceiverRestarts ==
  /\ Fault
  /\ receiver' = Nothing
  /\ asked' = TRUE
  /\ inFlight' \in {inFlight, [inFlight EXCEPT !.out = << >>]}
  /\ primed' = LeavesOf(Waiting)
  /\ UNCHANGED <<tree, client, newest, latest, lost, underway>>

(* handleFullStatusRequest.  What is in recent was accepted a moment ago,  *)
(* perhaps for the receiver before.                                        *)
FullStatusRequest ==
  /\ asked
  /\ asked' = FALSE
  /\ MayReplay
  /\ IF client.limited THEN UNCHANGED <<client, primed>>
     ELSE /\ client' = HandleFullStatusRequest(client)
          /\ primed' = primed \cup
               {l \in Published \ Unattributed :
                  client.ready /\ ~ SuppressDuplicate(client, CurrentDelta(l))}
  /\ UNCHANGED <<tree, receiver, inFlight, faults, newest, latest, lost,
                 underway>>

(* FULL_STATUS_REQUEST_RATE_LIMIT_MS pass. *)
LimitPasses ==
  /\ client.limited
  /\ client' = [client EXCEPT !.limited = FALSE]
  /\ UNCHANGED <<tree, receiver, asked, inFlight, faults, history>>

PipelineNext ==
  \/ \E l \in Leaves : \E v \in ValuesOf[l] : Publish(l, v)
  \/ \E l \in Leaves : Redeliver(l)
  \/ \E i \in DOMAIN client.pumps : Pump(i)
  \/ Forget
  \/ \E i \in DOMAIN client.throttle : IntervalPasses(i)
  \/ Flush
  \/ FlushSucceeds
  \/ \E last \in BOOLEAN : FlushFails(last)
  \/ SocketError
  \/ SocketRecovered
  \/ SubscriptionError
  \/ SubscriptionRetry
  \/ SubscriptionChange
  \/ ReceiverRestarts
  \/ FullStatusRequest
  \/ LimitPasses

PipelineSpec == PipelineInit /\ [][PipelineNext]_pipelineVars

-----------------------------------------------------------------------------
(* The maps and the buffer stay within their caps, and the throttle has no *)
(* key twice.                                                              *)
PipelineTypeOK ==
  /\ client \in Client
  /\ Len(client.buffer) <= BufferCap
  /\ Len(client.recent) <= RecentMax
  /\ Len(client.throttle) <= ThrottleMax
  /\ \A l \in Leaves : Cardinality(Lasts(client.throttle, l)) <= 1
  /\ \A l \in Leaves : receiver[l] \subseteq Int /\ Cardinality(receiver[l]) <= 1
  /\ lost \cup primed \subseteq Leaves
  /\ inFlight \in InFlight
  /\ inFlight.size = 0 => inFlight = Idle
  /\ underway \in 0 .. inFlight.size /\ underway <= Len(client.buffer)

(* The subscription lives, nothing pauses, and no replay is under way. *)
Settled ==
  client.ready /\ client.delivers /\ ~ client.retry /\ client.pumps = << >>

Drained == Settled /\ client.buffer = << >> /\ inFlight = Idle

(* What was published while the subscription was dead or sending was       *)
(* paused comes with a replay: "so values published before subscribe still *)
(* reach the receiver".  Whatever pauses overlap, and wherever one cuts a  *)
(* replay short, a connection that has settled has accepted the current    *)
(* value of every leaf.                                                    *)
NothingMissed ==
  Settled => \A l \in Published \ Unattributed :
               IsForwarded(l) => newest[l] = tree[l].at

Passes(l) == IsForwarded(l) /\ IsPathAllowed(PathOf[l], Filter)

(* A receiver that starts anew gets every leaf back, if its request is     *)
(* heeded, except those a throttle rule holds back and those whose value   *)
(* was accepted just before, for the receiver before.                      *)
RestartedIsReprimed ==
  Drained => \A l \in primed \ lost :
               /\ Passes(l)
               /\ ~ Rules[l].interval /\ Rules[l].deadband = 0
               => receiver[l] # {}

(* The value the receiver has is within the deadband of the current one,   *)
(* and equal to it, up to the precision, where there is none: small steps  *)
(* do not add up.  Not so for a rule with an interval, which drops the     *)
(* last of several values, for a leaf whose last value was lost, and for   *)
(* one whose newest value a replay has overtaken.                          *)
ReceiverFollows ==
  Drained => \A l \in Published \ lost :
               ~ Rules[l].interval /\ latest[l] = tree[l].at
               => \A v \in receiver[l] :
                    LET now == RoundTo(tree[l].value, Precision[l])
                    IN  v = now \/ Abs(v - now) < Rules[l].deadband

-----------------------------------------------------------------------------
(* The inductive invariant of the pipeline, part by part.  What the        *)
(* replays have still to feed.                                             *)
Fed(c) == UNION {Range(c.pumps[i]) : i \in DOMAIN c.pumps}

(* Whatever is on its way is as old as the tree, or older, and current if  *)
(* it is as old; what is remembered was accepted.                          *)
Dated ==
  /\ \A l \in Leaves : latest[l] <= newest[l] /\ newest[l] <= tree[l].at
  /\ \A d \in Range(client.buffer) \cup Fed(client) :
       /\ d.at <= tree[d.leaf].at
       /\ d.at = tree[d.leaf].at => d.value = tree[d.leaf].value
  /\ \A d \in Range(client.recent) : d.at <= newest[d.leaf]

(* While nothing pauses, what is missing is in a replay under way.         *)
MissedIsFed ==
  /\ \A i \in DOMAIN client.pumps : client.pumps[i] # << >>
  /\ client.recovering => ~ client.ready
  /\ client.ready /\ client.delivers /\ ~ client.retry =>
       \A l \in Published \ Unattributed :
         IsForwarded(l) => newest[l] = tree[l].at \/ CurrentDelta(l) \in Fed(client)

(* What the receiver has once it has what is being sent. *)
ToBeShown == Shown(inFlight.out)

(* What the receiver should have it has, or it is in the buffer, or it     *)
(* comes: with a replay, or with the one that ends the pause, which        *)
(* nothing remembered keeps out.                                           *)
IsComing(l) ==
  /\ l \in Published \ Unattributed
  /\ CurrentDelta(l) \notin Range(client.recent)
  /\ client.ready =>
       \E d \in Fed(client) : d.leaf = l /\ d \notin Range(client.recent)

Unruled(l) == ~ Rules[l].interval /\ Rules[l].deadband = 0

PrimedIsKept ==
  \A l \in primed \ lost :
    Passes(l) /\ Unruled(l)
      => ToBeShown[l] # {} \/ l \in LeavesOf(Waiting) \/ IsComing(l)

(* The throttle remembers what the receiver has or gets, for leaves with a *)
(* rule.                                                                   *)
ThrottleTells ==
  \A i \in DOMAIN client.throttle :
    LET e == client.throttle[i] IN
    /\ ~ Unruled(e.key)
    /\ e.key \notin lost => ToBeShown[e.key] \subseteq {e.value}

(* v shows w as well as the rule and the precision of l allow. *)
Shows(l, v, w) ==
  \/ v = RoundTo(w, Precision[l])
  \/ Abs(v - RoundTo(w, Precision[l])) < Rules[l].deadband

(* The last delta of a leaf in the buffer is the one accepted last; if     *)
(* none waits there, the receiver has been shown that one, or gets it.     *)
LastIsShown ==
  /\ \A i \in DOMAIN client.buffer :
       (\A j \in DOMAIN client.buffer :
          j > i => client.buffer[j].leaf # client.buffer[i].leaf)
       => client.buffer[i].at = latest[client.buffer[i].leaf]
  /\ \A l \in Leaves : ToBeShown[l] # {} => IsPathAllowed(PathOf[l], Filter)
  /\ \A l \in Leaves \ lost :
       ~ Rules[l].interval /\ latest[l] = tree[l].at /\ l \notin LeavesOf(Waiting)
         => \A v \in ToBeShown[l] : Shows(l, v, tree[l].value)

PipelineIInv ==
  /\ PipelineTypeOK
  /\ tree \in [Leaves -> [value : Int, at : Stamps]]
  /\ newest \in [Leaves -> Stamps] /\ latest \in [Leaves -> Stamps]
  /\ receiver = [l \in Leaves |-> receiver[l]]
  /\ Dated
  /\ MissedIsFed
  /\ PrimedIsKept
  /\ ThrottleTells
  /\ LastIsShown

(* The caps and what keeps track, that a settled connection has missed     *)
(* nothing although the caps cut, and what makes all of it inductive.      *)
PipelineInv == PipelineIInv /\ NothingMissed

=============================================================================
