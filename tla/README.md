# signalk-edge-link in TLA+

Edge Link is a Signal K plugin that carries vessel data over an unreliable
link.  A *client* connection subscribes to deltas of its own Signal K server,
batches them, compresses and encrypts each batch and sends it over UDP with a
sequence number.  A *server* connection receives the datagrams, asks for what
is missing, confirms what has arrived, and injects the values into the Signal K
server at the other end.  This directory models the parts of it in which the
order of events decides what happens, checks them with TLC, and proves the
central ones for every value of their parameters with TLAPS.

- [The system](#the-system): parts, state, interaction, what is hard
- [Modules](#modules): which module stands for which code
- [Runs](#runs): what each configuration checks, bounds, fairness
- [Proofs](#proofs): theorems, assumptions, the inductive invariants
- [Disagreements found](#disagreements-found): where code and comments differ
- [Limits](#limits): what is only model-checked, what is not modelled
- [Plan](#plan): what could follow

`PROJECT.json` is the index: every definition with the source lines it stands
for ("map"), every run, a seeded defect per property that the run detects
("mutants"), and the list of hazards of the code with the properties that cover
them ("hazards").  Paths are relative to the repository (`src/` below is the
directory of that name in it).

## The system

```
 client                                                      server
 Signal K ──► subscription ──► process-delta ──► delta batcher
             manager            (filter, dedup)   │ sendDelta
                                                  ▼
    value dedup (sender) ─► codec ─► crypto ─► packet builder ─► socket
                                                  │                 ▲ │
                                       retransmit queue ────────────┘ │
                                          ▲  ▲                        │ DATA, HELLO,
             heartbeat, HELLO retry       │  │   ACK / NAK            ▼ META, SOURCE
             congestion control ◄─────────┴──┴──────────────── session table
             bonding (2 links)                                        │
             connection lifecycle, socket recovery       replay guard │ (epoch, window)
                                                                      ▼
                                                     sequence tracker (NAK timers)
                                                                      ▼
                              Signal K ◄── source registry ◄── value dedup (receiver)
```

Everything runs on Node's event loop: a handler is atomic up to its next
`await`, and every `await`, timer and socket callback is a point where any other
handler may run.  Two processes share nothing but datagrams, which may be lost,
repeated, delayed and reordered.

| Part | State | Operations | What makes it correct | Hard because of |
|---|---|---|---|---|
| **Sequence tracker** `transport/reliability/sequence.ts` | expected number, numbers received ahead, NAK timers, attempts, queued NAKs, flush timer | `processSequence`, timer, flush, abandon, resync, `reset` | a gap is asked for, filled or given up, never forgotten; the cumulative ACK passes nothing that is missing; a payload is fresh once | reordering, wrap-around, timers racing arrivals, eviction at limits |
| **Delta batcher** `domain/delta-batcher.ts`, `app/connection/process-delta.ts` | `deltas`, `batchSendInFlight`, `pendingRetry`, delta timer, drop count | append, overflow, flush, retry, drop, drain, stop | every delta is sent or counted as dropped, in order, after its budget; the buffer drains | buffer trimmed during an awaited send; timers and failures in any order |
| **Value dedup** `codec/value-dedup.ts` | one LRU cache at each end | `dedupDelta`, `undedupDelta`, cleared with pipeline or session | the value injected is the value sent | the caches are never compared; loss, reordering, failed sends and new sessions separate them |
| **Retransmit queue, ACK/NAK/burst** `transport/reliability/retransmit-queue.ts`, `reliable-client/reliability.ts` | queue, attempts, last ACK, burst timer | `add`, `acknowledge(Range)`, `retransmit`, expiry, `receiveACK`, `receiveNAK`, burst | a bounded number of retransmissions; ACKed packets leave, others stay | three senders awaiting the same socket; late ACKs; wrap-around |
| **Replay window, session admission** `transport/reliability/replay-window.ts`, `context.ts`, `data-handler.ts` | epoch and window per peer, handshaked addresses | HELLO, DATA gates | nothing is processed twice, nothing fresh is refused | restart of the client, epoch changes while a packet is decompressed |
| **Server sessions, periodic ACK/NAK** `reliable-server/sessions.ts` | session table with limits, last ACK per session | create, evict, expire, ACK timer | bounded, each client confirmed | await between sessions, eviction under a handler |
| **Metadata and source envelopes** `reliable-server/metadata.ts` | last envelope sequence and chunk set | chunk acceptance, restart detection | each snapshot applied once and newest wins | two counters, 32-bit order, chunk reordering |
| **Control packets, HELLO, heartbeat** `reliable-client/control-packets.ts`, `lifecycle.ts` | HELLO retry timer, resolved addresses | HELLO until confirmed | the server gets the epoch of every start and port; retries last until then | a send awaited while another is asked for, new ports, restarts of either end |
| **Bonding** `transport/bonding.ts` | two links, active link, health | probe, failover, failback | one active link, failback with hysteresis | timers, late heartbeat answers |
| **Congestion control** `transport/congestion.ts` | delta timer interval, averages | adjust | interval in bounds | numeric edges |
| **Connection lifecycle, socket recovery** `app/connection/` | FSM state, `readyToSend`, sockets, timers | start, stop, recover, reload | stop leaves nothing running | start, stop and recovery race across awaits |
| **Subscription manager, metadata streamer, source snapshots, keepalive** `app/connection/` | generation, retry timer, diff buffers | subscribe, retry, flush | a stale retry does nothing; the newest metadata is sent | callbacks of old generations |
| **Source registry** `domain/` | bounded table of sources | register, dispatch | bounded, newest wins | eviction |
| **Delta sanitiser, filter, throttle, quantise; values snapshot** `codec/`, `domain/` | throttle table, recent deltas, pumps | prepare a batch, replay the tree | the receiver ends with the current values | pauses, replays and live deltas interleave |
| **Connection manager** `app/connection-manager.ts` | registry of instances, start generation | start, stop, rollback | the latest start stands, nothing is orphaned | a start that is superseded at any await |
| **Configuration, watcher, management API, web form** `connection-config.ts`, `foundation/config-io.ts`, `routes/`, `webapp/` | the host's file, current options, runtime files | load, validate, migrate, save, watch, requests, restarts | atomic replacement; accepted changes are kept; a redacted key finds its connection | debounce and reload races, requests while a restart is pending |

The complete list, with the status of each part, is under "components" in
`PROJECT.json`; the hazards, one by one at their lines, under "hazards".

## Modules

The protocol between the two ends:

| Module | Stands for | Kind |
|---|---|---|
| `SerialArithmetic` | the 32-bit comparisons of sequence numbers (`(a - b) >>> 0 < 0x80000000`), over a space of `2 * HalfSpace` numbers | operators |
| `SequenceTrackerOps` | `sequence.ts`: each method as an operator from tracker to tracker | operators |
| `SequenceTracker` | one tracker with its datagrams, NAK timers, flush timer and resets | state machine |
| `ReliableSender` | retransmit queue, `sendDelta`, `receiveACK`, `receiveNAK`, recovery burst, metrics pruning | state machine |
| `ReplayWindowOps` | `replay-window.ts`: `accept`, `reset` and the late pruning | operators |
| `ReplayWindow` | the window of one peer under arrivals and epoch resets | state machine |
| `ReplayFilter` | what a replay window promises, with unlimited memory | abstract specification |
| `Wire` | which packets of protocol v3 a receiver takes: flags, versions, authentication, the epoch a tag is bound to | operators |
| `Handshake` | HELLO between client (`lifecycle.ts`, `control-packets.ts`, recovery, failover, keepalive) and server (`receive.ts`, `context.ts`, the first gate of `data-handler.ts`) | state machine |
| `ReliableServer` | the server's end: the gates of HELLO and DATA, the tables of sessions, guards and addresses, parked decompressions, the loss window; uses `SequenceTrackerOps`, `ReplayWindowOps` and `Wire` | state machine |
| `EnvelopeDedup` | which chunks of the metadata channel a session applies | operators |
| `MetadataSync` | streamer, envelopes, network and the sessions that receive them; uses `EnvelopeDedup` | state machine |
| `ValueDedup` | both caches of the value deduplication, the packets between them, restarts, new sessions | state machine, two specifications |
| `Bonding` | two links of a client: probes, failover, failback, forced switch, sockets | state machine |
| `Congestion` | one adjustment of the delta timer | operators |

The plugin around it:

| Module | Stands for | Kind |
|---|---|---|
| `DeltaBatcher` | the buffer and its sender: `process-delta.ts`, `delta-batcher.ts`, the delta timer, and the socket, subscription and stop events that gate it | state machine |
| `OutboundRules` | sanitiser, own-data filter, path filter, quantisation, throttle, for one entry | operators |
| `DeltaPipeline` | from the tree of the vessel to the receiver: live deltas, replays of the whole tree, pauses, throttle; uses `OutboundRules` | state machine |
| `SourceRelay` | whose value an update is, hop after hop, and the registry of sources | operators |
| `SourceSnapshot` | the sources section cut into chunks and merged | operators |
| `Connection` | one connection: lifecycle, start at each of its awaits, stop, socket recovery, subscription; every timer, socket and watcher it holds | operators on a record |
| `ConnectionManager` | starts and stops of the whole set; the steps of `Connection` | state machine |
| `ConnectionConfig` | fields a connection may have, identities, ids, redacted keys, validation gates, migration | operators |
| `ConnectionForm` | the form of a connection and what an edit makes of it | operators |
| `Settings` | the ranges and defaults of numbers, as validated, offered and in effect | operators |
| `ConfigFile` | the atomic write of a runtime file, await by await | state machine |
| `Management` | requests that change the configuration, restarts by the host, authorisation; uses `ConnectionConfig` and `ConfigFile` | state machine |

For TLC: `MCSequenceTracker`, `MCValueDedup`, `MCHandshake`, `MCReliableServer`,
`MCMetadataSync`, `MCConnectionManager`, `MCBonding`, `MCDeltaPipeline`,
`MCManagement` give the constants that are not simple values, and symmetries.
Three of them also state what the operator modules promise, as assumptions that
TLC evaluates over all small inputs before it starts: `MCBonding` the law of
`Congestion`; `MCDeltaPipeline` the rules of `OutboundRules`, the attribution and
the registry of `SourceRelay`, the chunks and merges of `SourceSnapshot`; and
`MCConfiguration`, which `MCManagement` extends, those of `ConnectionConfig`,
`ConnectionForm` and `Settings`.  The theorems are in eight modules,
one per group of components that share lemmas:

| Proof module | About |
|---|---|
| `SequenceProofs` | `SerialArithmetic`, `SequenceTrackerOps`: the numbers, and any tracker that counts on them |
| `SessionProofs` | `SequenceTracker`, `MetadataSync` |
| `ServerProofs` | `ReplayWindow`, `ReliableServer` |
| `SenderProofs` | `ReliableSender`, `DeltaPipeline` |
| `OutboundProofs` | `DeltaBatcher`, `ValueDedup` |
| `ClientProofs` | `Handshake`, `Bonding`, `Congestion` |
| `ConnectionManagerProofs` | `Connection`, `ConnectionManager` |
| `ManagementProofs` | `Management`, `ConnectionConfig`, `ConfigFile` |

A module whose definitions meet those of another in a proof module gives its
initial state and its specification a name of its own (`WindowSpec`, `DedupSpec`,
`MetadataSpec`, `BondingSpec`, `PipelineSpec`); elsewhere they are `Init`, `Next` and
`Spec`.

Some modules keep, next to an operation, a variant of it with a plausible defect
(`Defect:` in the comment).  No specification uses them; they are the
seeded defects that "mutants" in `PROJECT.json` puts in place of the operation.

**Sequence tracker.**  The fields of `SequenceTracker` are the fields of the
record `tracker`; Maps and Sets of numbers are functions and sets, a timer handle
is membership in `nakTimers`, `null` is `NoSeq`.  `Classify` is the chain of
conditions of `processSequence`, and each class has the whole effect of its
branch: a number received in the middle of a gap cancels its NAK, is buffered,
schedules the NAKs of the new gap, trims the window (`_enforceWindow`) and
abandons what falls out.  `Receive` lets any number arrive at any time, so loss,
duplication, delay and reordering need no network module.  `NAKTimer` and
`NAKFlush` are the two timer callbacks.  The one ordering taken from Node: the
0 ms flush that a timer schedules runs before the re-armed timer of the same
number.  `accepted`, `abandoned` and `nakRounds` are history variables: what the
session was told.  A number at exactly half the space does not arrive (both
comparisons are false there; the code treats it as neither ahead nor behind).

**Delta batcher.**  Deltas are appended at one end and spliced off the other, so
`state.deltas` is the interval `head .. next - 1`.  Every action is one turn of
the event loop: `ProcessDelta`, `DeltaTimer`, `RetryTimer`, `Drain` (the
`setImmediate` of the `finally` block), `SendSucceeds` and `SendFails` (the two
ways the awaited `sendDelta` settles), socket and subscription errors with their
recoveries, and `Stop`.  The record of a send keeps what the code keeps in local
variables across the await (`size` and `count`), and `from`, which the code does
*not* keep: it is there so that properties can speak of the batch that was sent.

**Value dedup.**  `CacheSet` is the Map with delete-and-reinsert order; `Dedup`
and `Undedup` are the per-value work of `dedupDelta` and `undedupDelta`.
`DedupSpec` has what the protocol can let through: loss after the retransmissions are
used up, reordering, a send that throws after the cache advanced, a session
replaced under a living client; `diverged` remembers whether any of it happened
since the client's pipeline was made.  A client that restarts has a new pipeline.
From a new port it meets a new session; from the same port it meets the old one,
whose HELLO resets the sequence state and leaves the cache alone, so the
receiver's cache may begin with entries that the sender no longer has.
`ReconnectSpec` is the perfect link plus
replaced sessions.

**Reliable sender.**  `queued` and `attempts` are the retransmit queue; ages are
abstracted to the order of the numbers, so expiry removes the oldest few.
`sendDelta`, `receiveNAK` and the burst are split at their awaits: what they have
yet to hand to the socket is in `sending`, `nakSends` and `burstSends`, which is
how an ACK or a second NAK gets between a packet's charge and its send.

**Replay window.**  `highest` and `seen` are the fields of the class.  The set is
pruned only when it has grown past `Size`, so it also holds numbers older than
the window; `accepted` is the history of what was accepted, and `ReplayFilter`
decides with it what the window decides with its set.

**Handshake.**  `client` is the HELLO part of the client's state: `sends` counts
the awaited HELLO sends, `timers` the armed retry timers, and `handle` says
whether `helloRetryTimer` is set.  A timer whose handle was overwritten fires all
the same, and the callback of one timer clears the handle of another, as in the
code.  The server sees a source port: `Rebind`, `SocketRecovered`, `SwitchLink`
and `ClientRestart` are the four ways a client gets another one.  The epoch of a
start is what `resolveMonotonicEpoch` makes of a file that is written and read at
best effort: it may rise, stay or fall, and `reached` is the highest so far.  A
client that stops loses its socket, and what it sent stays on the way until it
arrives or is lost.  Per port the
server has a replay guard and a session, per address the record that a HELLO
came from it.  `ReceiveHello` and `ReceiveData` are the whole handlers reduced to
what decides about identity and about the control packets that go back.  A
message sent twice and a message in flight are the same member of a set that need
not be removed when it is received: that is repetition and delay.

**Reliable server.**  What the parser and the dispatcher refuse is in `Wire`.
`ReceiveHello` is the whole handler.  `ReceiveData` is the handler of DATA up to its
await: the packet is now in `parked` and nothing has been allocated yet.
`Decompressed` is the rest, which finds the tables as they are *then* and passes the
gates in the order of the code: the session with its limits, the unknown port, the
replay window, the tracker.  The two maps of sessions and guards are functions on
all peers together with the order in which their entries were last touched, which
is all that the comparisons of `Date.now()` decide by.  `handed` counts how often
each payload was dispatched under the epoch of its guard, and `late` has what was
parked when a newer start was announced.  Here too any datagram ever sent may
arrive at any time.

**Metadata.**  `client` has the change cache with its generation, the diff buffer
and the counter of envelopes; `sends` the `sendMetadata` calls under way, each at
one of its chunks, so diffs and snapshots interleave.  `wire` is every chunk ever
sent, and `ReceiveMetadata` takes any of them.  As in the code the session is
looked up before the await of decompression and used after it, which is why a
session that has ended may still filter a chunk.

**Bonding.**  Time is counted in health checks: `silence`, `sinceFailover` and
`sinceFailback` are the clocks, saturating where they no longer matter.  A
quality is one of three, by the two thresholds and their hysteresis; a check that
expires probes may lower it by any amount, since it counts the probes sent by
then.  A
socket bound to an interface takes two steps to make anew: the recovery timer
fires (`RecreateSocket`), and later the bind is reported (`SocketIsBound`).

**Delta pipeline.**  `tree` is the vessel's Signal K tree; `Publish` changes it and
delivers the delta only if a subscription lives.  `processDelta` forgets what
comes while sending is paused; what is missed must come by a replay, which reads
the tree at once and feeds it by `Pump`, in between live deltas.  A flush is split
at its await: `Flush` prepares the batch, which moves the throttle on, and
`inFlight` keeps its length and what is to be sent; `FlushSucceeds` and
`FlushFails` cut that many deltas off the head of the buffer as it is *then*, which
after an overflow are not those that were sent.  The histories `newest`, `latest`,
`primed` and `lost` say what was accepted and what may be missing for a reason a
property names; `underway` says how much of the buffer is being sent, which the
code does not know, so that `lost` has what an overflow or such a cut removes
unsent.

**Connection and its manager.**  `Connection` is a record and operators on it;
`pc` is the await at which `start()` waits, `held` the timers, sockets and
watchers that exist.  A watcher whose file was replaced stays open, on a file
nobody edits, until the recovery timer closes it and makes a new one.
`ConnectionManager` has an instance for each start and each
name, since a superseded start and its successor both have live objects.
`StepOf` makes a step of any of them: awaits that succeed or fail, timers that
fire, sockets and subscriptions that break.

**Management.**  Three copies of the configuration: `persisted` (the host's file),
`live` (`_currentOptions`) and `running`.  The host's restart callback is external:
it returns at once and works its calls off in order (`HostRestarts`), and its save may
fail.  Who may use the API depends on the options and on two environment
variables: one gives a token (`EnvToken`), the other demands one (`EnvRequired`).
`ConfigFile` is composed with it: the steps of `saveConfigFile` at each
await, a crash of the process or the machine between any two (a file that was
not synced may be cut).

## Runs

| Run | Checks | Bounds |
|---|---|---|
| `sequence_tracker` | `IInv`, the inductive invariant of the proofs: the timer table covers exactly the missing numbers, nothing outlives its number, memory is bounded. `HandedOnOnce`: a payload is handed on once and never after its number was given up. `AckedOnlyIfSettled`: the cumulative ACK passes only settled numbers. `AbandonedOnlyAfterAllRounds`. `PinnedProbeMoves`: a gap at the head does not pin the ACK. | `HalfSpace = 8`: 16 numbers, window 2, gap table 2, resync threshold 3, 2 rounds. Every class of `Classify` occurs; the window walks round the space. The liveness property follows one number, since all are alike under shifts. |
| `delta_batcher` | `IInv`: the counters balance, one send at a time, what was sent is out of the buffer, the cap. `SentInOrder`. `DroppedAfterRetries`: a delta is dropped only after its full budget (unless a trim interfered, see below). `BufferDrains`: what is buffered goes out without another delta arriving. | Cap 3, drop 2, batch 2, 1 retry, 5 deltas: the buffer overflows before and during a send, a batch is smaller than, equal to and larger than what is left. |
| `value_dedup` | `DedupInv`: as long as nothing is lost, overtaken or replaced since the client's pipeline was made, the sender's cache is the end of the receiver's in the same order (all of it, if both began empty), so no entry it counts on is evicted, and every value is restored. `OnlyOwnValues`: a wrong value is a value of the same vessel. | 3 vessels with one path and 2 values each over a cache of 2, so eviction and re-entry occur; 2 packets on the way. Vessels and values are interchangeable (symmetry). |
| `reliable_sender` | `SenderInv`: the queue is bounded and no ACK leaves an acknowledged packet. `WithinBudget`: every packet stays within its retransmission budget whoever asks. `NoHoleTorn`: a packet leaves only if it is acknowledged, spent, or everything older is gone too. `BurstEnds`: a burst towards a silent peer stops by itself. | 6 numbers, queue 2, 1 retransmission, burst 1, two first sends at once; a number is at most 2 behind the newest. The initial number is arbitrary, so wrap-around falls everywhere. |
| `replay_window` | `IInv`: the inductive invariant of the proofs. `ImplementsFilter`: the verdict on any number, at any time, is that of a filter which forgets nothing. | `HalfSpace = 10`: 20 numbers, a window of 3, jumps up to 4: the set is pruned, numbers come round, arrivals fall before, in and ahead of the window. |
| `handshake` | `HandshakeInv`: enforcement is armed by a HELLO only, of an epoch the client has reached. `RetryAlive`: an unconfirmed handshake has a send or a timer under way. `HandshakeIsKept`: no late HELLO, expired session or packet lowers an epoch or takes a handshake back. | 2 ports of one address (interchangeable), 2 epochs over any number of starts, each of which may raise, keep or lower the epoch, 2 HELLO sends or timers at once, restarts of the server |
| `reliable_server` | `ServerInv`: the tables agree, a window refuses what was dispatched through it, the loss window. `GuardOutlivesSession`. `NeverReplayed`: under an epoch no payload is dispatched twice, whatever expires, is evicted and comes back. `OldStartOnlyIfParked`: with bound headers an old start gets in only if it was being decompressed when the new one was announced. | 10 numbers, window 2, gap table 1. Three peers at two addresses: one restarts with lower numbers, one is legacy (no epoch), one sends HELLO only. 2 sessions, 1 per address, 2 guards: each limit is reached. 1 packet parked. Authentication options all off or all on. |
| `metadata_sync` | `MetadataInv`: a failed send leaves no trace in the change cache. `AppliedOnce`: a session that sees no restart applies no chunk twice. `StragglersLand`: a late chunk of a recent envelope is applied. | 10 numbers, window 2, restart threshold 2, 3 chunk indexes; 2 keys with one entry per packet, so a snapshot has two chunks; 3 envelopes in 2 runs of the sender, 2 sends at once, one change, one session that may end. |
| `delta_pipeline` | `PipelineInv`, which contains the inductive invariant of the proofs: a settled connection has accepted the current value of every leaf, whatever pauses overlap. `RestartedIsReprimed`: a restarted receiver gets every leaf back. `ReceiverFollows`: small steps do not add up beyond the deadband. | Two leaves, one with a deadband and one without a rule; buffer 2, batch 1, 1 entry of duplicate suppression, 1 replay, 3 values published, one of them before the start, 2 faults. With a batch of 1 the buffer fills and overflows while a batch is being sent, and the splice removes what was not; longer batches are covered by the theorems. |
| `connection` | `TimersInv`: a connection that waits has a timer for it. `NothingOutlivesStop`. `NoOrphans`: what runs is in the registry. `LatestStartStands`. | A server and a client (v3 with bonding and congestion control, or v1), 2 starts, 1 stop, 2 faults, 1 edit of a subscription, 1 recovery of a watcher. Two starts and a stop give every overlap of a start with what supersedes it. |
| `bonding` | `BondingInv`: one active link, a broken socket has its recovery armed. `NoFlapping`: health moves traffic only off a dead primary or after its dwell. `TrafficFollowsHealth`: it settles on a healthy link. | One link bound to an interface and one not; a timeout of 1 check, dwell 2, failback delay 3, so that the three differ; 1 forced switch, 2 faults. |
| `management` | `ManagementInv`: who may use the API follows from the configuration, also while the plugin is stopped. `AcceptedIsKept`: accepted changes are kept, with the exceptions listed below. `FileIsWhole`: no reader sees half a file. | 3 requests, 3 restarts pending, 1 token, none in the environment and none demanded by it, two writers of one file, 1 failure or crash. |

`HandshakeLive.cfg` is a further configuration of `Handshake`, with one epoch and
without a symmetry: `HelloGetsThrough`, a HELLO that is not confirmed gets
through, holds with the fairness below.

**Why small bounds suffice.**  The tracker and the server compare numbers only
through distances, so the space need only be large enough to separate the classes
of `Classify`: 16 numbers leave room for the window, the gap table and the resync
threshold below the half space, and for numbers beyond each of them.  The
theorems then drop the bound altogether, for every state machine.  In the
batcher `MaxDeltas` bounds a behaviour, not a state of the code; with 5 deltas the
buffer fills, overflows and is trimmed, refills to its cap and drains.  A table at
its limit behaves alike for every limit, so the server has limits of one and two;
three peers are needed for one to be evicted by the other while the third shares
an address.  An await can be overtaken by one stop and one more start; the second
start's own awaits repeat the first's.  The hazards of the metadata channel need
two envelopes of one run and one of the next.

**Fairness.**  A timer that is armed fires, and a queued flush runs: these are
the event loop's own guarantees, and `Stop` or a re-baseline may disarm them.
`sequence_tracker` uses weak fairness of the NAK timers and the flush,
`delta_batcher` of the delta timer, the retry timer, the drain and of the
sends settling one way or the other (no recovery is fair: the property holds as
long as the connection can send); `reliable_sender` of the burst timer and of the burst's
awaited sends.  The burst timer's fairness is of a tick that finds a socket and
finds no packet retransmitted within the last burst interval: a NAK for the same
packets cannot come within every interval for ever because each spends budget.
`bonding` uses weak fairness of the health check, which is an interval, of the
recovery timers and of binds; nothing makes a peer answer, and the property says
what follows if one keeps answering or keeps silent.
In `Handshake` the retry
timer and the awaited HELLO are weakly fair, a client that can send data keeps
sending it, and a datagram that is sent again and again arrives now and then
(strong fairness of `ReceiveHello` and of a fresh `ReceiveData`): without that a
link that delivers nothing would refute every promise of a handshake.  Neither the
keepalive nor the delivery of a control packet is fair.  In the other modules no
arrival of a datagram and no success of a send is fair.

**Deadlock.**  Checked wherever the system cannot stop.  `CHECK_DEADLOCK FALSE` is
said by `DeltaBatcher`, `MCReliableServer`, `MCBonding` and `MCConnectionManager`,
in which what is stopped is at rest, and by `MCMetadataSync`, `MCDeltaPipeline`
and `MCManagement`, in which a behaviour ends when its bounds are used up.

## Proofs

All theorems hold for every value of the constants that the named assumptions
allow, and are checked by TLAPS to the last leaf.

**Serial arithmetic and trackers** (`SequenceProofs`).  Addition and distance on
the circle are inverse to each other and distances from one number tell numbers
apart.  Every later argument about the window is carried out on such distances,
where wrap-around has disappeared.  The second half is about the operators of
`SequenceTrackerOps` on any tracker: each keeps `TInv`, what is true of a tracker
between two calls, and settling a number, by its arrival or by giving it up, moves
the window over nothing but received numbers and that one (`Settles`).
`SessionProofs` uses it for the one tracker of `SequenceTracker`, `ServerProofs`
for those of all sessions.

**Sequence tracker** (`SessionProofs`), from `TrackerAssumption`: the
window, the gap table and the resync threshold are positive and small compared
with half the space.

- `InductiveInvariant`: `Spec => []IInv`.  None of the properties is inductive
  alone.  That timers sit exactly on the gaps needs that the head of the window
  is missing (otherwise the advance would leave a timer on a number received) and
  that everything remembered lies near the window (otherwise a wrapped number
  would look missing).  That a payload is handed on once needs that what is
  buffered ahead was handed on or given up.  That the counters are exact needs
  that no NAK state outlives its timer.  `IInv` is the conjunction, and the proof
  has one lemma per kind of step: accept in order, accept ahead, abandon, trim,
  timer, flush, resync, reset.
- `GapsAreTimed`, `NoStrayNAKState`, `TrackerIsBounded`, `AtMostOnce`,
  `TypeCorrect`: consequences.  `TrackerIsBounded` shows that the eviction branch
  of `_scheduleNAK` is never reached.
- `FullBudget`, `AckCoversSettled`: action properties.  The second has a
  precondition on the parameters, `MaxGapTracking < BehindResyncThreshold`: with
  a gap table as large as the resync threshold, a number the window has just
  passed could be taken for a resync.  The defaults satisfy it.
- `HeadGetsOn`: the argument behind `PinnedProbeMoves`, for every number.  The rank
  `RoundsLeft` of the number the window waits for has two turns to a NAK round (its
  timer queues the NAK, the flush sends it) and is at most `2 * MaxNakRounds`.  The
  timer whose turn it is is armed; no step that leaves the window waiting for the
  number raises the rank or forgets what is buffered ahead, whatever datagrams
  arrive; the number's own turns lower it.  The step that would go below 0 gives the
  number up, and the window moves.

**Delta batcher** (`OutboundProofs`), from `BatcherAssumption`: a trim removes
at least one delta and leaves room for a batch.

- `InductiveInvariant`: the awaited send, the back-off and `inFlight` exclude each
  other; the awaited batch starts at or before the head and what the splice will
  remove is still there, because a trim leaves at least a batch; the counters
  balance; the deltas of a batch were tried as often as its count says
  (`AttemptsCounted`), and a batcher that was stopped is empty.
- `DroppedWereTried`, `BatchesAreInOrder`: action properties.  The first needs
  `AttemptsCounted`, which is what a trim during a send breaks and why the property
  excepts it.
- `NoDeltaUnaccounted`, `OneSendAtATime`, `SentOnce`, `BufferIsCapped`,
  `TypeCorrect`: consequences.
- `EveryTurnDrains`: the argument behind `BufferDrains`.  `Turns` counts what a
  batch may still take, with two turns to an attempt (the send settles, the back-off
  fires) and the batch timer before them, at most `2 * MaxRetries + 3`.  While a
  delta waits and the client can send, no step sets the head or the count back, and
  every turn (`HelpfulTurn`), also that of a send that fails, moves the head or
  lowers the count.

**Replay window** (`ServerProofs`), from `WindowAssumption` and
`JumpAssumption`: the window is smaller than half the space, arrivals are at most
`MaxJump` ahead, and `Size + MaxJump * Size + MaxJump < SeqSpace`.

- `InductiveInvariant`: within the window the set is what was accepted.  That is
  not inductive alone, because the set also holds older numbers: were one of them
  still there when the numbers come round, it would refuse a fresh packet.
  `EntriesRecent` excludes that.  Every advance adds an entry and moves the others
  back by at most `MaxJump`, and the set is pruned when it holds `Size + 1`, so an
  entry lies at most `Size + MaxJump * |seen|` behind.  With a window of 1024 in
  2^32 numbers this allows losses of four million packets in a row.
- `NeverTwiceNeverLost`: `accept` refuses what was accepted or is too old, nothing
  else.
- `Implements`: `WindowSpec => Abstract!Spec`, each `Receive` being the filter's
  `Receive` of the same number with the same verdict.

**Server** (`ServerProofs`), from `ServerAssumption`, which has the comment "so
guards outlive sessions" of the code as `MaxSessions <= MaxGuards`.

- `ServerSafe`: the inductive invariant `ServerIInv`.  The handlers are
  compositions of look-ups, each of which may evict and insert, so the proof
  speaks of the record of all tables and of what each operator makes of it.
  `Agree` says which tables agree (limits; order lists without repetition, with an
  entry for exactly the live peers; whoever touched its guard after a session
  that has received data has a session more recent than that one) with a set of peers for which the next look-up has
  yet to restore it.  `ParkedAreCurrent` says what a decompression that is under
  way may still find.
- `TablesAgree`, `GuardsOutliveSessions`: consequences.  That each table evicts its
  *own* oldest entry and still no guard is evicted before its session rests on the
  two orders being the same (`RecencyAgrees`) and on `MaxSessions <= MaxGuards`.
- `ParkedStayCurrent`, `OldStartsEnd`: the second is the action property, from the
  first.
- `NothingReplayed`: `NumbersFit` is its hypothesis: the numbers of all packets of a
  peer, those of its earlier starts included, lie within half the space of one
  number.  This is so for one start of fewer than 2^31 packets, and for several
  whose random first numbers are not nearly opposite.  Without it the statement is
  false: when data of an old start meets a window that half the space of numbers
  has passed, it counts as new.  The invariant added for it (`WindowsRefuse`) is
  that a window refuses whatever was dispatched through it; a window that has
  advanced goes on refusing it (`StillRefused`) because within half the space "is
  ahead of" is an order (`ArcOrder`).
- `ServerStaysSound`: `ServerInv`, and with it the types of the sessions and
  `LossIsARatio`, under `NumbersWithin(HalfSpace - 1)`: the same with one number
  less, because the expected number is one past the last.  A number exactly
  opposite the expected one is neither ahead nor behind, and the code records and
  counts it although it may have been counted before.  The invariant added
  (`LossOf`): the loss window has counted at most as many numbers as lie between
  its base and its highest number and are not fresh, being behind the expected
  number or in the received set.  A fresh number joins that set (`FreshCounts`);
  late numbers, abandonments and trims leave it no smaller (`SettledLoss`); a
  resync, a restart and a new session start over.

**Metadata** (`SessionProofs`), from `MetadataAssumption`: finitely many metadata
keys, envelopes below half the space.

- `MetadataSafe`: two invariants side by side.  `SenderInv`: typed senders, and what
  the change cache holds was sent to its last chunk, whatever sends, diffs and
  snapshots overlap (`CachedWasSent`).  `ReceiverInv`: each session's window ascends
  and is within its limits, and an applied chunk is remembered as long as its
  envelope is in the window; this has to be said of every session ever made, since
  one that has ended may still filter a chunk whose decompression it started.
- `CachedWereSent`, `ChunksApplyOnce`, `StragglersAlwaysLand`: invariant and action
  properties from it.

**Value deduplication** (`OutboundProofs`), from `DedupAssumption`.

- `DedupSafe`: the inductive invariant `DedupIInv`.  That the caches agree is not
  inductive, since packets are on the way: what is preserved is that decoding them
  one after the other with the receiver's cache gives the sender's, each value
  restored as it was sent.  Both ends evict by the order of writing, so the
  agreement is of ordered lists: the sender's is a suffix of the receiver's.  A
  receiver with entries of an earlier start at the front evicts those first, and
  that a write keeps the one list a suffix of the other is a lemma of its own.
- `CachesStayInStep`, `RestoredInStep`, `VesselsKeepApart`: the last holds without
  any condition on the link.

**Reliable sender** (`SenderProofs`), from `SenderAssumption` and
`HalfSpaceAssumption`.

- `InductiveInvariant`: `Spec => []SenderInv`.  The queue is bounded,
  budgets are kept, and an acknowledged number is not in the queue.  Late ACKs and
  wrap-around make the last part hard: that a removal takes exactly what is
  acknowledged (`AckRemovesExactly`) needs that every number in use is recent,
  which is the part `Ages` of the invariant.
- `BudgetIsShared`: a packet is charged before its awaited send, so NAK handlers,
  burst and first send share its budget although they overlap.
- `NoHoleIsTorn`: as an action property, from the same invariant and two lemmas
  on the oldest numbers of the queue.
- `BurstSpendsBudget`: the argument behind `BurstEnds`.  While a burst goes on
  nothing is queued and no budget is restored (`NothingReturns`), a step takes up
  sends only for packets it charges (`Spends`), a send that ends leaves fewer, and a
  tick of the timer that finds a socket and nothing sent just before charges some
  packet, unless it ends the burst.

**Delta pipeline** (`SenderProofs`), from `PipelineAssumption` and
`ThrottleAssumption`: any finite tree, any rules, caps and precisions, any number of
replays under way.

- `PipelineSafe`: the inductive invariant `PipelineIInv`, which `PipelineInv`
  contains and the run checks.  It speaks of what is being sent as well as of what
  waits: `ToBeShown` is what the receiver has once it has what is being sent,
  `Waiting` the rest of the buffer, and what an overflow or a splice cuts from that
  rest is in `lost`.  The three properties look at a client that has
  drained; the parts say what they rest on before it has.  `MissedIsFed`: while
  nothing pauses, a current value that was not accepted is in a replay under way.
  `Dated`: whatever is buffered or replayed is as old as the tree or older, so a
  replay that comes late takes nothing back unnoticed.  `PrimedIsKept`: what a
  restarted receiver should have it has, or it is buffered, or it comes with a
  replay that nothing remembered keeps out; a pause may cut that replay short, and
  the leaf is then left to the replay that ends the pause, for which it matters
  that its current value is not among the deltas remembered.
  `ThrottleTells`: what the throttle remembers of a leaf is what the receiver has,
  so that a drop is measured against the right value; an entry may be evicted, and
  a leaf without one is sent.  `LastIsShown`: the last delta of a leaf in the buffer
  is the one accepted last, and without one the receiver shows it.
- The batch is the other half of the argument.  `Stages` goes through it delta by
  delta; `Handed` is the invariant of that walk (what comes out, what the throttle
  then says, and that the last delta of a leaf comes out or is within the deadband
  of what did), shown for every prefix by the least one that would break it
  (`StagesKeep`).
- `PipelineStaysSound`, `RestartedAreReprimed`, `ReceiverAlwaysFollows`: the three
  properties of the run.  The last is where small steps could add up: a dropped
  delta leaves the throttle as it is, so the next is measured against what the
  receiver has and not against what was dropped.

**Handshake** (`ClientProofs`), for any ports and any number of starts, with epochs
that rise, stay or fall.

- `HandshakeSound`: client part and server part are preserved one by one
  (`ClientOK`, `ServerOK`), with the messages on the way between them.  The
  counters of sends and timers and the handle have to be tied together: a handle
  that is set means a timer that is armed, which is what keeps `RetryAlive` when
  one timer's callback clears the handle of another.
- `RetryStaysAlive`, `HandshakesAreKept`: consequence and action property.

**Bonding** (`ClientProofs`), from `BondingAssumption`: whatever the timeouts,
delays and bounds.

- `LinksStaySound`: `BondingSpec => []BondingInv`, link by link (`Linkwise`): a step
  changes one link or checks both in turn.
- `TrafficDoesNotFlap`: needs of the invariant that the two clocks of the code
  are anchored where traffic came to rest: the clock since the last failback while
  it is on the primary, since the last failover while on the backup.

**Congestion control** (`ClientProofs`): lemmas of arithmetic, then
`AdjustStaysWithin` (one adjustment ends within the bounds from *any* timer, also
one that a manual override left outside), `AdjustMovesToNominal` (on a healthy
path never away from the nominal value outside the dead zone of rounding) and
`AdjustStaysNear` (once there, within it).

**Connection manager** (`ConnectionManagerProofs`), from `ManagerAssumption` and
`ConnectionAssumption`: any names, configurations, starts, stops and faults.

- `ManagerSafe`: of each connection `Sound` (what it holds fits its lifecycle state
  and the await it is at) and, across every step, `Evolves` (a stopped connection
  stays stopped and gains nothing but what its own rollback takes away again); of
  each start, that its phase agrees with the connections it made; generations are
  unique, and the registry belongs to the start that stands.
- `RunningIsRegistered`, `LatestStands`, `StopLeavesNothing`,
  `TimersStandWhereTheyMust`: the four properties of the run.  The third needs that
  a start which was superseded is either still going to roll back, or has.

**Management** (`ManagementProofs`), from `ManagementAssumption` and
`ConfigFileAssumption`: the first configuration and the connections given are
legal ones, which the plugin's own validation demands (a key, ports that do not
collide), and the bodies that writers save are told apart.

- `ManagementSafe`: `ConfigsInv`, every configuration that is stored, live, pending or
  wanted could be started; `Course`, what the pending restarts will leave is what
  the requests accepted make one after the other, unless one of the races of
  `AcceptedIsKept` disturbed it; `FilesInv`, how far a save is tells what its
  temporary file holds.
- `FileStaysWhole`, `AcceptedStays`, `ManagementStaysSound`: the properties of the
  run.

Properties that hold and are stated by theorems only, as parts of an invariant a
run checks: `GapsAreTimed`, `NoStrayNAKState`, `TrackerIsBounded`,
`NoDeltaUnaccounted`, `OneSendAtATime`, `SentOnce`, `BufferIsCapped`,
`NeverTwiceNeverLost`, `ValueRestoredInStep`.

## Disagreements found

The first five are stated as properties that the model violates.  To see a
behaviour, name the property in the configuration given.

1. `DroppedBatchWasTried` (a `PROPERTY` in `DeltaBatcher.cfg`).  After the await,
   `flushDeltaBatch` splices `actualBatchSize` deltas off the head of the buffer
   *as it is then* (`src/src/domain/delta-batcher.ts:141`, `:182`).  If the buffer
   overflowed meanwhile, the head was already trimmed, and the splice removes
   deltas that were never sent; a failed batch logs them as dropped "after N
   failed attempts".  The counters still balance, which is why a test on the
   counters does not see it.  `DeltaPipeline` has the race too, and counts the
   leaves it costs among the `lost`.
2. `ValueRestored` (an `INVARIANT` in `MCValueDedup.cfg`).  A lost, overtaken or
   failed packet leaves the two caches apart, and the next sentinel expands to an
   older value, although the header comment says that the receiver restores the
   value.  With `SPECIFICATION ReconnectSpec`, a perfect link whose session is
   replaced: "on (re)connect, both caches start empty" is not so, the client's
   cache survives a socket recovery and the new session drops every unchanged
   value.
3. `HandshakeCompletes` (a `PROPERTY` in `HandshakeLive.cfg`).  Any control packet
   ends the HELLO retries, because it "proves it has a session bound to this
   source port, which is exactly what HELLO establishes".  DATA opens a session as
   well, and its ACK may come before any HELLO has arrived: a lost first HELLO then
   leaves the server without the epoch, the outcome the retries are there to
   prevent.
4. `DataIsAcceptedAgain` (a `PROPERTY` in `HandshakeLive.cfg`).  The periodic HELLO
   is said to survive NAT rebindings, but is sent only by an idle client.  DATA of
   a busy one arrives from a port without a handshake at a known address and is
   dropped without an answer.  With the default intervals the heartbeat alone
   keeps the client from being idle.
5. `PauseEnds` (an `INVARIANT` in `MCConnectionManager.cfg`).  The comment at
   `src/src/domain/subscription-manager.ts:160` says that without the retry
   an instance would stay paused "until the next config change".  A configuration
   change cancels the pending retry (`:423`) and never sets `readyToSend`, so it
   is what makes the pause last.

Read while modelling, and carried by the models as the code has them:

*Sender and link.*  Packets given up by a recovery burst
(`reliable-client/reliability.ts:118`) are not counted in `packetsAbandoned`,
which `docs/metrics.md:57` describes as the packets dropped from the retransmit
queue.  A new handshake attempt "supersedes any in-flight retry schedule"
(`lifecycle.ts:109`), but a HELLO being sent at that moment arms its timer all the
same, and two schedules run until a control packet comes.  The congestion control
is said to "converge" (`congestion.ts:158`); by rounding it oscillates around a
nominal value of 990 ms between 980 and 1000, within the band that
`AdjustStaysNear` gives.  A link whose new socket cannot be created stays down
for good, and a forced failover may select a link that is down.

*Server.*  `getOrCreateSession` evicts the least recent session before it checks
the limit per address (`sessions.ts:44`), so a refused newcomer costs a session.
DATA of the old start that is decompressed when the new HELLO comes re-baselines
window and tracker of the new one; `OldStartOnlyIfParked` says that this is the
only way.  `stop` clears sessions and guards but not the handshaked addresses.
DATA is acknowledged before its payload is parsed.  A restart of the metadata
sender is recognised by envelope 0 alone, with 8 or more envelopes before: if that
envelope is lost, or the run before was shorter, envelopes are refused until the
counter has passed the old one, and a delayed copy of envelope 0 is taken for a
restart.  A snapshot whose cache is replaced after a concurrent diff was committed
leaves older metadata in the change cache.  At the receiver a late chunk of an
envelope that is still in the window is applied after a newer envelope, so that
the older of two values of a key may be the one that stays.

*Pipeline.*  A replay may overtake a newer live delta.  A rule with an interval
drops the last value of a burst.  The throttle advances when a batch is prepared,
not when it is sent (`throttle.ts:17` says "last sent").  A replay of more deltas
than the buffer holds overflows it, because the pump does not wait for flushes.
A FULL_STATUS_REQUEST within 10 s of the one before is dropped and never made up
for.  The merged record of the source registry takes over the time of an older
update, although `docs/GUIDE.md:2307` says that the latest wins (`LatestWinsOfTwo`
holds, its counterpart for three does not).  `quantize.ts:13` says that halves are
rounded away from zero; `Math.round` rounds them up.

*Connection.*  The timer of the source snapshots is armed after the awaited HELLO
without a look at `stop` (`start-client.ts:228`); the rollback of the superseded
start stops the instance once more, which is why `NothingOutlivesStop` holds.  The
snapshot sent at start is always skipped, since `readyToSend` is still false
(`start-client.ts:230`).  A successful subscription leaves `pendingMetaConfig` of
an older one.  Edits of a file between its rename and the new watcher are missed,
and a watcher is given up after ten attempts.

*Management and configuration.*  Accepted changes are lost when a request to
`/instances` comes between two restarts that are pending, overlaps a pending
`/plugin-config`, follows a stop and start with a restart outstanding, or when the
host's save fails; `AcceptedIsKept` names exactly these.  The panel's comment
(`PluginConfigurationPanel.tsx:968`) says that the environment's token takes
priority; `routes.ts:185` looks at the option first.  `epochBoundAuth` survives a
change of a form from v3 to v1 and is refused, although the comment near `:645`
says that a stale flag cannot be left.  A `retransmitMinAge` above the maximum is
refused only if both are given.  A recovery burst with an interval of more than
2 s, which is accepted, exceeds what the server's rate limit lets through.

## Limits

*Only model-checked:* all liveness properties (the provers have no `ENABLED`).  Of
`PinnedProbeMoves`, `BufferDrains` and `BurstEnds` everything but the use of
fairness is proved (`HeadGetsOn`, `EveryTurnDrains`, `BurstSpendsBudget`: no step
sets back, and each step that must come lowers a bounded rank).  Of the others, in
particular `TrafficFollowsHealth` of bonding, nothing is.  Also only model-checked:
what the operator modules other than `Congestion` promise, which TLC evaluates
over small inputs (their recursive operators are beyond the provers).

*Assumed of time:* two entries of a table of the server are never touched within
the same millisecond, which is what makes its order of eviction definite.

*Left out at the server:* the periodic ACK awaits one send per session and then
writes `lastAckSeq` and `lastAckSentAt` of a session that may have been reset
meanwhile.  All that they decide is whether the next period repeats an ACK, and
`ReliableServer` has neither; in `Handshake` an ACK may be sent at any time.  The
cache of values that a session keeps across a restart of its client is in
`ValueDedup` and not in `ReliableServer`.

*Abstracted:* payloads, encryption, compression and framing (a packet is its
number, its kind and at most one value); clock values (an expiry may happen
whenever its timer is armed, or takes the oldest; bonding counts health checks);
the estimators of RTT and loss (a quality or a condition is chosen); names and
texts; log messages and metrics other than those a property is about.

*Consequences.*  Statements that compare two intervals of wall-clock time are out
of reach: that a silence of 4 s never comes about between ACKs of every second
(so that the last packets of a flow are not sent again by a burst) is listed as a
hazard without a property.  In `DeltaPipeline` the link is perfect, in
`MetadataSync` sends fail but sockets do not recover, and in `ConnectionManager`
packets do not appear: the modules meet where the code's own interfaces are, and
their composition is not checked.

*Not modelled:* encryption and compression and the v1 pipeline (library calls and
datagrams without protocol state), path dictionary and compact encoding
(stateless tables), the UDP socket manager (a socket is bound, failed or closed in
`Connection`), metrics, monitoring and alerts (they observe and decide nothing),
foundation, the command line, requests that only read, DNS resolution.  Their
status and reasons are in `PROJECT.json`.

## Plan

What could follow, in the order of importance:

1. `ReliableLink`: `SequenceTrackerOps` and the operators of `ReliableSender`
   composed over a lossy network; refinement of an abstract channel that delivers
   each packet at most once and reports what it gives up; liveness: each packet is
   delivered or given up.
2. A module with a clock for the intervals of ACKs, bursts and heartbeats.
3. Alerts with their hysteresis and cooldown, the fixed-window rate limiter.
