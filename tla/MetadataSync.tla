---------------------------- MODULE MetadataSync ----------------------------
(***************************************************************************)
(* Metadata on its way from the tree of one Signal K server to another:    *)
(* the streamer (src/domain/metadata-streamer.ts) with its change cache,   *)
(* the sender of envelopes, a network that delivers any chunk ever sent,   *)
(* late and repeatedly, and the sessions of the receiving end.             *)
(*                                                                         *)
(* A key is a context and a path, its metadata a value; Unset is a node    *)
(* whose metadata is missing or holds only unset placeholders.  Timers are *)
(* flags whose firing is a step.  A send waits after every chunk, so sends *)
(* interleave; a METADATA packet waits for its decompression with the      *)
(* session it was looked up for, which may be gone when the wait ends.     *)
(***************************************************************************)
EXTENDS EnvelopeDedup

CONSTANTS
  Keys,               \* contexts with paths
  SelfKeys,           \* those of vessels.self
  Included,           \* those that includePathsMatching lets through
  Values, Unset,
  MaxPathsPerPacket,
  MaxEnvelopes,       \* bound: envelopes of all starts of the client
  MaxRuns,            \* bound: starts of the client
  MaxSends,           \* bound: sends under way at once
  MaxChanges,         \* bound: changes of the tree
  MaxSessions         \* bound: sessions made for the client

ASSUME MetadataAssumption ==
  /\ SelfKeys \cup Included \subseteq Keys
  /\ IsFiniteSet(Keys) /\ Unset \notin Values
  /\ {MaxPathsPerPacket, MaxEnvelopes, MaxRuns, MaxSends, MaxSessions}
       \subseteq Nat \ {0}
  /\ MaxEnvelopes < HalfSpace

VARIABLES
  tree,          \* the metadata in the sender's Signal K tree
  selfKnown,     \* the tree tells the vessel's own context
  client,        \* state of the running client, see Client below
  sends,         \* sendMetadata calls under way
  wire,          \* the chunks sent so far
  session,       \* the number of the live session (0: none)
  sessions,      \* the sessions made so far, dead ones included
  parked,        \* packets being decompressed
  changes, run,
  spent          \* envelopes of earlier runs

counters == <<changes, run, spent>>
senderVars   == <<tree, selfKnown, client, sends, counters>>
receiverVars == <<session, sessions, parked>>
metadataVars == <<senderVars, wire, receiverVars>>

Metadata == Values \cup {Unset}
Entry == Keys \X Values
None == [k \in Keys |-> Unset]

(* cache and gen are the MetaCache, buffer metaDiffBuffer; done holds the  *)
(* entries whose send has succeeded in this run.                           *)
NewClient == [cache |-> None, gen |-> 0, buffer |-> <<>>,
              flushArmed |-> FALSE, nextSeq |-> 0, done |-> {}]

(* applied: the chunks applied since the channel was last reset. *)
NewSession == [channel |-> NewChannel, applied |-> {}, twice |-> FALSE]

-----------------------------------------------------------------------------
(* collectSnapshot: every included node that has metadata. *)
CollectSnapshot ==
  SetToSeq({<<k, tree[k]>> : k \in {k \in Included : tree[k] # Unset}})

(* extractLiveMeta: the metadata of one key of a delta.  Entries of        *)
(* vessels.self are skipped until its context is known.                    *)
ExtractLiveMeta(k, v) ==
  IF v = Unset \/ k \notin Included \/ (k \in SelfKeys /\ ~ selfKnown)
  THEN <<>> ELSE <<<<k, v>>>>

(* MetaCache.computeDiff: the others leave their places empty. *)
ComputeDiff(cache, entries) ==
  Restrict(entries, {i \in DOMAIN entries :
                       cache[entries[i][1]] # entries[i][2]})

(* MetaCache.commit: of two entries for a key the later one counts. *)
Commit(cache, entries) ==
  [k \in Keys |->
     LET places == {i \in DOMAIN entries : entries[i][1] = k}
     IN  IF places = {} THEN cache[k] ELSE entries[Max(places)][2]]

(* MetaCache.replaceAll *)
Replaced(entries) == Commit(None, entries)

(* splitIntoPackets: how many chunks it makes. *)
PacketCount(entries) ==
  LET n == MaxPathsPerPacket
  IN  (Cardinality(DOMAIN entries) + n - 1) \div n

MaySend ==
  /\ spent + client.nextSeq < MaxEnvelopes
  /\ Cardinality(sends) < MaxSends

(* sendMetadata up to its first await; c is the client it is called in. *)
StartSend(c, entries, kind) ==
  IF DOMAIN entries = {} THEN client' = c /\ UNCHANGED sends
  ELSE /\ client' = [c EXCEPT !.nextSeq = Plus(@, 1)]
       /\ sends' = sends \cup {[kind |-> kind, gen |-> c.gen,
                                seq |-> c.nextSeq, idx |-> 0,
                                entries |-> entries]}

-----------------------------------------------------------------------------
MetadataInit ==
  /\ tree \in [Keys -> Metadata]
  /\ selfKnown \in BOOLEAN
  /\ client = NewClient
  /\ sends = {} /\ wire = {} /\ parked = {}
  /\ session = 0 /\ sessions = <<>>
  /\ changes = 0 /\ run = 1 /\ spent = 0

(* A provider changes the metadata of a node; the delta passes             *)
(* processDelta and enqueueMetaDiff.                                       *)
Change(k, v) ==
  LET live == ExtractLiveMeta(k, v) IN
  /\ changes < MaxChanges
  /\ v # tree[k]
  /\ tree' = [tree EXCEPT ![k] = v]
  /\ client' = IF live = <<>> THEN client
               ELSE [client EXCEPT !.buffer = @ \o live, !.flushArmed = TRUE]
  /\ changes' = changes + 1
  /\ UNCHANGED <<selfKnown, sends, run, spent, wire, receiverVars>>

SelfBecomesKnown ==
  /\ ~ selfKnown
  /\ selfKnown' = TRUE
  /\ UNCHANGED <<tree, client, sends, counters, wire, receiverVars>>

(* flushMetaDiff, the debounce timer. *)
FlushMetaDiff ==
  /\ client.flushArmed
  /\ MaySend
  /\ StartSend([client EXCEPT !.flushArmed = FALSE, !.buffer = <<>>],
               ComputeDiff(client.cache, client.buffer), "diff")
  /\ UNCHANGED <<tree, selfKnown, counters, wire, receiverVars>>

(* sendMetadataSnapshot, at any time: the periodic timer, the timer of     *)
(* scheduleMetadataSnapshot or a META_REQUEST that is not too soon.        *)
SendMetadataSnapshot ==
  /\ MaySend
  /\ StartSend(client, CollectSnapshot, "snapshot")
  /\ UNCHANGED <<tree, selfKnown, counters, wire, receiverVars>>

(* The next chunk leaves. *)
SendChunk(s) ==
  /\ s.idx < PacketCount(s.entries)
  /\ wire' = wire \cup {[run |-> run, seq |-> s.seq, idx |-> s.idx]}
  /\ sends' = (sends \ {s}) \cup {[s EXCEPT !.idx = @ + 1]}
  /\ UNCHANGED <<tree, selfKnown, client, counters, receiverVars>>

(* Defect: what is to be sent is remembered as if it had been. *)
CacheAfterAttempt(c, s, sent) ==
  IF s.kind = "snapshot" THEN Replaced(s.entries)
  ELSE IF c.gen = s.gen THEN Commit(c.cache, s.entries)
  ELSE c.cache

(* Only what was sent is remembered, a diff only if the cache has not been *)
(* cleared meanwhile.                                                      *)
CacheAfter(c, s, sent) ==
  IF ~ sent THEN c.cache
  ELSE IF s.kind = "snapshot" THEN Replaced(s.entries)
  ELSE IF c.gen = s.gen THEN Commit(c.cache, s.entries)
  ELSE c.cache

(* sendMetadata has returned, or thrown at a chunk. *)
SendEnds(s) ==
  LET sent == s.idx = PacketCount(s.entries) IN
  /\ client' = [client EXCEPT
                  !.cache = CacheAfter(client, s, sent),
                  !.done = IF sent THEN @ \cup Range(s.entries) ELSE @]
  /\ sends' = sends \ {s}
  /\ UNCHANGED <<tree, selfKnown, counters, wire, receiverVars>>

(* The subscriptions are made anew: metaCache.clear. *)
Resubscribe ==
  /\ client.gen < MaxChanges
  /\ client' = [client EXCEPT !.cache = None, !.gen = @ + 1]
  /\ UNCHANGED <<tree, selfKnown, sends, counters, wire, receiverVars>>

(* The client restarts, from the same address and port. *)
ClientRestarts ==
  /\ run < MaxRuns
  /\ run' = run + 1
  /\ spent' = spent + client.nextSeq
  /\ client' = NewClient
  /\ sends' = {}
  /\ UNCHANGED <<tree, selfKnown, changes, wire, receiverVars>>

-----------------------------------------------------------------------------
(* handleMetadataDispatch up to the await of the decompression. *)
ReceiveMetadata(chunk) ==
  /\ parked = {}
  /\ parked' = {[chunk |-> chunk, session |-> session]}
  /\ UNCHANGED <<senderVars, wire, session, sessions>>

(* The verdict of shouldDropEnvelopeBySeq on a chunk, in a session. *)
Apply(s, chunk) ==
  LET f     == Filtered(s.channel, chunk.seq, chunk.idx)
      reset == LooksRestarted(s.channel, chunk.seq)
      old   == IF reset THEN {} ELSE s.applied
  IN  [channel |-> f.channel,
       applied |-> IF f.apply THEN old \cup {chunk} ELSE old,
       twice   |-> s.twice \/ (f.apply /\ chunk \in old)]

(* processMetaEnvelope: the session looked up before the await, or the one *)
(* that is found or made after it.                                         *)
ProcessMetaEnvelope(w) ==
  LET s   == IF w.session # 0 THEN w.session
             ELSE IF session # 0 THEN session ELSE Len(sessions) + 1
      all == IF s > Len(sessions) THEN Append(sessions, NewSession)
             ELSE sessions
  IN  /\ s <= MaxSessions
      /\ sessions' = [all EXCEPT ![s] = Apply(@, w.chunk)]
      /\ session' = IF w.session = 0 THEN s ELSE session
      /\ parked' = parked \ {w}
      /\ UNCHANGED <<senderVars, wire>>

(* The session idles out or is evicted; its object may still be held. *)
SessionEnds ==
  /\ session # 0
  /\ session' = 0
  /\ UNCHANGED <<senderVars, wire, sessions, parked>>

MetadataNext ==
  \/ \E k \in Keys, v \in Metadata : Change(k, v)
  \/ SelfBecomesKnown
  \/ FlushMetaDiff \/ SendMetadataSnapshot
  \/ \E s \in sends : SendChunk(s) \/ SendEnds(s)
  \/ Resubscribe \/ ClientRestarts
  \/ \E chunk \in wire : ReceiveMetadata(chunk)
  \/ \E w \in parked : ProcessMetaEnvelope(w)
  \/ SessionEnds

MetadataSpec == MetadataInit /\ [][MetadataNext]_metadataVars

-----------------------------------------------------------------------------
(* The deduplication of a session stays within its limits, whatever        *)
(* envelope numbers and indexes a peer sends: entries of a window are for  *)
(* distinct envelopes, as many as the window holds, with no more indexes   *)
(* than the cap.                                                           *)
MetadataTypeOK ==
  /\ client.cache \in [Keys -> Metadata]
  /\ client.nextSeq \in 0 .. MaxEnvelopes
  /\ \A i \in DOMAIN sessions :
       LET ch == sessions[i].channel IN
       /\ ch.last \in SeqNum \cup {NoSeq}
       /\ Len(ch.window) <= EnvelopeSeqWindow
       /\ Cardinality(WindowSeqs(ch)) = Len(ch.window)
       /\ TotalSeen(ch) <= MaxChunkIndices

(* A failed send leaves no trace: what the change cache holds was sent to  *)
(* the last chunk, so a change is never suppressed in favour of metadata   *)
(* the receiver was never given.                                           *)
CachedWasSent ==
  \A k \in Keys : client.cache[k] # Unset =>
    <<k, client.cache[k]>> \in client.done

(* The limits of the sessions and the change cache, in one. *)
MetadataInv == MetadataTypeOK /\ CachedWasSent

(* While a session sees no restart of its sender it applies no chunk twice, *)
(* although any chunk of any envelope may come again at any time.           *)
AppliedOnce == \A i \in DOMAIN sessions : ~ sessions[i].twice

(* A straggling chunk of a recent envelope still lands: when another chunk *)
(* of its envelope was applied and no more than a window of envelopes has  *)
(* been seen since, its first arrival is applied.                          *)
StragglersLand ==
  [][\A w \in parked :
       LET s   == w.session
           c   == w.chunk
           old == sessions[s].applied
           newer == {d.seq : d \in {a \in old : a.seq > c.seq}}
       IN  (/\ s # 0 /\ w \notin parked'
            /\ c \notin old
            /\ \E d \in old : d.seq = c.seq /\ d.run = c.run
            /\ \A d \in old : d.run = c.run
            /\ Cardinality(newer) < EnvelopeSeqWindow
            /\ Cardinality(old) < MaxChunkIndices)
           => c \in sessions'[s].applied]_metadataVars

=============================================================================
