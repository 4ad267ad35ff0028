----------------------------- MODULE ValueDedup -----------------------------
(***************************************************************************)
(* Same-as-last value deduplication (src/codec/value-dedup.ts).  The       *)
(* client's pipeline replaces a value equal to the last one it sent for    *)
(* the same context and path by a sentinel, and the server's session puts  *)
(* the value back from a cache of its own.                                 *)
(*                                                                         *)
(* The two caches are never compared: they agree only if the session has   *)
(* seen every packet of the pipeline, once and in order.  The client's     *)
(* cache lives as long as its pipeline; the server's is born with the      *)
(* session, a session is born for every new source port, and a client that *)
(* restarts at the same port finds the cache of its last start there.      *)
(*                                                                         *)
(* A packet here carries one value.  A real packet carries several, which  *)
(* go through the same operators in order and share one fate.              *)
(***************************************************************************)
EXTENDS Naturals, SequencesExt

CONSTANTS
  Contexts,     \* vessels
  Paths,
  Values,
  CacheMax,     \* VALUE_DEDUP_CACHE_MAX
  MaxChannel,   \* bound: packets on the way
  NoValue,      \* what the receiver injects when it drops an entry
  Dup           \* DUP_SENTINEL

ASSUME DedupAssumption ==
  /\ CacheMax \in Nat \ {0}
  /\ MaxChannel \in Nat
  /\ {NoValue, Dup} \cap (Contexts \X Values) = {}

VARIABLES
  sender,       \* ClientContext.dedupState.cache, least recently written first
  receiver,     \* ClientSession.valueDedupState.cache, likewise
  channel,      \* packets sent and not yet decoded
  injected,     \* history: the last value handed to Signal K, and its origin
  diverged      \* history: a packet was lost or overtaken, or the session
                \* replaced, since the pipeline was born

dedupVars == <<sender, receiver, channel, injected, diverged>>

-----------------------------------------------------------------------------
Key == Contexts \X Paths

(* Each vessel has values of its own, so that they can be told apart.      *)
(* dedupDelta compares values of the same vessel and path only.            *)
Value == Contexts \X Values

Entry == [key : Key, value : Value]

(* A Map in insertion order: no key twice. *)
Cache ==
  {c \in Seq(Entry) :
     /\ Len(c) <= CacheMax
     /\ \A i, j \in DOMAIN c : c[i].key = c[j].key => i = j}

EmptyCache == << >>

Has(c, k) == \E i \in DOMAIN c : c[i].key = k

PlaceOf(c, k) == CHOOSE i \in DOMAIN c : c[i].key = k

Cached(c, k) == c[PlaceOf(c, k)].value

(* Defect: the context is left out of the key. *)
CacheKeyOfPath(context, path) == <<CHOOSE c \in Contexts : TRUE, path>>

(* cacheKey *)
CacheKey(context, path) == <<context, path>>

(* cacheSet: the key moves to the end; a new one evicts the first. *)
CacheSet(c, k, v) ==
  LET kept == IF Has(c, k) THEN RemoveAt(c, PlaceOf(c, k))
              ELSE IF Len(c) >= CacheMax THEN Tail(c) ELSE c
  IN  Append(kept, [key |-> k, value |-> v])

(* The comparison of dedupDelta. *)
Repeats(c, k, v) == Has(c, k) /\ Cached(c, k) = v

(* dedupDelta for one value: the packet body and the new cache. *)
Dedup(c, k, v) ==
  [body  |-> IF Repeats(c, k, v) THEN Dup ELSE v,
   cache |-> CacheSet(c, k, v)]

(* Defect: expanding a sentinel does not refresh its place. *)
UndedupNoRefresh(c, k, body) ==
  IF body # Dup THEN [value |-> body, cache |-> CacheSet(c, k, body)]
  ELSE IF ~ Has(c, k) THEN [value |-> NoValue, cache |-> c]
  ELSE [value |-> Cached(c, k), cache |-> c]

(* undedupDelta for one value: the value to inject and the new cache. *)
Undedup(c, k, body) ==
  IF body # Dup THEN [value |-> body, cache |-> CacheSet(c, k, body)]
  ELSE IF ~ Has(c, k) THEN [value |-> NoValue, cache |-> c]
  ELSE [value |-> Cached(c, k), cache |-> CacheSet(c, k, Cached(c, k))]

-----------------------------------------------------------------------------
(* origin and cache are history: the value before deduplication, and the   *)
(* sender's cache after it.                                                *)
Packet == [context : Contexts, path : Paths, body : Value \cup {Dup},
           origin : Value, cache : Cache]

NothingInjected == [key |-> << >>, value |-> NoValue, origin |-> NoValue]

DedupInit ==
  /\ sender = EmptyCache
  /\ receiver = EmptyCache
  /\ channel = << >>
  /\ injected = NothingInjected
  /\ diverged = FALSE

(* prepareDeltaPayload deduplicates v for context c and path p, and the    *)
(* packet goes out.                                                        *)
SendValue(c, p, v) ==
  LET d == Dedup(sender, CacheKey(c, p), v) IN
  /\ Len(channel) < MaxChannel
  /\ sender' = d.cache
  /\ channel' = Append(channel, [context |-> c, path |-> p, body |-> d.body,
                                 origin |-> v, cache |-> d.cache])
  /\ UNCHANGED <<receiver, injected, diverged>>

(* The same, but the send throws before the packet is queued for           *)
(* retransmission (compression, no socket): the cache has advanced.        *)
SendValueFails(c, p, v) ==
  /\ sender' = Dedup(sender, CacheKey(c, p), v).cache
  /\ diverged' = TRUE
  /\ UNCHANGED <<receiver, channel, injected>>

(* processDelta of the server decodes the i-th packet on the way. *)
ReceiveValue(i) ==
  LET packet == channel[i]
      u == Undedup(receiver, CacheKey(packet.context, packet.path), packet.body)
  IN
  /\ receiver' = u.cache
  /\ injected' = [key    |-> <<packet.context, packet.path>>,
                  value  |-> u.value,
                  origin |-> packet.origin]
  /\ channel' = RemoveAt(channel, i)
  /\ diverged' = (diverged \/ i > 1)
  /\ UNCHANGED sender

(* The i-th packet on the way is lost for good: its retransmissions are    *)
(* used up.                                                                *)
LoseValue(i) ==
  /\ channel' = RemoveAt(channel, i)
  /\ diverged' = TRUE
  /\ UNCHANGED <<sender, receiver, injected>>

(* The client restarts: a new pipeline.  From a new port it has a new      *)
(* session, and what is still on the way belongs to the old one.  From the *)
(* same port it has the old session, whose HELLO resets the sequence state *)
(* and leaves the value cache alone; what is still on the way may come.    *)
Restart ==
  /\ sender' = EmptyCache
  /\ injected' = NothingInjected
  /\ \/ /\ receiver' = EmptyCache
        /\ channel' = << >>
        /\ diverged' = FALSE
     \/ /\ receiver' = receiver
        /\ channel' \in {channel, << >>}
        /\ diverged' = (channel' # << >>)

(* getOrCreateSession: the server expired or evicted the session, or the   *)
(* client recovered its socket or failed over to another one, whose port   *)
(* is new to the server: what is on the way from the old port belongs to   *)
(* the old session.  The pipeline of the client lives on.                  *)
NewSession ==
  /\ receiver' = EmptyCache
  /\ channel' \in {channel, << >>}
  /\ diverged' = TRUE
  /\ UNCHANGED <<sender, injected>>

DedupNext ==
  \/ \E c \in Contexts, p \in Paths, v \in Values : SendValue(c, p, <<c, v>>)
  \/ \E c \in Contexts, p \in Paths, v \in Values :
       SendValueFails(c, p, <<c, v>>)
  \/ \E i \in DOMAIN channel : ReceiveValue(i)
  \/ \E i \in DOMAIN channel : LoseValue(i)
  \/ Restart
  \/ NewSession

DedupSpec == DedupInit /\ [][DedupNext]_dedupVars

(* A perfect link whose session is replaced under a living pipeline. *)
ReconnectNext ==
  \/ \E c \in Contexts, p \in Paths, v \in Values : SendValue(c, p, <<c, v>>)
  \/ channel # << >> /\ ReceiveValue(1)
  \/ Restart
  \/ NewSession

ReconnectSpec == DedupInit /\ [][ReconnectNext]_dedupVars

-----------------------------------------------------------------------------
(* Both caches stay bounded and hold no key twice; a packet carries a      *)
(* value or a sentinel.                                                    *)
DedupTypeOK ==
  /\ sender \in Cache
  /\ receiver \in Cache
  /\ channel \in Seq(Packet)
  /\ Len(channel) <= MaxChannel
  /\ diverged \in BOOLEAN

(* The cache the session has before it decodes the i-th packet. *)
CacheBefore(i) == IF i = 1 THEN receiver ELSE channel[i - 1].cache

(* As long as nothing is lost, overtaken or replaced, decoding what is on  *)
(* the way, in order, gives the receiver every value that was sent and, in *)
(* the end, the cache of the sender as the end of its own, least recently  *)
(* used entry first: entries of an earlier start go before the receiver    *)
(* forgets one the sender still counts on.                                 *)
InStep ==
  diverged \/
  /\ \A i \in DOMAIN channel :
       LET p == channel[i]
           u == Undedup(CacheBefore(i), CacheKey(p.context, p.path), p.body)
       IN  u.value = p.origin /\ IsSuffix(p.cache, u.cache)
  /\ IsSuffix(sender, CacheBefore(Len(channel) + 1))

(* Both caches are bounded, and in step as long as the link lets them. *)
DedupInv == DedupTypeOK /\ InStep

(* The value injected is the value that was sent. *)
ValueRestored == injected.value = injected.origin

(* It is, as long as nothing is lost, overtaken or replaced. *)
ValueRestoredInStep == diverged \/ ValueRestored

(* Whatever the link does, a stale value is a value of the same vessel:    *)
(* vessels that publish the same path do not interfere.                    *)
OnlyOwnValues ==
  injected.value # NoValue => injected.value[1] = injected.key[1]

=============================================================================
