--------------------------- MODULE ReliableServer ---------------------------
(***************************************************************************)
(* The receiving end of the protocol (src/transport/pipeline/              *)
(* reliable-server/): the gates a HELLO or DATA packet passes, the session *)
(* table, the replay guards that outlive sessions, and the loss window.    *)
(*                                                                         *)
(* A handler is one step up to the await of the decompression; a DATA      *)
(* packet that waits there is in parked.  The two tables are functions on  *)
(* all peers together with the order in which their entries were last      *)
(* touched, which is what the comparisons of Date.now() decide by.         *)
(*                                                                         *)
(* Any datagram a client ever sent may arrive, any number of times and in  *)
(* any order.  Left out: the rate limits (a limited packet is a lost one), *)
(* the requests for metadata and values and the ACKs that go back (see     *)
(* Handshake and DeltaPipeline), and the content of payloads.              *)
(***************************************************************************)
EXTENDS SequenceTrackerOps, ReplayWindowOps, Wire

CONSTANTS
  Options,         \* bound: the authentication options tried
  Peers,           \* address:port
  AddressOf,       \* the address of each peer
  Legacy,          \* peers whose HELLO has no epoch
  Starts,          \* bound: how often the client of a peer starts
  FirstSeq,        \* the random initial number of each start
  Numbers,         \* bound: numbers used per start
  MaxSessions,     \* MAX_CLIENT_SESSIONS
  MaxPerAddress,   \* MAX_SESSIONS_PER_IP
  MaxGuards,       \* MAX_REPLAY_GUARDS
  MaxParked        \* bound: decompressions under way

ASSUME ServerAssumption ==
  /\ Options \subseteq AuthOptions
  /\ Legacy \subseteq Peers
  /\ Starts \in [Peers -> Nat \ {0}]
  /\ Numbers \in [Peers -> SeqNum]
  /\ \A p \in Peers : \A e \in 1 .. Starts[p] : FirstSeq[p][e] \in SeqNum
  /\ {MaxSessions, MaxPerAddress, MaxGuards, MaxParked} \subseteq Nat \ {0}
  /\ MaxSessions <= MaxGuards      \* "so guards outlive sessions"

VARIABLES
  opts,        \* authentication options, the same at both ends
  start,       \* the current start of the client of each peer (0: none)
  sessions,    \* clientSessions: the session of each peer ...
  sessionLru,  \* ... the peers that have one, by lastPacketTime
  guards,      \* replayGuards: the guard of each peer ...
  guardLru,    \* ... the peers that have one, by lastSeen
  addresses,   \* handshakedAddresses, by last time seen
  parked,      \* DATA packets whose payload is being decompressed
  handed,      \* how often a payload was dispatched under the epoch of its guard
  late,        \* payloads parked when a newer start was announced
  running      \* not stopped

tables == <<sessions, sessionLru, guards, guardLru, addresses>>
vars == <<opts, start, tables, parked, handed, late, running>>

-----------------------------------------------------------------------------
(* A payload is named by the start that sent it and its index there. *)
Payloads(p) == (1 .. Starts[p]) \X (0 .. Numbers[p] - 1)
NumberOf(p, d) == Plus(FirstSeq[p][d[1]], d[2])

(* The epoch a start announces and binds its packets to. *)
EpochOf(p, e) == IF p \in Legacy THEN 0 ELSE e

Session ==
  [tracker : Tracker,
   heard   : BOOLEAN,                  \* hasReceivedData
   base    : SeqNum \cup {NoSeq},      \* lossBaseSeq
   highest : SeqNum \cup {NoSeq},      \* lossHighestSeq
   count   : Nat]                      \* lossReceivedCount

NewSession == [tracker |-> NewTracker, heard |-> FALSE,
               base |-> NoSeq, highest |-> NoSeq, count |-> 0]

Guard == [epoch : Nat, window : ReplayWindow, handshaked : BOOLEAN]
NewGuard == [epoch |-> 0, window |-> NewWindow, handshaked |-> FALSE]

(* Least recently used first: what is touched goes to the end. *)
PlaceOf(lru, p) == CHOOSE i \in DOMAIN lru : lru[i] = p
Without(lru, p) ==
  IF p \in Range(lru) THEN RemoveAt(lru, PlaceOf(lru, p)) ELSE lru
Touched(lru, p) == Append(Without(lru, p), p)

-----------------------------------------------------------------------------
(* The tables as one record, on which the helpers of the code operate. *)
Tables == [sessions |-> sessions, sessionLru |-> sessionLru,
           guards |-> guards, guardLru |-> guardLru,
           addresses |-> addresses, handed |-> handed]

SetTables(t) ==
  /\ sessions' = t.sessions /\ sessionLru' = t.sessionLru
  /\ guards' = t.guards     /\ guardLru' = t.guardLru
  /\ addresses' = t.addresses
  /\ handed' = t.handed

HasSession(t, p) == p \in Range(t.sessionLru)

(* The k least recent sessions are reset and deleted. *)
WithoutOldest(t, k) ==
  [t EXCEPT !.sessions = [p \in Peers |->
                            IF \E i \in 1 .. k : t.sessionLru[i] = p
                            THEN NewSession ELSE @[p]],
            !.sessionLru = SubSeq(@, k + 1, Len(@))]

(* evictOldestSessionIfFull *)
EvictOldestSessionIfFull(t) ==
  IF Len(t.sessionLru) < MaxSessions THEN t
  ELSE WithoutOldest(t, 1)

SessionsAt(t, address) ==
  {q \in Range(t.sessionLru) : AddressOf[q] = address}

AddressIsFull(t, address) ==
  Cardinality(SessionsAt(t, address)) >= MaxPerAddress

(* getOrCreateSession; without a session for p in the result the address   *)
(* is at its limit.  Room is made before that is known.                    *)
GetOrCreateSession(t, p) ==
  IF HasSession(t, p) THEN [t EXCEPT !.sessionLru = Touched(@, p)]
  ELSE LET room == EvictOldestSessionIfFull(t)
       IN  IF AddressIsFull(room, AddressOf[p]) THEN room
           ELSE [room EXCEPT !.sessionLru = Append(@, p)]

(* Defect: a guard that is found keeps its place. *)
GetReplayGuardInPlace(t, p) ==
  IF p \in Range(t.guardLru) THEN t
  ELSE LET full == Len(t.guardLru) >= MaxGuards
       IN  [t EXCEPT !.guardLru = Append(IF full THEN Tail(@) ELSE @, p),
                     !.guards = [q \in Peers |->
                       IF q = p \/ (full /\ q = Head(t.guardLru))
                       THEN NewGuard ELSE @[q]],
                     !.handed[p] = [d \in Payloads(p) |-> 0]]

(* getReplayGuard: refresh or create, evicting the least recently seen. *)
GetReplayGuard(t, p) ==
  IF p \in Range(t.guardLru) THEN [t EXCEPT !.guardLru = Touched(@, p)]
  ELSE LET full == Len(t.guardLru) >= MaxGuards
       IN  [t EXCEPT !.guardLru = Append(IF full THEN Tail(@) ELSE @, p),
                     !.guards = [q \in Peers |->
                       IF q = p \/ (full /\ q = Head(t.guardLru))
                       THEN NewGuard ELSE @[q]],
                     !.handed[p] = [d \in Payloads(p) |-> 0]]

(* markHandshakedAddress *)
MarkHandshakedAddress(t, a) ==
  [t EXCEPT !.addresses =
     IF a \notin Range(@) /\ Len(@) >= MaxGuards
     THEN Append(Tail(@), a) ELSE Touched(@, a)]

(* markPeerHandshaked *)
MarkPeerHandshaked(t, p) ==
  LET u == GetReplayGuard(t, p)
  IN  MarkHandshakedAddress([u EXCEPT !.guards[p].handshaked = TRUE],
                            AddressOf[p])

(* applyHelloEpoch, when it returns true. *)
RaiseEpoch(t, p, epoch) ==
  [t EXCEPT !.guards[p] = [@ EXCEPT !.epoch = epoch, !.window = NewWindow],
            !.handed[p] = [d \in Payloads(p) |-> 0]]

(* parseHelloInfo on a restart: numbering starts anew. *)
RestartSession(s) ==
  [s EXCEPT !.tracker = ResetTracker(@),
            !.base = NoSeq, !.highest = NoSeq, !.count = 0]

(* parseHelloInfo *)
HandleHello(t, p, epoch) ==
  LET u == MarkPeerHandshaked(t, p)
  IN  IF epoch <= u.guards[p].epoch THEN u
      ELSE [RaiseEpoch(u, p, epoch) EXCEPT !.sessions[p] = RestartSession(@)]

-----------------------------------------------------------------------------
(* Defect: a number ahead of the base does not raise the highest. *)
HighestKept(h, s) == h

Highest(h, s) == IF IsAhead(s, h) THEN s ELSE h

(* updateLossWindow *)
UpdateLossWindow(s, seq, resynced) ==
  IF resynced \/ s.base = NoSeq
  THEN [s EXCEPT !.base = seq, !.highest = seq, !.count = 1]
  ELSE [s EXCEPT !.count = @ + 1, !.highest = Highest(@, seq)]

(* processSequence reports a resync for the first number as well. *)
Resyncs(tracker, seq) == Classify(tracker, seq) \in {"first", "resync"}

(* rejectReplayedDataPacket, first gate: an unhandshaked port at an        *)
(* address with a handshake, whose record is refreshed by the look-up.     *)
UnknownPort(t, p) ==
  ~ t.guards[p].handshaked /\ AddressOf[p] \in Range(t.addresses)
LookUpAddress(t, p) == [t EXCEPT !.addresses = Touched(@, AddressOf[p])]

(* Defect: the session's tracker is trusted, the window is not asked. *)
ReplayedNever(guard, seq) == FALSE

(* rejectReplayedDataPacket, second gate: enforced once there is an epoch. *)
Replayed(guard, seq) == guard.epoch > 0 /\ ~ Accepts(guard.window, seq)

(* rejectAlreadySeenPacket, and what follows it in trackDataSequence. *)
TrackData(t, p, d) ==
  LET seq   == NumberOf(p, d)
      s     == t.sessions[p]
      after == [s EXCEPT !.tracker = ProcessSequence(@, seq)]
  IN  IF ~ IsFreshData(s.tracker, seq)
      THEN [t EXCEPT !.sessions[p] = after]
      ELSE [t EXCEPT
              !.sessions[p] = UpdateLossWindow([after EXCEPT !.heard = TRUE],
                                               seq, Resyncs(s.tracker, seq)),
              !.handed[p][d] = IF t.guards[p].epoch > 0 /\ @ < 2 THEN @ + 1 ELSE @]

(* trackDataSequence, with a session. *)
HandleData(t, p, d) ==
  LET u   == GetReplayGuard(t, p)
      seq == NumberOf(p, d)
      w   == [u EXCEPT !.guards[p].window = Accept(@, seq)]
  IN  IF UnknownPort(u, p) THEN LookUpAddress(u, p)
      ELSE IF Replayed(u.guards[p], seq) THEN w
      ELSE TrackData(w, p, d)

-----------------------------------------------------------------------------
Init ==
  /\ opts \in Options
  /\ start = [p \in Peers |-> 0]
  /\ sessions = [p \in Peers |-> NewSession]
  /\ sessionLru = <<>>
  /\ guards = [p \in Peers |-> NewGuard]
  /\ guardLru = <<>>
  /\ addresses = <<>>
  /\ parked = {}
  /\ handed = [p \in Peers |-> [d \in Payloads(p) |-> 0]]
  /\ late = {}
  /\ running = TRUE

(* The client of p starts, with the next epoch and new numbers. *)
ClientStarts(p) ==
  /\ start[p] < Starts[p]
  /\ start' = [start EXCEPT ![p] = @ + 1]
  /\ UNCHANGED <<opts, tables, parked, handed, late, running>>

(* peerAuthEpoch: a look-up that creates nothing. *)
PeerAuthEpoch(p) == guards[p].epoch

Passes(p, type, seq, e) ==
  /\ running
  /\ PassesDispatcher(BuildPacket(type, seq, opts, EpochOf(p, e)), opts,
                      PeerAuthEpoch(p))

(* handleHelloPacket, for a HELLO of any start so far. *)
ReceiveHello(p, e) ==
  LET t == GetOrCreateSession(Tables, p) IN
  /\ e <= start[p]
  /\ Passes(p, "HELLO", NoSeq, e)
  /\ SetTables(IF HasSession(t, p) THEN HandleHello(t, p, EpochOf(p, e)) ELSE t)
  /\ late' = IF HasSession(t, p) /\ EpochOf(p, e) > guards[p].epoch
             THEN late \cup {w \in parked : w.peer = p} ELSE late
  /\ UNCHANGED <<opts, start, parked, running>>

(* handleDataPacket up to the await: nothing is allocated yet. *)
ReceiveData(p, d) ==
  /\ d[1] <= start[p]
  /\ Cardinality(parked) < MaxParked
  /\ Passes(p, "DATA", NumberOf(p, d), d[1])
  /\ parked' = parked \cup {[peer |-> p, data |-> d]}
  /\ UNCHANGED <<opts, start, tables, handed, late, running>>

(* handleDataPacket after it; the packet may meanwhile be parked again. *)
Decompressed(w) ==
  LET t == GetOrCreateSession(Tables, w.peer) IN
  /\ w \in parked
  /\ \/ parked' = parked \ {w} /\ late' = late \ {w}
     \/ parked' = parked /\ late' = late /\ Cardinality(parked) < MaxParked
  /\ SetTables(IF HasSession(t, w.peer) THEN HandleData(t, w.peer, w.data)
               ELSE t)
  /\ UNCHANGED <<opts, start, running>>

(* A METADATA packet, which makes a session but touches no guard. *)
ReceiveMetadata(p) ==
  /\ start[p] > 0
  /\ Passes(p, "METADATA", NoSeq, start[p])
  /\ ~ HasSession(Tables, p)
  /\ SetTables(GetOrCreateSession(Tables, p))
  /\ UNCHANGED <<opts, start, parked, late, running>>

(* A NAK timer of the tracker of p, with the flush that follows. *)
NAKTimer(p, s) ==
  /\ s \in sessions[p].tracker.nakTimers
  /\ sessions' = [sessions EXCEPT
                    ![p].tracker = FlushNAKs(FireNAKTimer(@, s))]
  /\ UNCHANGED <<opts, start, sessionLru, guards, guardLru, addresses,
                 parked, handed, late, running>>

(* expireIdleSessions: the k least recent ones have been idle too long. *)
ExpireIdleSessions(k) ==
  /\ running
  /\ k <= Len(sessionLru)
  /\ SetTables(WithoutOldest(Tables, k))
  /\ UNCHANGED <<opts, start, parked, late, running>>

(* stopServer.  A packet being decompressed is not called back. *)
Stop ==
  /\ running
  /\ running' = FALSE
  /\ SetTables([WithoutOldest(Tables, Len(sessionLru)) EXCEPT
                  !.guards = [p \in Peers |-> NewGuard],
                  !.guardLru = <<>>,
                  !.handed = [p \in Peers |-> [d \in Payloads(p) |-> 0]]])
  /\ UNCHANGED <<opts, start, parked, late>>

Next ==
  \/ \E p \in Peers : ClientStarts(p)
  \/ \E p \in Peers : \E e \in 1 .. Starts[p] : ReceiveHello(p, e)
  \/ \E p \in Peers : \E d \in Payloads(p) : ReceiveData(p, d)
  \/ \E w \in parked : Decompressed(w)
  \/ \E p \in Peers : ReceiveMetadata(p)
  \/ \E p \in Peers : \E s \in SeqNum : NAKTimer(p, s)
  \/ \E k \in 1 .. MaxSessions : ExpireIdleSessions(k)
  \/ Stop

Spec == Init /\ [][Next]_vars

-----------------------------------------------------------------------------
(* The state keeps its types. *)
TypeOK ==
  /\ opts \in AuthOptions
  /\ sessions \in [Peers -> Session] /\ sessionLru \in Seq(Peers)
  /\ guards \in [Peers -> Guard]     /\ guardLru \in Seq(Peers)
  /\ addresses \in Seq({AddressOf[p] : p \in Peers})
  /\ \A w \in parked : w.peer \in Peers /\ w.data \in Payloads(w.peer)
  /\ \A p \in Peers : handed[p] \in [Payloads(p) -> 0 .. 2]

(* Guards outlive sessions: a session that has received data has its       *)
(* guard, although each table evicts its own least recent entry.  Without  *)
(* it the next DATA of a living session would meet a window that forgot.   *)
GuardOutlivesSession ==
  \A p \in Peers : sessions[p].heard => p \in Range(guardLru)

(* No more sessions than the server and each address may have, no more     *)
(* guards and addresses than the limit, whatever is evicted, expired or    *)
(* made at the end of an await.                                            *)
WithinLimits ==
  /\ Len(sessionLru) <= MaxSessions
  /\ \A p \in Peers :
       Cardinality(SessionsAt(Tables, AddressOf[p])) <= MaxPerAddress
  /\ Len(guardLru) <= MaxGuards
  /\ Len(addresses) <= MaxGuards

(* q was touched after p was. *)
TouchedAfter(lru, p, q) ==
  \E i, j \in DOMAIN lru : i < j /\ lru[i] = p /\ lru[j] = q

(* Why guards outlive sessions: whoever touches its guard after a session  *)
(* has received data has a session that is more recent than that one.      *)
RecencyAgrees ==
  \A p, q \in Peers :
    sessions[p].heard /\ TouchedAfter(guardLru, p, q)
      => TouchedAfter(sessionLru, p, q)

(* The two tables agree with each other and with the state they index. *)
TablesInv ==
  /\ WithinLimits
  /\ IsInjective(sessionLru) /\ IsInjective(guardLru)
  /\ \A p \in Peers : ~ HasSession(Tables, p) => sessions[p] = NewSession
  /\ \A p \in Peers : p \notin Range(guardLru) => guards[p] = NewGuard
  /\ GuardOutlivesSession
  /\ RecencyAgrees

(* What is being decompressed passed under the epoch its guard still has,  *)
(* unless the guard is gone, has lost it or got a later one meanwhile.     *)
ParkedAreCurrent ==
  opts.authenticatedHeaders /\ opts.epochBoundAuth /\ running =>
    \A w \in parked : w \in late \/ guards[w.peer].epoch \in {0, w.data[1]}

(* Under an epoch no payload is dispatched twice, although its session may *)
(* expire, be evicted and come back, and copies of it may be decompressed  *)
(* at the same time.                                                       *)
NeverReplayed ==
  \A p \in Peers : guards[p].epoch > 0 =>
    \A d \in Payloads(p) : handed[p][d] <= 1

(* Why: what was dispatched under an epoch is refused by the window, for   *)
(* as long as that epoch lasts.                                            *)
WindowsRefuse ==
  \A p \in Peers : \A d \in Payloads(p) :
    guards[p].epoch > 0 /\ handed[p][d] > 0
      => handed[p][d] = 1 /\ ~ Accepts(guards[p].window, NumberOf(p, d))

(* What that needs: the numbers a client uses lie within half the space,   *)
(* those of all of its starts together, because data of an earlier start   *)
(* may arrive as well.                                                     *)
NumbersWithin(span) ==
  \A p \in Peers : \E first \in SeqNum :
    \A d \in Payloads(p) : Dist(first, NumberOf(p, d)) < span

NumbersFit == NumbersWithin(HalfSpace)

(* What the loss window of a session counts as received was expected: the  *)
(* published loss is a ratio, also across resyncs and restarts.            *)
LossIsARatio ==
  \A p \in Peers :
    LET s == sessions[p] IN
    s.count <= IF s.base = NoSeq THEN 0 ELSE Dist(s.base, s.highest) + 1

(* The tables, their limits, the windows and the loss window, in one. *)
ServerInv ==
  TypeOK /\ TablesInv /\ ParkedAreCurrent /\ WindowsRefuse /\ LossIsARatio

(* With authenticated, epoch-bound headers the data of an earlier start is *)
(* dispatched under a later epoch only if it was already being             *)
(* decompressed when that epoch was announced.                             *)
OldStartOnlyIfParked ==
  [][\A p \in Peers : \A d \in Payloads(p) :
       (/\ opts.authenticatedHeaders /\ opts.epochBoundAuth /\ running
        /\ handed'[p][d] > handed[p][d])
       => \/ d[1] = guards[p].epoch
          \/ [peer |-> p, data |-> d] \in late]_vars

=============================================================================
