------------------------------ MODULE Handshake ------------------------------
(***************************************************************************)
(* The HELLO handshake between the client pipeline                         *)
(* (src/transport/pipeline/reliable-client/lifecycle.ts) and the server    *)
(* (src/transport/pipeline/reliable-server/).                              *)
(*                                                                         *)
(* The client announces its epoch with HELLO and repeats it until a        *)
(* control packet arrives.  The server knows clients by the source port it *)
(* sees: a recovered socket, another bonding link or a NAT makes the same  *)
(* client another peer.  Per port it keeps a replay guard, which outlives  *)
(* the session, and per address whether a HELLO ever came from it; DATA    *)
(* from a port without a HELLO at an address with one is refused silently. *)
(*                                                                         *)
(* Datagrams may be lost, repeated and delayed.  Sequence numbers are left *)
(* out: whether a DATA packet is fresh is a choice here, and what the      *)
(* replay window and the tracker make of it is in ReplayWindow and         *)
(* SequenceTracker.  Left out too are the limits of the server's tables    *)
(* (a refused session is a lost packet), and authentication: every packet  *)
(* is genuine, and epochBoundAuth is off, as it is by default.             *)
(***************************************************************************)
EXTENDS Naturals

CONSTANTS
  Ports,        \* source ports the client may have, as the server sees them
  NoPort,       \* no socket
  OneAddress,   \* whether all of them are at one address
  ServerRestarts,  \* whether the server is ever restarted
  MaxEpoch,     \* bound: epochs of the client
  MaxChains     \* bound: HELLO sends and retry timers under way at once

ASSUME HandshakeAssumption ==
  /\ NoPort \notin Ports
  /\ {OneAddress, ServerRestarts} \subseteq BOOLEAN
  /\ MaxEpoch \in Nat \ {0}
  /\ MaxChains \in Nat \ {0}

VARIABLES
  client,       \* the HELLO state of ClientMutableState, and the source port
  guards,       \* ServerContext.replayGuards
  known,        \* ServerContext.handshakedAddresses
  sessions,     \* ServerContext.clientSessions
  hello,        \* HELLOs on their way
  data,         \* source ports of DATA packets on their way
  control       \* destinations of control packets on their way

server == <<guards, known, sessions>>
network == <<hello, data, control>>
vars == <<client, server, network>>

-----------------------------------------------------------------------------
Client ==
  [bonded  : BOOLEAN,              \* it has a socket for each port
   epoch   : 1 .. MaxEpoch,        \* connectionEpoch
   reached : 1 .. MaxEpoch,        \* history: the highest epoch of any start
   port    : Ports \cup {NoPort},
   ready   : BOOLEAN,              \* readyToSend, if it has a socket
   acked   : BOOLEAN,              \* helloAcknowledged
   sends   : 0 .. MaxChains,       \* HELLO sends that are awaited
   timers  : 0 .. MaxChains,       \* retry timers that will fire
   handle  : BOOLEAN,              \* helloRetryTimer is set: one of them
   stopped : BOOLEAN]

(* stopHelloRetry: it knows only the timer armed last. *)
StopHelloRetry(c) ==
  IF c.handle THEN [c EXCEPT !.timers = @ - 1, !.handle = FALSE] ELSE c

(* Defect: a send that found no socket ends the schedule. *)
ScheduleHelloRetryIfSent(c) ==
  IF c.acked \/ c.stopped \/ c.port = NoPort THEN c
  ELSE [c EXCEPT !.timers = @ + 1, !.handle = TRUE]

(* scheduleHelloRetry: it overwrites the handle of a timer still armed. *)
ScheduleHelloRetry(c) ==
  IF c.acked \/ c.stopped THEN c
  ELSE [c EXCEPT !.timers = @ + 1, !.handle = TRUE]

(* sendHello up to its await. *)
SendHello(c) ==
  [StopHelloRetry(c) EXCEPT !.acked = FALSE, !.sends = @ + 1]

(* confirmHelloAcknowledged *)
ConfirmHello(c) ==
  IF c.acked THEN c ELSE [StopHelloRetry(c) EXCEPT !.acked = TRUE]

MayCallHello(c) == ~ c.stopped /\ c.sends + c.timers < MaxChains

(* A HELLO of c leaves its socket, if there is one. *)
HelloOf(c) ==
  IF c.port = NoPort THEN {} ELSE {[port |-> c.port, epoch |-> c.epoch]}

(* Where control packets reach the client. *)
Open(p) == ~ client.stopped /\ (client.port = p \/ client.bonded)

(* A start with epoch e, after starts with epochs up to r. *)
Starting(b, e, r, p) ==
  [bonded |-> b, epoch |-> e, reached |-> IF e > r THEN e ELSE r, port |-> p,
   ready |-> FALSE, acked |-> FALSE, sends |-> 1, timers |-> 0,
   handle |-> FALSE, stopped |-> FALSE]

-----------------------------------------------------------------------------
Address(p) == IF OneAddress THEN NoPort ELSE p

Guard == [epoch : 0 .. MaxEpoch, handshaked : BOOLEAN]

(* A guard that was never asked for is the same as a new one. *)
NewGuard == [epoch |-> 0, handshaked |-> FALSE]

Session ==
  [meta  : BOOLEAN,        \* metaRequested
   heard : BOOLEAN,        \* hasReceivedData
   based : BOOLEAN]        \* sequenceTracker.expectedSeq is not null

(* No session, or a new one: getOrCreateSession makes one if needed. *)
NewSession == [meta |-> FALSE, heard |-> FALSE, based |-> FALSE]

(* Defect: any other epoch than the one known counts as a restart. *)
RestartedDiffers(g, epoch) == epoch # g.epoch

(* applyHelloEpoch: whether the epoch advances. *)
Restarted(g, epoch) == epoch > g.epoch

(* rejectReplayedDataPacket: a port without a HELLO at a known address. *)
Refused(p) == ~ guards[p].handshaked /\ Address(p) \in known

(* Defect: the address of the HELLO is not recorded. *)
KnownForgotten(p) == known

(* markHandshakedAddress *)
KnownWith(p) == known \cup {Address(p)}

-----------------------------------------------------------------------------
Init ==
  /\ client \in {Starting(b, 1, 1, p) : b \in BOOLEAN, p \in Ports}
  /\ guards = [p \in Ports |-> NewGuard]
  /\ known = {}
  /\ sessions = [p \in Ports |-> NewSession]
  /\ hello = HelloOf(client)
  /\ data = {}
  /\ control = {}

(* The await of sendHello, or of a retry, is over.  startClient awaits the *)
(* first one before it sets readyToSend.                                   *)
HelloSent ==
  /\ client.sends > 0
  /\ client' = ScheduleHelloRetry([client EXCEPT !.sends = @ - 1,
                                               !.ready = TRUE])
  /\ UNCHANGED <<server, network>>

(* The retry timer clears the handle, whose timer it may not be. *)
Fired(c) == [c EXCEPT !.timers = @ - 1, !.handle = FALSE]

RetryTimer ==
  /\ client.timers > 0
  /\ IF client.acked \/ client.stopped
     THEN client' = Fired(client) /\ hello' = hello
     ELSE /\ client' = [Fired(client) EXCEPT !.sends = @ + 1]
          /\ hello' = hello \cup HelloOf(client)
  /\ UNCHANGED <<server, data, control>>

(* The client calls sendHello, as c. *)
CallsHello(c) ==
  /\ MayCallHello(c)
  /\ client' = SendHello(c)
  /\ hello' = hello \cup HelloOf(c)
  /\ UNCHANGED <<server, data, control>>

(* The keepalive, when nothing was sent for helloInterval. *)
Keepalive ==
  /\ client.ready
  /\ client.port # NoPort
  /\ CallsHello(client)

(* registerBondingHandshakeHooks: failover or failback to another link. *)
SwitchLink(p) ==
  /\ client.bonded
  /\ p # client.port
  /\ CallsHello([client EXCEPT !.port = p])

(* handleClientSocketError *)
SocketError ==
  /\ ~ client.bonded
  /\ ~ client.stopped
  /\ client.port # NoPort
  /\ client' = [client EXCEPT !.port = NoPort]
  /\ UNCHANGED <<server, network>>

(* recoverClientSocket and rearmPipeline. *)
SocketRecovered(p) ==
  /\ client.port = NoPort
  /\ CallsHello([client EXCEPT !.port = p, !.ready = TRUE])

(* A NAT on the way maps the client to another port. *)
Rebind(p) ==
  /\ ~ client.bonded
  /\ client.port \notin {p, NoPort}
  /\ ~ client.stopped
  /\ client' = [client EXCEPT !.port = p]
  /\ UNCHANGED <<server, network>>

SendData ==
  /\ client.ready
  /\ client.port # NoPort
  /\ ~ client.stopped
  /\ data' = data \cup {client.port}
  /\ UNCHANGED <<client, server, hello, control>>

(* handleControlPacket, for any type of control packet. *)
ReceiveControl(p) ==
  /\ p \in control
  /\ client' = IF Open(p) THEN ConfirmHello(client) ELSE client
  /\ UNCHANGED <<server, network>>

(* The instance stops: the pipeline, and then its sockets are closed. *)
Stop ==
  /\ ~ client.stopped
  /\ client' = [StopHelloRetry(client) EXCEPT !.stopped = TRUE, !.port = NoPort]
  /\ UNCHANGED <<server, network>>

(* A new process with the epoch of resolveMonotonicEpoch: a higher one, as *)
(* long as its file can be read and was written, or the clock is right.    *)
(* Both are best-effort, so the epoch may as well stay or fall.            *)
ClientRestart(p, e) ==
  /\ client' = Starting(client.bonded, e, client.reached, p)
  /\ hello' = hello \cup HelloOf(client')
  /\ UNCHANGED <<server, data, control>>

-----------------------------------------------------------------------------
(* handleHelloPacket: the guard is marked and its epoch raised, a restart  *)
(* resets the tracker, and the session asks for metadata once.  A request  *)
(* for values (requestFullStatusOnRestart) would go out with it.           *)
ReceiveHello(m) ==
  LET p == m.port
      g == guards[p]
  IN
  /\ m \in hello
  /\ guards' = [guards EXCEPT ![p] =
                  [epoch |-> IF Restarted(g, m.epoch) THEN m.epoch ELSE g.epoch,
                   handshaked |-> TRUE]]
  /\ known' = KnownWith(p)
  /\ sessions' = [sessions EXCEPT ![p].meta = TRUE,
                                  ![p].based = @ /\ ~ Restarted(g, m.epoch)]
  /\ control' = IF sessions[p].meta THEN control ELSE control \cup {p}
  /\ UNCHANGED <<client, hello, data>>

(* A DATA packet at the replay guard and the tracker: a repeated one is    *)
(* confirmed at once, a fresh one by the next periodic ACK (or by the      *)
(* request for values, which has the same effect here).                    *)
Accepted(p, fresh) ==
  IF fresh
  THEN /\ sessions' = [sessions EXCEPT ![p].heard = TRUE, ![p].based = TRUE]
       /\ control' = control
  ELSE /\ sessions' = sessions
       /\ control' = IF sessions[p].based THEN control \cup {p} ELSE control

(* handleDataPacket *)
ReceiveData(p, fresh) ==
  /\ p \in data
  /\ IF Refused(p) THEN UNCHANGED <<sessions, control>> ELSE Accepted(p, fresh)
  /\ UNCHANGED <<client, guards, known, hello, data>>

(* sendPeriodicACKs, for one session.  A NAK has the same effect here. *)
PeriodicACK(p) ==
  /\ sessions[p].heard /\ sessions[p].based
  /\ control' = control \cup {p}
  /\ UNCHANGED <<client, server, hello, data>>

(* The guards after the session of p is gone. *)
GuardsAfter(p) == guards

(* expireIdleSessions, or evictOldestSessionIfFull. *)
SessionGone(p) ==
  /\ sessions[p] # NewSession
  /\ sessions' = [sessions EXCEPT ![p] = NewSession]
  /\ guards' = GuardsAfter(p)
  /\ UNCHANGED <<client, known, network>>

(* A new server process, or a new server pipeline. *)
ServerRestart ==
  /\ ServerRestarts
  /\ guards' = [p \in Ports |-> NewGuard]
  /\ known' = {}
  /\ sessions' = [p \in Ports |-> NewSession]
  /\ UNCHANGED <<client, network>>

(* A datagram is gone: lost, or not repeated after it arrived. *)
Lose ==
  /\ \/ hello # {} /\ \E m \in hello : hello' = hello \ {m}
                      /\ UNCHANGED <<data, control>>
     \/ data # {} /\ \E p \in data : data' = data \ {p}
                     /\ UNCHANGED <<hello, control>>
     \/ control # {} /\ \E p \in control : control' = control \ {p}
                        /\ UNCHANGED <<hello, data>>
  /\ UNCHANGED <<client, server>>

ClientNext ==
  \/ HelloSent
  \/ RetryTimer
  \/ Keepalive
  \/ \E p \in Ports : SwitchLink(p)
  \/ SocketError
  \/ \E p \in Ports : SocketRecovered(p)
  \/ \E p \in Ports : Rebind(p)
  \/ SendData
  \/ \E p \in Ports : ReceiveControl(p)
  \/ Stop
  \/ \E p \in Ports, e \in 1 .. MaxEpoch : ClientRestart(p, e)

ServerNext ==
  \/ \E m \in hello : ReceiveHello(m)
  \/ \E p \in Ports, fresh \in BOOLEAN : ReceiveData(p, fresh)
  \/ \E p \in Ports : PeriodicACK(p)
  \/ \E p \in Ports : SessionGone(p)
  \/ ServerRestart

Next == ClientNext \/ ServerNext \/ Lose

(* Timers fire and sends settle, a client that has data keeps sending it   *)
(* (and so is never idle), and a datagram that is sent again and again     *)
(* arrives now and then.                                                   *)
Fairness ==
  /\ WF_vars(HelloSent)
  /\ WF_vars(RetryTimer)
  /\ WF_vars(SendData)
  /\ \A p \in Ports, e \in 1 .. MaxEpoch :
       SF_vars(ReceiveHello([port |-> p, epoch |-> e]))
  /\ \A p \in Ports : SF_vars(ReceiveData(p, TRUE))

Spec == Init /\ [][Next]_vars /\ Fairness

-----------------------------------------------------------------------------
(* Both ends keep their types, and the client no more retry timers than    *)
(* the bound on HELLO sends and timers allows.                             *)
TypeOK ==
  /\ client \in Client
  /\ guards \in [Ports -> Guard]
  /\ known \subseteq {Address(p) : p \in Ports}
  /\ sessions \in [Ports -> Session]
  /\ hello \subseteq [port : Ports, epoch : 1 .. MaxEpoch]
  /\ data \subseteq Ports
  /\ control \subseteq Ports

(* A handshake that is not confirmed is still being tried: whatever        *)
(* stopHelloRetry, confirmations and socket errors do in between, a send   *)
(* is awaited or a retry timer is armed.                                   *)
RetryAlive ==
  client.acked \/ client.stopped \/ client.sends > 0 \/ client.timers > 0

(* Replay enforcement is armed only by a HELLO: a guard with an epoch is   *)
(* handshaked, its address is known, and the client did reach that epoch.  *)
ArmedByHello ==
  \A p \in Ports :
    guards[p].epoch > 0 => /\ guards[p].handshaked
                           /\ Address(p) \in known
                           /\ guards[p].epoch <= client.reached

(* What the steps preserve: the above, the accounting of sends and timers, *)
(* and that every HELLO still on its way is of a start of this client.     *)
HandshakeInv ==
  /\ TypeOK
  /\ ArmedByHello
  /\ RetryAlive
  /\ client.sends + client.timers <= MaxChains
  /\ client.handle => client.timers > 0
  /\ client.epoch <= client.reached
  /\ \A m \in hello : m.epoch <= client.reached

(* As long as the server runs, no late HELLO of an earlier start, no        *)
(* expired session and no packet takes a handshake back or lowers an epoch. *)
HandshakeIsKept ==
  [][ServerRestart \/ \A p \in Ports :
       /\ guards[p].epoch <= guards'[p].epoch
       /\ guards[p].handshaked => guards'[p].handshaked]_vars

(* The client of this port and epoch is gone. *)
Elsewhere(p, e) == client.port # p \/ client.epoch # e \/ client.stopped

(* A client that was not confirmed gets its HELLO through, unless the port *)
(* has a higher epoch: then its own fell.                                  *)
HelloGetsThrough ==
  \A p \in Ports, e \in 1 .. MaxEpoch :
    (client.port = p /\ client.epoch = e /\ ~ client.acked)
      ~> (guards[p].epoch >= e \/ client.acked \/ Elsewhere(p, e))

-----------------------------------------------------------------------------
(* What the comments of sendHello and confirmHelloAcknowledged say: HELLO  *)
(* is repeated until the server has the epoch of this peer, of which a     *)
(* control packet is the proof.                                            *)
HandshakeCompletes ==
  \A p \in Ports, e \in 1 .. MaxEpoch :
    (client.port = p /\ client.epoch = e)
      ~> (guards[p].epoch = e \/ Elsewhere(p, e))

(* What the comment of the keepalive says: a NAT rebinding is survived. *)
DataIsAcceptedAgain ==
  \A p \in Ports, e \in 1 .. MaxEpoch :
    (client.port = p /\ client.epoch = e) ~> (~ Refused(p) \/ Elsewhere(p, e))

=============================================================================
