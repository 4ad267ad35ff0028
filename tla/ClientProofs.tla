----------------------------- MODULE ClientProofs -----------------------------
(***************************************************************************)
(* How a client reaches its server: the handshake of Handshake for any     *)
(* ports and any number of starts, HELLO sends and retry timers; the two   *)
(* links of Bonding for every timeout, delay and dwell, and any number of  *)
(* faults and forced switches; and the control law of the delta timer,     *)
(* Congestion, for every timer and configuration.                          *)
(***************************************************************************)
EXTENDS Handshake, Bonding, Congestion, TLAPS

(* What HandshakeInv says of the client. *)
ClientOK(c) ==
  /\ c \in Client
  /\ c.acked \/ c.stopped \/ c.sends > 0 \/ c.timers > 0
  /\ c.sends + c.timers <= MaxChains
  /\ c.handle => c.timers > 0
  /\ c.epoch <= c.reached

(* What HandshakeInv says of the server and the network. *)
ServerOK ==
  /\ guards \in [Ports -> Guard]
  /\ known \subseteq {Address(p) : p \in Ports}
  /\ sessions \in [Ports -> Session]
  /\ hello \subseteq [port : Ports, epoch : 1 .. MaxEpoch]
  /\ data \subseteq Ports
  /\ control \subseteq Ports
  /\ \A p \in Ports : guards[p].epoch > 0 => /\ guards[p].handshaked
                                             /\ Address(p) \in known
                                             /\ guards[p].epoch <= client.reached
  /\ \A m \in hello : m.epoch <= client.reached

Both == ClientOK(client) /\ ServerOK

(* The two parts are the invariant. *)
LEMMA BothEnds == HandshakeInv <=> Both
BY DEF HandshakeInv, TypeOK, ArmedByHello, RetryAlive, ClientOK, ServerOK, Both

-----------------------------------------------------------------------------
(* The operations of the client. *)

LEMMA StopHelloRetryKeeps ==
  ASSUME NEW c \in Client, c.sends + c.timers <= MaxChains,
         c.handle => c.timers > 0
  PROVE  LET d == StopHelloRetry(c)
         IN  /\ d \in Client /\ ~ d.handle
             /\ d.sends = c.sends /\ d.timers <= c.timers
             /\ d.epoch = c.epoch /\ d.reached = c.reached
             /\ d.acked = c.acked
             /\ d.stopped = c.stopped
<1> DEFINE n == c.timers - 1
           d == [c EXCEPT !.timers = n, !.handle = FALSE]
<1>1. StopHelloRetry(c) = IF c.handle THEN d ELSE c
  BY DEF StopHelloRetry
<1>2. CASE c.handle
  <2>1. n \in 0 .. MaxChains /\ n <= c.timers
    BY <1>2, HandshakeAssumption DEF Client
  <2> HIDE DEF n
  <2>2. /\ d \in Client /\ ~ d.handle /\ d.timers = n /\ d.sends = c.sends
        /\ d.epoch = c.epoch /\ d.reached = c.reached
        /\ d.acked = c.acked /\ d.stopped = c.stopped
    BY <2>1 DEF Client
  <2> QED BY <1>1, <1>2, <2>1, <2>2
<1>3. CASE ~ c.handle
  BY <1>1, <1>3, HandshakeAssumption DEF Client
<1> QED BY <1>2, <1>3

(* scheduleHelloRetry leaves a client that is still trying. *)
LEMMA ScheduleHelloRetryKeeps ==
  ASSUME NEW c \in Client, c.sends + c.timers < MaxChains,
         c.handle => c.timers > 0, c.epoch <= c.reached
  PROVE  /\ ClientOK(ScheduleHelloRetry(c))
         /\ ScheduleHelloRetry(c).epoch = c.epoch
         /\ ScheduleHelloRetry(c).reached = c.reached
<1> DEFINE n == c.timers + 1
           d == [c EXCEPT !.timers = n, !.handle = TRUE]
<1>1. /\ c.sends \in Nat /\ c.timers \in Nat /\ n \in Nat /\ n > 0
      /\ c.sends + n <= MaxChains
  BY HandshakeAssumption DEF Client
<1>2. n \in 0 .. MaxChains
  BY <1>1, HandshakeAssumption
<1>3. ScheduleHelloRetry(c) = IF c.acked \/ c.stopped THEN c ELSE d
  BY DEF ScheduleHelloRetry
<1> HIDE DEF n
<1>4. /\ d \in Client /\ d.timers = n /\ d.sends = c.sends
      /\ d.epoch = c.epoch /\ d.reached = c.reached
  BY <1>2 DEF Client
<1> HIDE DEF d
<1> QED BY <1>1, <1>3, <1>4, HandshakeAssumption DEF ClientOK

(* sendHello trades the timer it knows for a send. *)
LEMMA SendHelloKeeps ==
  ASSUME NEW c \in Client, c.sends + c.timers < MaxChains,
         c.handle => c.timers > 0, c.epoch <= c.reached
  PROVE  /\ ClientOK(SendHello(c))
         /\ SendHello(c).epoch = c.epoch /\ SendHello(c).reached = c.reached
<1> DEFINE d == StopHelloRetry(c)
           n == d.sends + 1
           r == [d EXCEPT !.acked = FALSE, !.sends = n]
<1>0. c.sends \in Nat /\ c.timers \in Nat
  BY DEF Client
<1>1. /\ d \in Client /\ ~ d.handle /\ d.sends = c.sends
      /\ d.timers <= c.timers /\ d.epoch = c.epoch /\ d.reached = c.reached
  BY <1>0, StopHelloRetryKeeps, HandshakeAssumption
<1>2. SendHello(c) = r
  BY DEF SendHello
<1> HIDE DEF d
<1>3. d.timers \in Nat
  BY <1>1 DEF Client
<1>4. n \in Nat /\ n > 0 /\ n + d.timers <= MaxChains
  BY <1>0, <1>1, <1>3, HandshakeAssumption
<1>5. n \in 0 .. MaxChains
  BY <1>3, <1>4, HandshakeAssumption
<1> HIDE DEF n
<1>6. /\ r \in Client /\ r.sends = n /\ r.timers = d.timers
      /\ r.epoch = d.epoch /\ r.reached = d.reached /\ ~ r.handle
  BY <1>1, <1>5 DEF Client
<1> HIDE DEF r
<1> QED BY <1>1, <1>2, <1>4, <1>6 DEF ClientOK

(* A confirmation ends the schedule it knows. *)
LEMMA ConfirmHelloKeeps ==
  ASSUME NEW c, ClientOK(c)
  PROVE  /\ ClientOK(ConfirmHello(c))
         /\ ConfirmHello(c).epoch = c.epoch /\ ConfirmHello(c).reached = c.reached
<1> DEFINE d == StopHelloRetry(c)
           r == [d EXCEPT !.acked = TRUE]
<1>0. c \in Client /\ c.sends \in Nat /\ c.timers \in Nat
  BY DEF Client, ClientOK
<1>1. /\ d \in Client /\ ~ d.handle /\ d.sends = c.sends
      /\ d.timers <= c.timers /\ d.epoch = c.epoch /\ d.reached = c.reached
  BY <1>0, StopHelloRetryKeeps DEF ClientOK
<1>2. ConfirmHello(c) = IF c.acked THEN c ELSE r
  BY DEF ConfirmHello
<1> HIDE DEF d
<1>3. /\ r \in Client /\ r.acked /\ ~ r.handle /\ r.sends = d.sends
      /\ r.timers = d.timers /\ r.epoch = d.epoch /\ r.reached = d.reached
  BY <1>1 DEF Client
<1>4. r.timers \in Nat /\ MaxChains \in Nat
  BY <1>3, HandshakeAssumption DEF Client
<1> HIDE DEF r
<1> QED BY <1>0, <1>1, <1>2, <1>3, <1>4 DEF ClientOK

(* A client that starts awaits its first HELLO. *)
LEMMA StartingOK ==
  ASSUME NEW b \in BOOLEAN, NEW e \in 1 .. MaxEpoch, NEW r \in 1 .. MaxEpoch,
         NEW p \in Ports
  PROVE  /\ ClientOK(Starting(b, e, r, p)) /\ Starting(b, e, r, p).epoch = e
         /\ r <= Starting(b, e, r, p).reached
<1>1. PICK n : n = IF e > r THEN e ELSE r
  OBVIOUS
<1>2. n \in 1 .. MaxEpoch /\ e <= n /\ r <= n
  BY <1>1, HandshakeAssumption
<1>3. Starting(b, e, r, p) =
        [bonded |-> b, epoch |-> e, reached |-> n, port |-> p,
         ready |-> FALSE, acked |-> FALSE, sends |-> 1, timers |-> 0,
         handle |-> FALSE, stopped |-> FALSE]
  BY <1>1 DEF Starting
<1> QED BY <1>2, <1>3, HandshakeAssumption DEF ClientOK, Client

(* A HELLO carries the epoch of its client. *)
LEMMA HelloOfClient ==
  ASSUME NEW c \in Client
  PROVE  /\ HelloOf(c) \subseteq [port : Ports, epoch : 1 .. MaxEpoch]
         /\ \A m \in HelloOf(c) : m.epoch = c.epoch
BY DEF HelloOf, Client

-----------------------------------------------------------------------------
(* The invariant holds when the first client starts. *)
LEMMA Start == Init => Both
<1> SUFFICES ASSUME Init PROVE Both
  OBVIOUS
<1>1. PICK b \in BOOLEAN, p \in Ports : client = Starting(b, 1, 1, p)
  BY DEF Init
<1>2. ClientOK(client) /\ client.epoch = 1 /\ 1 <= client.reached
  BY <1>1, StartingOK, HandshakeAssumption
<1>3. /\ hello \subseteq [port : Ports, epoch : 1 .. MaxEpoch]
      /\ \A m \in hello : m.epoch = 1
  BY <1>2, HelloOfClient DEF Init, ClientOK
<1>4. /\ guards \in [Ports -> Guard] /\ sessions \in [Ports -> Session]
      /\ \A p_1 \in Ports : guards[p_1].epoch = 0
  BY HandshakeAssumption DEF Init, NewGuard, Guard, NewSession, Session
<1> QED BY <1>2, <1>3, <1>4 DEF Init, Both, ServerOK

(* A step of the client that leaves the server alone and sends at most its *)
(* HELLO.                                                                  *)
LEMMA ClientStep ==
  ASSUME Both, ClientOK(client'), client.reached <= client'.reached,
         NEW c \in Client, c.epoch <= client'.reached,
         hello' \subseteq hello \cup HelloOf(c),
         data' \subseteq Ports, control' \subseteq Ports,
         UNCHANGED server
  PROVE  Both'
<1>1. /\ hello' \subseteq [port : Ports, epoch : 1 .. MaxEpoch]
      /\ \A m \in HelloOf(c) : m.epoch <= client'.reached
  BY HelloOfClient DEF Both, ServerOK
<1>2. client.reached \in Nat /\ client'.reached \in Nat
  BY DEF Both, ClientOK, Client
<1>3. \A m \in hello : m.epoch \in Nat /\ m.epoch <= client.reached
  BY DEF Both, ServerOK
<1>4. \A p \in Ports : guards[p].epoch \in Nat
  BY DEF Both, ServerOK, Guard
<1>5. \A m \in hello' : m.epoch <= client'.reached
  BY <1>1, <1>2, <1>3
<1>6. \A p \in Ports : guards'[p].epoch > 0 =>
                        /\ guards'[p].handshaked
                        /\ Address(p) \in known'
                        /\ guards'[p].epoch <= client'.reached
  BY <1>2, <1>4 DEF Both, ServerOK, server
<1> QED BY <1>1, <1>5, <1>6 DEF Both, ServerOK, server

(* The counters of a client are numbers within the bound. *)
LEMMA Counters ==
  ASSUME NEW c, ClientOK(c)
  PROVE  /\ c \in Client /\ c.sends \in Nat /\ c.timers \in Nat
         /\ c.epoch \in Nat /\ c.reached \in Nat /\ MaxChains \in Nat
         /\ c.epoch <= c.reached
         /\ c.sends + c.timers <= MaxChains
BY HandshakeAssumption DEF ClientOK, Client

(* sendHello, of a client that differs in port and readiness only. *)
LEMMA CallsHelloPreserves ==
  ASSUME Both, NEW c \in Client, CallsHello(c),
         c.epoch = client.epoch, c.reached = client.reached,
         c.sends = client.sends, c.timers = client.timers,
         c.handle = client.handle
  PROVE  Both'
<1>1. /\ ClientOK(client') /\ client'.epoch = client.epoch
      /\ client'.reached = client.reached
  BY SendHelloKeeps DEF CallsHello, MayCallHello, Both, ClientOK
<1> QED
  BY <1>1, ClientStep, Counters DEF CallsHello, Both, ServerOK, server

(* The end of a send arms the retry. *)
LEMMA HelloSentPreserves ==
  ASSUME Both, HelloSent
  PROVE  Both'
<1> DEFINE n == client.sends - 1
           c == [client EXCEPT !.sends = n, !.ready = TRUE]
<1>1. /\ client \in Client /\ client.sends \in Nat /\ client.timers \in Nat
      /\ client.sends > 0 /\ client.sends + client.timers <= MaxChains
      /\ MaxChains \in Nat
  BY Counters DEF Both, HelloSent
<1>2. n \in 0 .. MaxChains /\ n + client.timers < MaxChains
  BY <1>1
<1>3. client' = ScheduleHelloRetry(c)
  BY DEF HelloSent
<1> HIDE DEF n
<1>4. /\ c \in Client /\ c.sends = n /\ c.timers = client.timers
      /\ c.handle = client.handle /\ c.epoch = client.epoch
      /\ c.reached = client.reached
  BY <1>1, <1>2 DEF Client
<1> HIDE DEF c
<1>5. /\ ClientOK(client') /\ client'.epoch = client.epoch
      /\ client'.reached = client.reached
  BY <1>2, <1>3, <1>4, ScheduleHelloRetryKeeps DEF Both, ClientOK
<1> QED
  BY <1>1, <1>5, ClientStep, Counters
  DEF HelloSent, Both, ServerOK, server, network

(* A retry timer that fires becomes a send, or is needed no more. *)
LEMMA RetryTimerPreserves ==
  ASSUME Both, RetryTimer
  PROVE  Both'
<1> DEFINE n == client.timers - 1
           k == client.sends + 1
           c == [client EXCEPT !.timers = n, !.handle = FALSE]
           d == [c EXCEPT !.sends = k]
<1>1. /\ client \in Client /\ client.sends \in Nat /\ client.timers \in Nat
      /\ client.timers > 0 /\ client.sends + client.timers <= MaxChains
      /\ MaxChains \in Nat /\ client.epoch \in Nat /\ client.reached \in Nat
      /\ client.epoch <= client.reached
  BY Counters DEF Both, RetryTimer
<1>2. /\ n \in 0 .. MaxChains /\ k \in 0 .. MaxChains /\ k > 0
      /\ k + n <= MaxChains /\ client.sends + n <= MaxChains
  BY <1>1
<1>3. /\ Fired(client) = c
      /\ [Fired(client) EXCEPT !.sends = @ + 1]
           = [c EXCEPT !.sends = c.sends + 1]
  BY DEF Fired
<1> HIDE DEF n, k
<1>4. /\ c \in Client /\ c.sends = client.sends /\ c.timers = n
      /\ ~ c.handle /\ c.epoch = client.epoch /\ c.reached = client.reached
      /\ c.acked = client.acked /\ c.stopped = client.stopped
  BY <1>1, <1>2 DEF Client
<1>5. [Fired(client) EXCEPT !.sends = @ + 1] = d
  BY <1>3, <1>4 DEF k
<1> HIDE DEF c
<1>6. /\ d \in Client /\ d.sends = k /\ d.timers = n
      /\ ~ d.handle /\ d.epoch = client.epoch /\ d.reached = client.reached
  BY <1>2, <1>4 DEF Client
<1> HIDE DEF d
<1>7. CASE client.acked \/ client.stopped
  <2>1. client' = c /\ hello' = hello
    BY <1>3, <1>7 DEF RetryTimer
  <2>2. ClientOK(client')
    BY <1>1, <1>2, <1>4, <1>7, <2>1 DEF ClientOK
  <2> QED
    BY <1>1, <1>4, <2>1, <2>2, ClientStep
    DEF RetryTimer, Both, ServerOK, server
<1>8. CASE ~ (client.acked \/ client.stopped)
  <2>1. client' = d /\ hello' = hello \cup HelloOf(client)
    BY <1>5, <1>8 DEF RetryTimer
  <2>2. ClientOK(client')
    BY <1>1, <1>2, <1>6, <2>1 DEF ClientOK
  <2> QED
    BY <1>1, <1>6, <2>1, <2>2, ClientStep
    DEF RetryTimer, Both, ServerOK, server
<1> QED BY <1>7, <1>8

(* Another port or another readiness changes nothing of what ClientOK says. *)
LEMMA PortKeeps ==
  ASSUME NEW c, ClientOK(c), NEW p \in Ports \cup {NoPort}, NEW r \in BOOLEAN
  PROVE  LET d == [c EXCEPT !.port = p, !.ready = r]
         IN  /\ ClientOK(d) /\ d.epoch = c.epoch /\ d.reached = c.reached
             /\ d.sends = c.sends /\ d.timers = c.timers /\ d.handle = c.handle
BY DEF ClientOK, Client

(* The keepalive, a switch of links and a recovery call sendHello. *)
LEMMA CallersPreserve ==
  ASSUME Both,
         \/ Keepalive
         \/ \E p \in Ports : SwitchLink(p) \/ SocketRecovered(p)
  PROVE  Both'
<1>1. CASE Keepalive
  BY <1>1, CallsHelloPreserves DEF Keepalive, Both, ClientOK
<1>2. ASSUME NEW p \in Ports, SwitchLink(p)
      PROVE  Both'
  <2> DEFINE c == [client EXCEPT !.port = p]
  <2>1. /\ c \in Client /\ c.epoch = client.epoch
        /\ c.reached = client.reached /\ c.sends = client.sends
        /\ c.timers = client.timers /\ c.handle = client.handle
    BY DEF Both, ClientOK, Client
  <2>2. CallsHello(c)
    BY <1>2 DEF SwitchLink
  <2> HIDE DEF c
  <2> QED BY <2>1, <2>2, CallsHelloPreserves
<1>3. ASSUME NEW p \in Ports, SocketRecovered(p)
      PROVE  Both'
  <2> DEFINE c == [client EXCEPT !.port = p, !.ready = TRUE]
  <2>1. /\ c \in Client /\ c.epoch = client.epoch
        /\ c.reached = client.reached /\ c.sends = client.sends
        /\ c.timers = client.timers /\ c.handle = client.handle
    BY PortKeeps DEF Both, ClientOK
  <2>2. CallsHello(c)
    BY <1>3 DEF SocketRecovered
  <2> HIDE DEF c
  <2> QED BY <2>1, <2>2, CallsHelloPreserves
<1> QED BY <1>1, <1>2, <1>3

(* A lost socket and a rebinding change the port only. *)
LEMMA PortStepsPreserve ==
  ASSUME Both,
         SocketError \/ \E p \in Ports : Rebind(p)
  PROVE  Both'
<1>1. PICK p \in Ports \cup {NoPort} :
        /\ client' = [client EXCEPT !.port = p]
        /\ UNCHANGED <<server, network>>
  BY DEF SocketError, Rebind
<1>2. /\ ClientOK(client') /\ client'.epoch = client.epoch
      /\ client'.reached = client.reached
  BY <1>1 DEF ClientOK, Client, Both
<1> QED BY <1>1, <1>2, Counters, ClientStep DEF Both, ServerOK, server, network

(* A control packet confirms, if it reaches the client. *)
LEMMA ReceiveControlPreserves ==
  ASSUME Both, NEW p \in Ports, ReceiveControl(p)
  PROVE  Both'
<1>1. /\ ClientOK(client') /\ client'.epoch = client.epoch
      /\ client'.reached = client.reached
  BY ConfirmHelloKeeps DEF ReceiveControl, Both
<1> QED
  BY <1>1, Counters, ClientStep
  DEF ReceiveControl, Both, ServerOK, server, network

(* stop clears the timer it knows. *)
LEMMA StopPreserves ==
  ASSUME Both, Stop
  PROVE  Both'
<1> DEFINE d == StopHelloRetry(client)
           r == [d EXCEPT !.stopped = TRUE, !.port = NoPort]
<1>1. /\ client \in Client /\ client.sends \in Nat /\ client.timers \in Nat
      /\ MaxChains \in Nat /\ client.sends + client.timers <= MaxChains
      /\ client.epoch \in Nat /\ client.reached \in Nat
      /\ client.epoch <= client.reached
  BY Counters DEF Both
<1>2. /\ d \in Client /\ ~ d.handle /\ d.sends = client.sends
      /\ d.timers <= client.timers /\ d.epoch = client.epoch
      /\ d.reached = client.reached
  BY <1>1, StopHelloRetryKeeps DEF Both, ClientOK
<1>3. client' = r
  BY DEF Stop
<1> HIDE DEF d
<1>4. /\ r \in Client /\ r.stopped /\ ~ r.handle /\ r.sends = d.sends
      /\ r.timers = d.timers /\ r.epoch = d.epoch /\ r.reached = d.reached
  <2>1. PICK a : a = [d EXCEPT !.stopped = TRUE]
    OBVIOUS
  <2>2. /\ a \in Client /\ a.stopped /\ ~ a.handle /\ a.sends = d.sends
        /\ a.timers = d.timers /\ a.epoch = d.epoch /\ a.reached = d.reached
    BY <1>2, <2>1 DEF Client
  <2>3. r = [a EXCEPT !.port = NoPort]
    BY <2>1
  <2> QED BY <2>2, <2>3 DEF Client
<1> HIDE DEF r
<1>5. r.timers \in Nat
  BY <1>1, <1>4 DEF Client
<1>6. /\ ClientOK(client') /\ client'.epoch = client.epoch
      /\ client'.reached = client.reached
  BY <1>1, <1>2, <1>3, <1>4, <1>5 DEF ClientOK
<1> QED BY <1>1, <1>6, ClientStep DEF Stop, Both, ServerOK, server, network

(* The next start may have any epoch. *)
LEMMA ClientRestartPreserves ==
  ASSUME Both, NEW p \in Ports, NEW e \in 1 .. MaxEpoch, ClientRestart(p, e)
  PROVE  Both'
<1>1. /\ client.bonded \in BOOLEAN /\ client.reached \in 1 .. MaxEpoch
      /\ client' = Starting(client.bonded, e, client.reached, p)
  BY DEF ClientRestart, Both, ClientOK, Client
<1>2. ClientOK(client') /\ client.reached <= client'.reached
  BY <1>1, StartingOK
<1>3. client' \in Client /\ client'.epoch <= client'.reached
  BY <1>2 DEF ClientOK
<1> QED
  BY <1>2, <1>3, ClientStep DEF ClientRestart, Both, ServerOK, server

-----------------------------------------------------------------------------
(* Steps that leave the client, the guards and the addresses alone. *)
LEMMA TrafficPreserves ==
  ASSUME Both, UNCHANGED <<client, guards, known>>,
         sessions' \in [Ports -> Session],
         hello' \subseteq hello,
         data' \subseteq Ports, control' \subseteq Ports
  PROVE  Both'
BY DEF Both, ServerOK

(* DATA of a client with a socket. *)
LEMMA SendDataPreserves ==
  ASSUME Both, SendData
  PROVE  Both'
<1>1. client.port \in Ports
  BY DEF SendData, Both, ClientOK, Client
<1> QED BY <1>1, TrafficPreserves DEF SendData, server, Both, ServerOK

(* A HELLO, however old, arms its guard and never lowers an epoch. *)
LEMMA ReceiveHelloPreserves ==
  ASSUME Both, NEW m \in hello, ReceiveHello(m)
  PROVE  Both'
<1> DEFINE p == m.port
           g == guards[p]
           e == IF Restarted(g, m.epoch) THEN m.epoch ELSE g.epoch
<1>1. /\ p \in Ports /\ m.epoch \in 1 .. MaxEpoch /\ m.epoch <= client.reached
      /\ client.reached \in Nat
  BY Counters DEF Both, ServerOK
<1>2. g \in Guard /\ (g.epoch > 0 => g.epoch <= client.reached)
  BY <1>1 DEF Both, ServerOK
<1>3. e \in 0 .. MaxEpoch /\ e <= client.reached
  <2>1. g.epoch \in 0 .. MaxEpoch /\ g.epoch <= client.reached
    BY <1>1, <1>2, HandshakeAssumption DEF Guard
  <2>2. m.epoch \in 0 .. MaxEpoch
    BY <1>1, HandshakeAssumption
  <2>3. e = g.epoch \/ e = m.epoch
    OBVIOUS
  <2> QED BY <1>1, <2>1, <2>2, <2>3
<1>4. guards' = [guards EXCEPT ![p] = [epoch |-> e, handshaked |-> TRUE]]
  BY DEF ReceiveHello
<1> HIDE DEF e
<1>5. guards' \in [Ports -> Guard]
  BY <1>3, <1>4 DEF Both, ServerOK, Guard
<1>6. known' = known \cup {Address(p)}
  BY DEF ReceiveHello, KnownWith
<1>7. \A q \in Ports : guards'[q].epoch > 0 =>
        /\ guards'[q].handshaked /\ Address(q) \in known'
        /\ guards'[q].epoch <= client.reached
  <2> TAKE q \in Ports
  <2>1. CASE q = p
    BY <1>1, <1>3, <1>4, <1>6, <2>1 DEF Both, ServerOK
  <2>2. CASE q # p
    BY <1>4, <1>6, <2>2 DEF Both, ServerOK
  <2> QED BY <2>1, <2>2
<1>8. /\ sessions' \in [Ports -> Session] /\ control' \subseteq Ports
      /\ hello' \subseteq hello /\ UNCHANGED <<client, data>>
  <2>1. sessions \in [Ports -> Session] /\ control \subseteq Ports
    BY DEF Both, ServerOK
  <2>2. sessions' \in [Ports -> Session]
    BY <1>1, <2>1 DEF ReceiveHello, Session
  <2>3. /\ control' \subseteq Ports /\ hello' \subseteq hello
        /\ UNCHANGED <<client, data>>
    BY <1>1, <2>1 DEF ReceiveHello
  <2> QED BY <2>2, <2>3
<1> QED BY <1>1, <1>5, <1>6, <1>7, <1>8 DEF Both, ServerOK

(* DATA changes the session only. *)
LEMMA ReceiveDataPreserves ==
  ASSUME Both, NEW p \in Ports, NEW fresh \in BOOLEAN, ReceiveData(p, fresh)
  PROVE  Both'
<1>1. sessions' \in [Ports -> Session] /\ control' \subseteq Ports
  <2>1. CASE UNCHANGED <<sessions, control>>
    BY <2>1 DEF Both, ServerOK
  <2>2. CASE Accepted(p, fresh)
    <3>1. /\ sessions \in [Ports -> Session] /\ control \subseteq Ports
      BY DEF Both, ServerOK
    <3>2. [sessions[p] EXCEPT !.heard = TRUE, !.based = TRUE] \in Session
      BY <3>1 DEF Session
    <3>3. \/ sessions' = sessions
          \/ sessions' =
               [sessions EXCEPT ![p] =
                  [sessions[p] EXCEPT !.heard = TRUE, !.based = TRUE]]
      BY <2>2, <3>1 DEF Accepted
    <3>4. control' \subseteq control \cup {p}
      BY <2>2 DEF Accepted
    <3> QED BY <3>1, <3>2, <3>3, <3>4
  <2> QED BY <2>1, <2>2 DEF ReceiveData
<1> QED BY <1>1, TrafficPreserves DEF ReceiveData, Both, ServerOK

(* A periodic ACK changes nothing but the network. *)
LEMMA PeriodicACKPreserves ==
  ASSUME Both, NEW p \in Ports, PeriodicACK(p)
  PROVE  Both'
BY TrafficPreserves DEF PeriodicACK, Both, ServerOK, server

(* The guard of a session outlives it. *)
LEMMA SessionGonePreserves ==
  ASSUME Both, NEW p \in Ports, SessionGone(p)
  PROVE  Both'
<1>1. sessions' \in [Ports -> Session]
  BY DEF SessionGone, Both, ServerOK, NewSession, Session
<1> QED
  BY <1>1, TrafficPreserves
  DEF SessionGone, GuardsAfter, Both, ServerOK, network

(* A new server knows nobody. *)
LEMMA ServerRestartPreserves ==
  ASSUME Both, ServerRestart
  PROVE  Both'
<1>1. /\ guards' \in [Ports -> Guard] /\ sessions' \in [Ports -> Session]
      /\ \A p \in Ports : guards'[p].epoch = 0
  BY HandshakeAssumption
  DEF ServerRestart, NewGuard, Guard, NewSession, Session
<1> QED BY <1>1 DEF ServerRestart, Both, ServerOK, network

(* Loss only removes. *)
LEMMA LosePreserves ==
  ASSUME Both, Lose
  PROVE  Both'
BY TrafficPreserves DEF Lose, Both, ServerOK, server

(* All steps together. *)
LEMMA NextPreserves ==
  ASSUME Both, [Next]_vars
  PROVE  Both'
<1>1. CASE ClientNext
  BY <1>1, HelloSentPreserves, RetryTimerPreserves, CallersPreserve,
     PortStepsPreserve, SendDataPreserves, ReceiveControlPreserves,
     StopPreserves, ClientRestartPreserves
  DEF ClientNext
<1>2. CASE ServerNext
  BY <1>2, ReceiveHelloPreserves, ReceiveDataPreserves, PeriodicACKPreserves,
     SessionGonePreserves, ServerRestartPreserves
  DEF ServerNext
<1>3. CASE Lose
  BY <1>3, LosePreserves
<1>4. CASE UNCHANGED vars
  BY <1>4 DEF vars, server, network, Both, ServerOK
<1> QED BY <1>1, <1>2, <1>3, <1>4 DEF Next

-----------------------------------------------------------------------------
(* So both parts always hold. *)
LEMMA BothHold == Spec => []Both
<1>1. Both /\ [Next]_vars => Both'
  BY NextPreserves
<1> QED BY Start, <1>1, PTL DEF Spec

(* Whatever is lost, repeated or restarted, enforcement of the replay      *)
(* guards of data-handler.ts is armed by a HELLO only, and by one of an    *)
(* epoch that the client has reached.                                      *)
THEOREM HandshakeSound == Spec => []HandshakeInv
BY BothHold, BothEnds, PTL

(* The retry schedule of lifecycle.ts never dies unconfirmed, however many *)
(* HELLO sends overlap.                                                    *)
THEOREM RetryStaysAlive == Spec => []RetryAlive
<1>1. HandshakeInv => RetryAlive
  BY DEF HandshakeInv
<1> QED BY HandshakeSound, <1>1, PTL

(* While the server runs, no HELLO, however old, and no expiry of a        *)
(* session lowers the epoch of a guard or takes its handshake back.        *)
THEOREM HandshakesAreKept == Spec => HandshakeIsKept
<1> DEFINE Kept == \A p \in Ports :
                     /\ guards[p].epoch <= guards'[p].epoch
                     /\ guards[p].handshaked => guards'[p].handshaked
<1>1. ASSUME Both, [Next]_vars
      PROVE  [ServerRestart \/ Kept]_vars
  <2>1. \A p \in Ports : guards[p].epoch \in Nat
    BY <1>1, HandshakeAssumption DEF Both, ServerOK, Guard
  <2>2. CASE guards' = guards
    BY <2>1, <2>2
  <2>3. ASSUME NEW m \in hello, ReceiveHello(m)
        PROVE  Kept
    <3>1. /\ guards \in [Ports -> Guard] /\ m.epoch \in Nat /\ m.port \in Ports
      BY <1>1 DEF Both, ServerOK
    <3>2. /\ guards'[m.port].handshaked
          /\ guards[m.port].epoch <= guards'[m.port].epoch
      BY <2>1, <2>3, <3>1 DEF ReceiveHello, Restarted
    <3>3. \A p \in Ports : p # m.port => guards'[p] = guards[p]
      BY <2>3, <3>1 DEF ReceiveHello
    <3> QED BY <2>1, <3>2, <3>3
  <2>4. \/ guards' = guards \/ ServerRestart
        \/ \E m \in hello : ReceiveHello(m)
    BY <1>1 DEF Next, ClientNext, ServerNext, vars, server, network,
      HelloSent, RetryTimer, CallsHello, Keepalive, SwitchLink, SocketError,
      SocketRecovered, Rebind, SendData, ReceiveControl, Stop, ClientRestart,
      ReceiveData, PeriodicACK, SessionGone, GuardsAfter, Lose
  <2> HIDE DEF Kept
  <2> QED BY <2>2, <2>3, <2>4
<1>2. [][Next]_vars /\ []Both => [][ServerRestart \/ Kept]_vars
  BY <1>1, PTL
<1> QED BY BothHold, <1>2, PTL DEF Spec, HandshakeIsKept

-----------------------------------------------------------------------------
(* The two links. *)

(* What BondingInv says of one link. *)
LinkOK(s) ==
  /\ s \in LinkState
  /\ s.recoveryTimer # "fired"
  /\ s.error => s.recoveryTimer = "armed" \/ s.lost

(* The constants, and the clocks that saturate, are natural numbers. *)
LEMMA Numbers ==
  /\ Bound \subseteq Links
  /\ HeartbeatTimeout \in Nat \ {0} /\ MinProbes \in Nat \ {0}
  /\ FailbackDelay \in Nat \ {0} /\ MinDwell \in Nat \ {0}
  /\ MaxForced \in Nat /\ MaxFaults \in Nat
  /\ Longest \in Nat /\ FailbackDelay <= Longest /\ MinDwell <= Longest
BY BondingAssumption DEF Longest

(* A clock that counts on stays in range and gains at most one. *)
LEMMA LaterInRange ==
  ASSUME NEW n \in 0 .. Longest
  PROVE  Later(n) \in 0 .. Longest /\ Later(n) <= n + 1
BY Numbers DEF Later

(* A health check leaves a link well formed and only ever marks it down. *)
LEMMA MeasureKeeps ==
  ASSUME NEW s, LinkOK(s), NEW q \in Quality
  PROVE  /\ LinkOK(Measure(s, q))
         /\ Measure(s, q).status \in {s.status, "down"}
<1> DEFINE sent == IF s.sent <= MinProbes THEN s.sent + 1 ELSE s.sent
           silence == IF s.silence <= HeartbeatTimeout THEN s.silence + 1
                      ELSE s.silence
           t == [s EXCEPT !.sent = sent, !.silence = silence, !.quality = q]
<1>1. s \in LinkState
  BY DEF LinkOK
<1>2. sent \in 0 .. MinProbes + 1 /\ silence \in 0 .. HeartbeatTimeout + 1
  BY <1>1, Numbers DEF LinkState
<1> HIDE DEF sent, silence
<1>3. /\ t \in LinkState
      /\ [t EXCEPT !.status = "down"] \in LinkState
  BY <1>1, <1>2 DEF LinkState, Status
<1>4. /\ t.status = s.status /\ t.recoveryTimer = s.recoveryTimer
      /\ t.error = s.error /\ t.lost = s.lost
  BY <1>1 DEF LinkState
<1>5. LinkOK(t)
  BY <1>3, <1>4 DEF LinkOK
<1>6. LinkOK([t EXCEPT !.status = "down"])
  BY <1>3, <1>5 DEF LinkOK, LinkState
<1>7. /\ [t EXCEPT !.status = "down"].status = "down"
      /\ Measure(s, q) \in {s, t, [t EXCEPT !.status = "down"]}
  BY <1>3 DEF Measure, sent, silence, LinkState
<1> QED BY <1>4, <1>5, <1>6, <1>7

(* What expired probes make of a quality is a quality. *)
LEMMA QualityAfterInQuality ==
  ASSUME NEW s, LinkOK(s)
  PROVE  QualityAfter(s) \subseteq Quality
BY DEF QualityAfter

(* BondingInv, read link by link: what the steps below preserve. *)
Linkwise ==
  /\ stage \in {"new", "up", "stopped"} \cup Links
  /\ activeLink \in Links
  /\ links \in [Links -> LinkState]
  /\ {sinceFailover, sinceFailback, quiet} \subseteq 0 .. Longest
  /\ forced \in 0 .. MaxForced /\ faults \in 0 .. MaxFaults
  /\ \A l \in Links :
       /\ LinkOK(links[l])
       /\ links[l].status = "unknown" => stage # "up"
       /\ links[l].status = "active" => activeLink = l
  /\ stage \in {"new"} \cup Links => activeLink = "primary"
  /\ stage = "up" => quiet = IF activeLink = "primary" THEN sinceFailback
                             ELSE sinceFailover

(* The two readings agree. *)
LEMMA ByLink == BondingInv <=> Linkwise
BY DEF BondingInv, BondingTypeOK, OneActiveLink, BrokenSocketIsReplaced,
       LinkOK, Linkwise

(* Two link states make a state of both links. *)
LEMMA Pair ==
  ASSUME NEW a \in LinkState, NEW b \in LinkState
  PROVE  /\ [primary |-> a, backup |-> b] \in [Links -> LinkState]
         /\ [primary |-> a, backup |-> b]["primary"] = a
         /\ [primary |-> a, backup |-> b]["backup"] = b
BY DEF Links

(* It holds of a manager that is not initialised. *)
LEMMA BondingStart == BondingInit => Linkwise
<1> SUFFICES ASSUME BondingInit PROVE Linkwise
  OBVIOUS
<1>1. LinkOK(NewLink) /\ NewLink.status = "unknown"
  BY Numbers DEF NewLink, LinkOK, LinkState, Status, Quality
<1>2. links = [l \in Links |-> NewLink]
  BY DEF BondingInit
<1>3. \A l \in Links : links[l] = NewLink
  BY <1>2
<1>4. links \in [Links -> LinkState]
  BY <1>1, <1>2 DEF LinkOK
<1>5. /\ Longest \in 0 .. Longest /\ 0 \in 0 .. Longest
      /\ 0 \in 0 .. MaxForced /\ 0 \in 0 .. MaxFaults
  BY Numbers
<1> QED BY <1>1, <1>3, <1>4, <1>5 DEF Linkwise, BondingInit, Links

-----------------------------------------------------------------------------
(* Each step, from Linkwise. *)

LEMMA OpenedOK ==
  ASSUME NEW l \in Links, LinkOK(links[l])
  PROVE  /\ LinkOK(Opened(l)) /\ Opened(l).status = "standby"
         /\ LinkOK([Opened(l) EXCEPT !.status = "active"])
         /\ LinkOK([links[l] EXCEPT !.socket = TRUE])
         /\ [links[l] EXCEPT !.socket = TRUE].status = links[l].status
BY DEF Opened, LinkOK, LinkState, Status

(* The end of initialize: only the primary is active. *)
LEMMA InitializedPreserves ==
  ASSUME Linkwise, Initialized, activeLink = "primary",
         quiet' = 0, UNCHANGED <<activeLink, sinceFailover, forced, faults>>
  PROVE  Linkwise'
<1>1. LinkOK(links["primary"]) /\ LinkOK(links["backup"])
  BY DEF Linkwise, Links
<1> DEFINE a == [Opened("primary") EXCEPT !.status = "active"]
           b == Opened("backup")
<1>2. LinkOK(a) /\ LinkOK(b) /\ b.status = "standby" /\ a.status = "active"
  BY <1>1, OpenedOK DEF Links, LinkOK, LinkState, Opened
<1>3. links' = [primary |-> a, backup |-> b]
  BY DEF Initialized
<1> HIDE DEF a, b
<1>4. /\ links' \in [Links -> LinkState]
      /\ links'["primary"] = a /\ links'["backup"] = b
  BY <1>2, <1>3, Pair DEF LinkOK
<1>5. stage' = "up" /\ sinceFailback' = 0 /\ 0 \in 0 .. Longest
  BY Numbers DEF Initialized
<1>6. \A l \in Links :
         /\ LinkOK(links'[l])
         /\ links'[l].status # "unknown"
         /\ links'[l].status = "active" => activeLink' = l
  BY <1>2, <1>4 DEF Links
<1> QED BY <1>4, <1>5, <1>6 DEF Linkwise, Links, LinkOK

(* A link whose bind is awaited. *)
LEMMA BindingPreserves ==
  ASSUME Linkwise, NEW l \in Links, Binding(l), activeLink = "primary",
         quiet' = 0, UNCHANGED <<activeLink, sinceFailover, forced, faults>>
  PROVE  Linkwise'
<1>1. \A k \in Links : LinkOK(links[k])
  BY DEF Linkwise
<1>2. \A k \in Links : /\ LinkOK(links'[k])
                       /\ \/ links'[k].status = links[k].status
                          \/ links'[k].status = "standby"
  <2>1. links \in [Links -> LinkState]
    BY DEF Linkwise
  <2>2. CASE l = "backup"
    <3>1. /\ links'["backup"] = [links["backup"] EXCEPT !.socket = TRUE]
          /\ links'["primary"] = Opened("primary")
      BY <2>1, <2>2 DEF Binding, Links
    <3> QED BY <1>1, <3>1, OpenedOK DEF Links
  <2>3. CASE l = "primary"
    <3>1. /\ links'["backup"] = links["backup"]
          /\ \/ links'["primary"] = [links["primary"] EXCEPT !.socket = TRUE]
             \/ links'["primary"] = [[links["primary"] EXCEPT !.socket = TRUE]
                                      EXCEPT !.socket = TRUE]
      BY <2>1, <2>3 DEF Binding, Links
    <3>2. [[links["primary"] EXCEPT !.socket = TRUE] EXCEPT !.socket = TRUE]
            = [links["primary"] EXCEPT !.socket = TRUE]
      BY <1>1 DEF LinkOK, LinkState, Links
    <3> QED BY <1>1, <3>1, <3>2, OpenedOK DEF Links
  <2> QED BY <2>2, <2>3 DEF Links
<1>3. links' \in [Links -> LinkState]
  BY <1>2 DEF Linkwise, Binding, LinkOK, Links
<1>4. /\ stage' = l /\ sinceFailback' = sinceFailback
      /\ 0 \in 0 .. Longest
  BY Numbers DEF Binding
<1> QED BY <1>2, <1>3, <1>4 DEF Linkwise, Links

(* stop closes the sockets and clears the timers. *)
LEMMA StopLinksPreserves ==
  ASSUME Linkwise, StopLinks
  PROVE  Linkwise'
<1>1. \A l \in Links : links'[l] = Closed(links[l])
  BY DEF StopLinks
<1>2. \A l \in Links : /\ LinkOK(Closed(links[l]))
                       /\ Closed(links[l]).status = links[l].status
  <2> SUFFICES ASSUME NEW l \in Links
               PROVE  /\ LinkOK(Closed(links[l]))
                      /\ Closed(links[l]).status = links[l].status
    OBVIOUS
  <2>1. PICK k : k = links[l]
    OBVIOUS
  <2>2. LinkOK(k)
    BY <2>1 DEF Linkwise
  <2>3. PICK c : c = Closed(k)
    OBVIOUS
  <2>4. LinkOK(c) /\ c.status = k.status
    BY <2>2, <2>3 DEF Closed, LinkOK, LinkState
  <2> QED BY <2>1, <2>3, <2>4
<1>3. links' \in [Links -> LinkState]
  BY <1>2 DEF StopLinks, LinkOK
<1> QED BY <1>1, <1>2, <1>3 DEF Linkwise, StopLinks, times, Links

(* A step that replaces the state of one link, the traffic where it is. *)
LEMMA OneLinkPreserves ==
  ASSUME Linkwise, stage = "up" \/ stage = "backup",
         NEW l \in Links, NEW s, LinkOK(s),
         \/ s.status \in {links[l].status, "down", "standby"}
         \/ s.status = "active" /\ activeLink = l,
         links' = [links EXCEPT ![l] = s],
         faults' \in 0 .. MaxFaults,
         UNCHANGED <<stage, activeLink, times, forced>>
  PROVE  Linkwise'
<1>1. \A k \in Links : links'[k] = IF k = l THEN s ELSE links[k]
  BY DEF Linkwise
<1>2. links' \in [Links -> LinkState]
  BY DEF Linkwise, LinkOK
<1> QED BY <1>1, <1>2 DEF Linkwise, times

(* The bound on faults is kept. *)
LEMMA FaultInRange ==
  ASSUME Linkwise, Fault \/ UNCHANGED faults
  PROVE  faults' \in 0 .. MaxFaults
BY Numbers DEF Linkwise, Fault

(* An answer revives its link, as active only where the traffic is. *)
LEMMA RespondPreserves ==
  ASSUME Linkwise, NEW l \in Links, NEW q \in Quality, Respond(l, q)
  PROVE  Linkwise'
<1> DEFINE answered == IF links[l].status # "down" THEN links[l].status
                       ELSE IF activeLink = l THEN "active" ELSE "standby"
           s == [links[l] EXCEPT !.silence = 0, !.quality = q,
                                 !.status = answered]
<1>1. links \in [Links -> LinkState] /\ LinkOK(links[l])
  BY DEF Linkwise
<1>2. links' = [links EXCEPT ![l] = s]
  BY <1>1 DEF Respond
<1>3. answered \in Status /\ 0 \in 0 .. HeartbeatTimeout + 1
  BY <1>1, Numbers DEF LinkState, Status
<1>4. \/ answered \in {links[l].status, "down", "standby"}
      \/ answered = "active" /\ activeLink = l
  OBVIOUS
<1> HIDE DEF answered
<1>5. LinkOK(s) /\ s.status = answered
  BY <1>1, <1>3 DEF LinkOK, LinkState
<1> QED BY <1>2, <1>4, <1>5, OneLinkPreserves, FaultInRange DEF Respond

(* After an error a recovery is armed, unless it was. *)
LEMMA LinkSocketErrorPreserves ==
  ASSUME Linkwise, NEW l \in Links, LinkSocketError(l)
  PROVE  Linkwise'
<1> DEFINE timer == IF links[l].recoveryTimer = "none" THEN "armed"
                    ELSE links[l].recoveryTimer
           s == [links[l] EXCEPT !.status = "down", !.error = TRUE,
                                 !.binding = FALSE, !.recoveryTimer = timer]
<1>1. links \in [Links -> LinkState] /\ LinkOK(links[l])
  BY DEF Linkwise
<1>2. links' = [links EXCEPT ![l] = s]
  BY <1>1 DEF LinkSocketError
<1>3. timer = "armed"
  BY <1>1 DEF LinkOK, LinkState
<1>4. LinkOK(s) /\ s.status = "down"
  BY <1>1, <1>3 DEF LinkOK, LinkState, Status
<1> QED
  BY <1>2, <1>4, OneLinkPreserves, FaultInRange DEF LinkSocketError

(* A recovery leaves a new socket, or a lost link. *)
LEMMA RecreateSocketPreserves ==
  ASSUME Linkwise, NEW l \in Links, RecreateSocket(l)
  PROVE  Linkwise'
<1>1. links \in [Links -> LinkState] /\ LinkOK(links[l])
  BY DEF Linkwise
<1> DEFINE lost == [links[l] EXCEPT !.recoveryTimer = "none",
                                    !.status = "down", !.lost = TRUE]
<1>2. \/ links' = [links EXCEPT ![l] = Recreated(l)]
      \/ links' = [links EXCEPT ![l] = lost]
  BY <1>1 DEF RecreateSocket
<1>3. /\ LinkOK(Recreated(l))
      /\ Recreated(l).status \in {links[l].status, "standby"}
  BY <1>1 DEF Recreated, LinkOK, LinkState, Status
<1>4. LinkOK(lost) /\ lost.status = "down"
  BY <1>1 DEF LinkOK, LinkState, Status
<1>5. /\ stage = "up" /\ faults' \in 0 .. MaxFaults
      /\ UNCHANGED <<stage, activeLink, times, forced>>
  BY FaultInRange DEF RecreateSocket
<1> QED BY <1>2, <1>3, <1>4, <1>5, OneLinkPreserves

(* A recovered link is on standby once it is bound. *)
LEMMA SocketIsBoundPreserves ==
  ASSUME Linkwise, NEW l \in Links, SocketIsBound(l)
  PROVE  Linkwise'
<1> DEFINE s == [links[l] EXCEPT !.binding = FALSE, !.status = "standby"]
<1>1. links \in [Links -> LinkState] /\ LinkOK(links[l])
  BY DEF Linkwise
<1>2. links' = [links EXCEPT ![l] = s]
  BY <1>1 DEF SocketIsBound
<1>3. LinkOK(s) /\ s.status = "standby"
  BY <1>1 DEF LinkOK, LinkState, Status
<1> QED
  BY <1>2, <1>3, OneLinkPreserves, FaultInRange DEF SocketIsBound

-----------------------------------------------------------------------------
(* The states of the links from which failover and failback start: those   *)
(* of before, or as a health check left them.                              *)
Checked(ls) ==
  /\ ls \in [Links -> LinkState]
  /\ \A l \in Links : /\ LinkOK(ls[l])
                      /\ ls[l].status \in {links[l].status, "down"}

(* Traffic moves, or stays: the labels and the clocks move with it. *)
LEMMA MovePreserves ==
  ASSUME Linkwise, stage = "up", NEW ls, Checked(ls),
         Failover(ls) \/ Failback(ls) \/ Stay(ls),
         forced' \in 0 .. MaxForced, UNCHANGED <<stage, faults>>
  PROVE  Linkwise'
<1>0. /\ ls \in [Links -> LinkState]
      /\ LinkOK(ls["primary"]) /\ LinkOK(ls["backup"])
      /\ ls["primary"] \in LinkState /\ ls["backup"] \in LinkState
  BY DEF Checked, Links, LinkOK
<1>1. /\ {Later(sinceFailover), Later(sinceFailback), Later(quiet), 0}
            \subseteq 0 .. Longest
  BY LaterInRange, Numbers DEF Linkwise
<1>2. \A s, x : LinkOK(s) /\ x \in Status
        => /\ LinkOK([s EXCEPT !.status = x])
           /\ [s EXCEPT !.status = x].status = x
  BY DEF LinkOK, LinkState
<1>3. CASE Failover(ls)
  <2>1. /\ links'["primary"]
             = [ls["primary"] EXCEPT !.status =
                  IF ls["primary"].status = "down" THEN "down" ELSE "standby"]
        /\ links'["backup"] = [ls["backup"] EXCEPT !.status = "active"]
        /\ activeLink' = "backup" /\ sinceFailover' = 0 /\ quiet' = 0
        /\ sinceFailback' = Later(sinceFailback)
    BY <1>0, <1>3 DEF Failover, Links
  <2>2. /\ LinkOK(links'["primary"]) /\ LinkOK(links'["backup"])
        /\ links'["primary"].status \in {"down", "standby"}
        /\ links'["backup"].status = "active"
    BY <1>0, <1>2, <2>1 DEF Status
  <2>3. links' \in [Links -> LinkState]
    BY <1>0, <1>3, <2>2 DEF Failover, Links, LinkOK
  <2> QED BY <1>1, <2>1, <2>2, <2>3 DEF Linkwise, Links
<1>4. CASE Failback(ls)
  <2>1. /\ links'["primary"] = [ls["primary"] EXCEPT !.status = "active"]
        /\ links'["backup"] = [ls["backup"] EXCEPT !.status = "standby"]
        /\ activeLink' = "primary" /\ sinceFailback' = 0 /\ quiet' = 0
        /\ sinceFailover' = Later(sinceFailover)
    BY <1>0, <1>4 DEF Failback, Links
  <2>2. /\ LinkOK(links'["primary"]) /\ LinkOK(links'["backup"])
        /\ links'["primary"].status = "active"
        /\ links'["backup"].status = "standby"
    BY <1>0, <1>2, <2>1 DEF Status
  <2>3. links' \in [Links -> LinkState]
    BY <1>0, <1>4, <2>2 DEF Failback, Links, LinkOK
  <2> QED BY <1>1, <2>1, <2>2, <2>3 DEF Linkwise, Links
<1>5. CASE Stay(ls)
  BY <1>1, <1>5 DEF Stay, Linkwise, Checked
<1> QED BY <1>3, <1>4, <1>5

(* A health check fails over, fails back or stays, over measured links. *)
LEMMA CheckHealthMoves ==
  ASSUME Linkwise, CheckHealth
  PROVE  \E ls : /\ Checked(ls)
                 /\ \/ /\ ShouldFailover(ls, Later(sinceFailback))
                       /\ Failover(ls)
                    \/ /\ ShouldFailback(ls, Later(sinceFailover))
                       /\ Failback(ls)
                    \/ Stay(ls)
<1>1. LinkOK(links["primary"]) /\ LinkOK(links["backup"])
  BY DEF Linkwise, Links
<1>2. PICK qp \in QualityAfter(links["primary"]),
           qb \in QualityAfter(links["backup"]) :
        LET ls == [primary |-> Measure(links["primary"], qp),
                   backup  |-> Measure(links["backup"], qb)]
        IN  IF ShouldFailover(ls, Later(sinceFailback)) THEN Failover(ls)
            ELSE IF ShouldFailback(ls, Later(sinceFailover)) THEN Failback(ls)
            ELSE Stay(ls)
  BY Zenon DEF CheckHealth
<1> DEFINE a == Measure(links["primary"], qp)
           b == Measure(links["backup"], qb)
           ls == [primary |-> a, backup |-> b]
<1>3. /\ LinkOK(a) /\ a.status \in {links["primary"].status, "down"}
      /\ LinkOK(b) /\ b.status \in {links["backup"].status, "down"}
  BY <1>1, MeasureKeeps, QualityAfterInQuality
<1> HIDE DEF a, b
<1>4. ls \in [Links -> LinkState] /\ ls["primary"] = a /\ ls["backup"] = b
  BY <1>3, Pair DEF LinkOK
<1>5. Checked(ls)
  BY <1>3, <1>4 DEF Checked, Links
<1>6. IF ShouldFailover(ls, Later(sinceFailback)) THEN Failover(ls)
      ELSE IF ShouldFailback(ls, Later(sinceFailover)) THEN Failback(ls)
      ELSE Stay(ls)
  BY <1>2 DEF a, b
<1> HIDE DEF ls
<1> QED BY <1>5, <1>6

(* Hence a health check preserves it, *)
LEMMA CheckHealthPreserves ==
  ASSUME Linkwise, CheckHealth
  PROVE  Linkwise'
<1>1. PICK ls : Checked(ls) /\ (Failover(ls) \/ Failback(ls) \/ Stay(ls))
  BY CheckHealthMoves
<1> QED BY <1>1, MovePreserves DEF CheckHealth, Linkwise

(* and so does the forced switch, over the links as they are. *)
LEMMA ForceFailoverPreserves ==
  ASSUME Linkwise, ForceFailover
  PROVE  Linkwise'
<1>1. Checked(links)
  BY DEF Checked, Linkwise
<1>2. forced' \in 0 .. MaxForced
  BY Numbers DEF ForceFailover, Linkwise
<1> QED BY <1>1, <1>2, MovePreserves DEF ForceFailover

(* All steps together. *)
LEMMA BondingNextPreserves ==
  ASSUME Linkwise, [BondingNext]_bondingVars
  PROVE  Linkwise'
<1>1. CASE Initialize
  <2>1. activeLink = "primary" /\ {"primary", "backup"} \subseteq Links
    BY <1>1 DEF Initialize, Linkwise, Links
  <2>2. Initialized \/ \E l \in Links : Binding(l)
    BY <1>1, <2>1 DEF Initialize
  <2> QED BY <1>1, <2>1, <2>2, InitializedPreserves, BindingPreserves
          DEF Initialize
<1>2. CASE LinkIsBound
  <2>1. activeLink = "primary" /\ {"primary", "backup"} \subseteq Links
    BY <1>2 DEF LinkIsBound, Linkwise, Links
  <2>2. Initialized \/ \E l \in Links : Binding(l)
    BY <1>2, <2>1 DEF LinkIsBound
  <2> QED BY <1>2, <2>1, <2>2, InitializedPreserves, BindingPreserves
          DEF LinkIsBound
<1>3. CASE StopLinks
  BY <1>3, StopLinksPreserves
<1>4. CASE CheckHealth
  BY <1>4, CheckHealthPreserves
<1>5. CASE ForceFailover
  BY <1>5, ForceFailoverPreserves
<1>6. ASSUME NEW l \in Links,
             LinkSocketError(l) \/ RecreateSocket(l) \/ SocketIsBound(l)
      PROVE  Linkwise'
  BY <1>6, LinkSocketErrorPreserves, RecreateSocketPreserves,
     SocketIsBoundPreserves
<1>7. ASSUME NEW l \in Links, NEW q \in Quality, Respond(l, q)
      PROVE  Linkwise'
  BY <1>7, RespondPreserves
<1>8. CASE UNCHANGED bondingVars
  BY <1>8 DEF bondingVars, times, Linkwise
<1> QED
  BY <1>1, <1>2, <1>3, <1>4, <1>5, <1>6, <1>7, <1>8 DEF BondingNext

-----------------------------------------------------------------------------
(* So it always holds. *)
LEMMA LinkwiseHolds == BondingSpec => []Linkwise
<1>1. Linkwise /\ [BondingNext]_bondingVars => Linkwise'
  BY BondingNextPreserves
<1> QED BY BondingStart, <1>1, PTL DEF BondingSpec

(* At every time at most the link that carries the traffic calls itself     *)
(* active, and each broken socket is being replaced, whatever the timeouts  *)
(* and however often sockets fail (BondingInv of bonding.ts's link states). *)
THEOREM LinksStaySound == BondingSpec => []BondingInv
BY LinkwiseHolds, ByLink, PTL

(* Health checks of bonding.ts move traffic only off a dead primary or     *)
(* after the dwell of the link that carries it, for every choice of delays *)
(* and whatever was forced before.                                         *)
THEOREM TrafficDoesNotFlap == BondingSpec => NoFlapping
<1> DEFINE Move == activeLink' # activeLink /\ forced' = forced =>
                     \/ /\ activeLink = "primary"
                        /\ links'["primary"].status = "down"
                     \/ quiet + 1 >= IF activeLink = "primary" THEN MinDwell
                                     ELSE FailbackDelay
<1>1. ASSUME Linkwise, [BondingNext]_bondingVars
      PROVE  [Move]_bondingVars
  <2> SUFFICES ASSUME activeLink' # activeLink, forced' = forced
               PROVE  Move
    BY DEF Move
  <2>1. CheckHealth
    <3>1. ~ ForceFailover
      BY <1>1 DEF ForceFailover, Linkwise
    <3> QED BY <1>1, <3>1 DEF BondingNext, Initialize, LinkIsBound, StopLinks, Respond,
                 LinkSocketError, RecreateSocket, SocketIsBound, bondingVars
  <2>2. PICK ls : /\ Checked(ls)
                  /\ \/ /\ ShouldFailover(ls, Later(sinceFailback))
                        /\ Failover(ls)
                     \/ /\ ShouldFailback(ls, Later(sinceFailover))
                        /\ Failback(ls)
                     \/ Stay(ls)
    BY <1>1, <2>1, CheckHealthMoves
  <2>3. /\ stage = "up"
        /\ {sinceFailover, sinceFailback} \subseteq 0 .. Longest
        /\ quiet = IF activeLink = "primary" THEN sinceFailback
                   ELSE sinceFailover
    BY <1>1, <2>1 DEF CheckHealth, Linkwise
  <2>4. CASE ShouldFailover(ls, Later(sinceFailback)) /\ Failover(ls)
    <3>1. CASE ls["primary"].status = "down"
      <4>1. ls \in [Links -> LinkState]
        BY <2>2 DEF Checked
      <4>2. links'["primary"] = [ls["primary"] EXCEPT !.status = "down"]
        BY <2>4, <3>1, <4>1 DEF Failover, Links
      <4>3. links'["primary"].status = "down"
        BY <3>1, <4>1, <4>2 DEF Links, LinkState
      <4> QED BY <2>4, <4>3 DEF ShouldFailover
    <3>2. CASE Later(sinceFailback) >= MinDwell
      BY <2>3, <2>4, <3>2, LaterInRange, Numbers DEF ShouldFailover
    <3> QED BY <2>4, <3>1, <3>2 DEF ShouldFailover
  <2>5. CASE ShouldFailback(ls, Later(sinceFailover)) /\ Failback(ls)
    BY <2>3, <2>5, LaterInRange, Numbers DEF ShouldFailback
  <2>6. ~ Stay(ls)
    BY DEF Stay
  <2> QED BY <2>2, <2>4, <2>5, <2>6
<1>2. [][BondingNext]_bondingVars /\ []Linkwise => [][Move]_bondingVars
  BY <1>1, PTL
<1> QED BY LinkwiseHolds, <1>2, PTL DEF BondingSpec, NoFlapping

-----------------------------------------------------------------------------
(* The nominal timer aimed at is within the bounds of the configuration. *)
LEMMA NominalWithin ==
  ASSUME NEW b, BoundsOK(b)
  PROVE  /\ b.min \in Nat \ {0} /\ b.max \in Nat
         /\ Nominal(b) \in Nat /\ b.min <= Nominal(b) /\ Nominal(b) <= b.max
BY DEF BoundsOK, Nominal, Within, AtLeast, AtMost

(* adjust() returns a timer within the configured bounds whatever the      *)
(* timer was, also after a manual override outside of them.                *)
THEOREM AdjustStaysWithin ==
  ASSUME NEW b, BoundsOK(b), NEW t \in Nat, NEW conditions
  PROVE  StaysWithin(t, conditions, b)
<1>1. b.min \in Nat \ {0} /\ b.max \in Nat /\ b.min <= b.max
  BY DEF BoundsOK
<1>2. PICK k \in Nat : k = AtMost(MaxFactor, Factor(t, conditions, b))
  BY DEF AtMost, MaxFactor, Factor
<1>3. PICK n \in Nat : n = t * k
  OBVIOUS
<1>4. Adjust(t, conditions, b)
        = (AtLeast(100 * b.min, AtMost(100 * b.max, n)) + 50) \div 100
  BY <1>2, <1>3 DEF Adjust
<1> QED
  BY <1>1, <1>3, <1>4 DEF StaysWithin, AtLeast, AtMost

(* Without severe congestion adjust() moves every timer of at least 50 ms  *)
(* strictly toward the nominal: rounding never stalls it.                  *)
THEOREM AdjustMovesToNominal ==
  ASSUME NEW b, BoundsOK(b), NEW t \in Nat, NEW conditions
  PROVE  MovesToNominal(t, conditions, b)
<1> SUFFICES ASSUME conditions # "severe", t >= b.min, t <= b.max, t >= 50
             PROVE  LET next == Adjust(t, conditions, b)
                    IN  IF t > Nominal(b) THEN next < t
                        ELSE IF t < Nominal(b) THEN next > t ELSE next = t
  BY NominalWithin DEF MovesToNominal
<1>1. /\ b.min \in Nat \ {0} /\ b.max \in Nat
      /\ Nominal(b) \in Nat /\ b.min <= Nominal(b) /\ Nominal(b) <= b.max
  BY NominalWithin
<1>2. CASE t > Nominal(b)
  <2>1. PICK k \in {95, 98} :
          AtMost(MaxFactor, Factor(t, conditions, b)) = k
    BY <1>1, <1>2 DEF Factor, AtMost, MaxFactor
  <2>2. Adjust(t, conditions, b)
          = (AtLeast(100 * b.min, AtMost(100 * b.max, t * k)) + 50) \div 100
    BY <2>1 DEF Adjust
  <2> QED BY <1>1, <1>2, <2>1, <2>2 DEF AtLeast, AtMost
<1>3. CASE t < Nominal(b)
  <2>1. PICK k \in {102, 105} :
          AtMost(MaxFactor, Factor(t, conditions, b)) = k
    BY <1>1, <1>3 DEF Factor, AtMost, MaxFactor
  <2>2. Adjust(t, conditions, b)
          = (AtLeast(100 * b.min, AtMost(100 * b.max, t * k)) + 50) \div 100
    BY <2>1 DEF Adjust
  <2> QED BY <1>1, <1>3, <2>1, <2>2 DEF AtLeast, AtMost
<1>4. CASE t = Nominal(b)
  <2>1. PICK k \in {95, 100} :
          /\ AtMost(MaxFactor, Factor(t, conditions, b)) = k
          /\ k = 95 => t = b.min
    BY <1>1, <1>4 DEF Factor, AtMost, MaxFactor
  <2>2. Adjust(t, conditions, b)
          = (AtLeast(100 * b.min, AtMost(100 * b.max, t * k)) + 50) \div 100
    BY <2>1 DEF Adjust
  <2> QED BY <1>1, <1>4, <2>1, <2>2 DEF AtLeast, AtMost
<1> QED BY <1>1, <1>2, <1>3, <1>4

(* Within one step of the nominal the timer stays so: together with        *)
(* AdjustMovesToNominal, it settles there after every congestion episode.  *)
THEOREM AdjustStaysNear ==
  ASSUME NEW b, BoundsOK(b), NEW t \in Nat, NEW conditions
  PROVE  StaysNear(t, conditions, b)
<1> SUFFICES ASSUME conditions # "severe", Near(t, b)
             PROVE  Near(Adjust(t, conditions, b), b)
  BY DEF StaysNear
<1>1. /\ b.min \in Nat \ {0} /\ b.max \in Nat
      /\ Nominal(b) \in Nat /\ b.min <= Nominal(b) /\ Nominal(b) <= b.max
  BY NominalWithin
<1>2. PICK k \in {95, 98, 100, 102, 105} :
        /\ AtMost(MaxFactor, Factor(t, conditions, b)) = k
        /\ k \in {102, 105} => t < Nominal(b)
        /\ k = 98 => t > Nominal(b)
        /\ k = 100 => t = Nominal(b)
        /\ k = 95 => t > Nominal(b) \/ Nominal(b) = b.min
  BY <1>1 DEF Factor, AtMost, MaxFactor
<1>3. PICK n \in Nat : n = t * k
  OBVIOUS
<1>4. PICK m \in Nat :
        m = (AtLeast(100 * b.min, AtMost(100 * b.max, n)) + 50) \div 100
  BY <1>1, <1>3 DEF AtLeast, AtMost
<1>5. Adjust(t, conditions, b) = m
  BY <1>2, <1>3, <1>4 DEF Adjust
<1>6. 100 * Distance(t, Nominal(b)) <= 5 * Nominal(b) + 50
  BY DEF Near
<1>7. 100 * Distance(m, Nominal(b)) <= 5 * Nominal(b) + 50
  BY <1>1, <1>2, <1>3, <1>4, <1>6 DEF Distance, AtLeast, AtMost
<1> QED BY <1>5, <1>7 DEF Near

=============================================================================
