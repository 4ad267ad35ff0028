------------------------------- MODULE Settings -------------------------------
(***************************************************************************)
(* The numbers of a connection's configuration: which are accepted         *)
(* (src/connection-config.ts), which the forms offer                       *)
(* (src/shared/connection-schema.ts) and what is in effect for those that  *)
(* are left out.                                                           *)
(*                                                                         *)
(* A range is <<least, greatest>>, an offer <<least, default, greatest>>.  *)
(* Ratios are in hundredths, minutes in tenths.  A group of settings is a  *)
(* record of those that are given.                                         *)
(***************************************************************************)
EXTENDS Integers, TLC

(* numberRangeError finds nothing. *)
InRange(n, range) == range[1] <= n /\ n <= range[2]
AllInRange(given, ranges) == \A k \in DOMAIN given : InRange(given[k], ranges[k])

Both(given, k, l) == {k, l} \subseteq DOMAIN given

-----------------------------------------------------------------------------
(* validateConnectionConfig: the ranges *)
RuleRanges == [brotliQuality |-> <<0, 11>>, decimals |-> <<0, 15>>,
               minIntervalMs |-> <<0, 3600000>>]

TimingRanges == [helloMessageSender |-> <<10, 3600>>,
                 heartbeatInterval  |-> <<5000, 120000>>]

PingRanges == [testPort |-> <<1, 65535>>, pingIntervalTime |-> <<1, 600>>]

ReliabilityRanges(server) ==
  IF server
  THEN [ackInterval |-> <<20, 5000>>, ackResendInterval |-> <<100, 10000>>,
        nakTimeout |-> <<20, 5000>>, maxNakRounds |-> <<1, 25>>]
  ELSE [retransmitQueueSize |-> <<100, 50000>>, maxRetransmits |-> <<1, 20>>,
        retransmitMaxAge |-> <<1000, 300000>>,
        retransmitMinAge |-> <<200, 30000>>,
        retransmitRttMultiplier |-> <<2, 20>>,
        ackIdleDrainAge |-> <<500, 30000>>,
        forceDrainAfterMs |-> <<2000, 120000>>,
        recoveryBurstSize |-> <<10, 1000>>,
        recoveryBurstIntervalMs |-> <<50, 5000>>,
        recoveryAckGapMs |-> <<500, 120000>>]

FailoverRanges == [rttThreshold |-> <<100, 5000>>, lossThreshold |-> <<1, 50>>,
                   healthCheckInterval |-> <<500, 10000>>,
                   failbackDelay |-> <<5000, 300000>>,
                   heartbeatTimeout |-> <<1000, 30000>>]

CongestionRanges == [targetRTT |-> <<50, 2000>>,
                     nominalDeltaTimer |-> <<100, 10000>>,
                     minDeltaTimer |-> <<50, 1000>>,
                     maxDeltaTimer |-> <<1000, 30000>>]

Ratios == {"packetLoss", "retransmitRate"}

(* validateConnectionConfig: what must hold of several together *)
ReliabilityAccepted(given, server) ==
  /\ AllInRange(given, ReliabilityRanges(server))
  /\ Both(given, "retransmitMinAge", "retransmitMaxAge") =>
       given.retransmitMinAge <= given.retransmitMaxAge

CongestionAccepted(given) ==
  /\ AllInRange(given, CongestionRanges)
  /\ Both(given, "minDeltaTimer", "maxDeltaTimer") =>
       given.minDeltaTimer <= given.maxDeltaTimer

(* A link is [address, port], as far as it is given. *)
LinksAccepted(primary, backup) ==
  \E k \in {"address", "port"} :
    k \notin DOMAIN primary \cap DOMAIN backup \/ primary[k] # backup[k]

AlertAccepted(metric, given) ==
  /\ \A k \in DOMAIN given :
       IF metric \in Ratios THEN given[k] \in 0 .. 100 ELSE given[k] > 0
  /\ Both(given, "warning", "critical") => given.warning <= given.critical

-----------------------------------------------------------------------------
(* connection-schema.ts: what the forms offer *)
RuleOffers == [brotliQuality |-> <<0, 6, 11>>, decimals |-> <<0, 0, 15>>,
               minIntervalMs |-> <<0, 0, 3600000>>]

TimingOffers == [helloMessageSender |-> <<10, 60, 3600>>,
                 heartbeatInterval  |-> <<5000, 25000, 120000>>]

PingOffers == [testPort |-> <<1, 80, 65535>>, pingIntervalTime |-> <<1, 10, 600>>]

ClientReliabilityOffers ==
  [retransmitQueueSize |-> <<100, 5000, 50000>>,
   maxRetransmits |-> <<1, 3, 20>>,
   retransmitMaxAge |-> <<1000, 120000, 300000>>,
   retransmitMinAge |-> <<200, 10000, 30000>>,
   retransmitRttMultiplier |-> <<2, 12, 20>>,
   ackIdleDrainAge |-> <<500, 20000, 30000>>,
   forceDrainAfterMs |-> <<2000, 45000, 120000>>,
   recoveryBurstSize |-> <<10, 100, 1000>>,
   recoveryBurstIntervalMs |-> <<50, 200, 5000>>,
   recoveryAckGapMs |-> <<500, 4000, 120000>>]

ServerReliabilityOffers ==
  [ackInterval |-> <<20, 100, 5000>>, ackResendInterval |-> <<100, 1000, 10000>>,
   nakTimeout |-> <<20, 100, 5000>>, maxNakRounds |-> <<1, 5, 25>>]

CongestionOffers == [targetRTT |-> <<50, 200, 2000>>,
                     nominalDeltaTimer |-> <<100, 1000, 10000>>,
                     minDeltaTimer |-> <<50, 100, 1000>>,
                     maxDeltaTimer |-> <<1000, 5000, 30000>>]

FailoverOffers == [rttThreshold |-> <<100, 500, 5000>>,
                   lossThreshold |-> <<1, 10, 50>>,
                   healthCheckInterval |-> <<500, 1000, 10000>>,
                   failbackDelay |-> <<5000, 30000, 300000>>,
                   heartbeatTimeout |-> <<1000, 5000, 30000>>]

OfferedLinks == [primary |-> [address |-> "127.0.0.1", port |-> 4446],
                 backup  |-> [address |-> "127.0.0.1", port |-> 4447]]

AlertOffers == [rtt |-> [warning |-> 300, critical |-> 800],
                packetLoss |-> [warning |-> 3, critical |-> 10],
                retransmitRate |-> [warning |-> 5, critical |-> 15],
                jitter |-> [warning |-> 100, critical |-> 300],
                queueDepth |-> [warning |-> 100, critical |-> 500]]

Defaults(offers) == [k \in DOMAIN offers |-> offers[k][2]]

-----------------------------------------------------------------------------
(* clampRecoveryBurst: at most half of what the server admits from a       *)
(* session, spread over the interval.                                      *)
UdpRateLimitMaxPackets == 200
UdpRateLimitWindow == 1000

ClampedBurst(size, interval) ==
  LET cap == (UdpRateLimitMaxPackets * interval) \div (2 * UdpRateLimitWindow)
      atLeast1(n) == IF n < 1 THEN 1 ELSE n
  IN  atLeast1(IF size < cap THEN size ELSE atLeast1(cap))

(* buildReliabilitySettings *)
ReliabilityInEffect(given) ==
  LET all == given @@ [retransmitMaxAge |-> 120000, retransmitMinAge |-> 10000,
                       retransmitRttMultiplier |-> 12,
                       ackIdleDrainAge |-> 20000, forceDrainAfterMs |-> 45000,
                       recoveryBurstSize |-> 100,
                       recoveryBurstIntervalMs |-> 200,
                       recoveryAckGapMs |-> 4000]
  IN  [all EXCEPT !.recoveryBurstSize =
         ClampedBurst(@, all.recoveryBurstIntervalMs)]

(* effectiveRetransmitAge: of a packet, for a smoothed RTT (0 is none). *)
EffectiveRetransmitAge(s, rtt, ackIdle) ==
  LET atMost(a, b)  == IF a < b THEN a ELSE b
      atLeast(a, b) == IF a > b THEN a ELSE b
      byRtt  == IF rtt = 0 THEN s.retransmitMaxAge
                ELSE atMost(s.retransmitMaxAge,
                            atLeast(s.retransmitMinAge,
                                    rtt * s.retransmitRttMultiplier))
      byIdle == IF ackIdle >= s.ackIdleDrainAge
                THEN atMost(byRtt, s.ackIdleDrainAge) ELSE byRtt
  IN  atLeast(s.retransmitMinAge, byIdle)

(* the server's settings *)
ServerReliabilityInEffect(given) ==
  given @@ [ackInterval |-> 100, ackResendInterval |-> 1000,
            nakTimeout |-> 100, maxNakRounds |-> 5]

(* The bounds of CongestionControl, whose first timer is 1000. *)
CongestionInEffect(given) ==
  LET all == given @@ [minDeltaTimer |-> 100, maxDeltaTimer |-> 5000,
                       nominalDeltaTimer |-> 1000]
  IN  [min |-> all.minDeltaTimer, max |-> all.maxDeltaTimer,
       nominal |-> all.nominalDeltaTimer]

FailoverInEffect(given) ==
  given @@ [rttThreshold |-> 500, lossThreshold |-> 10,
            healthCheckInterval |-> 1000, failbackDelay |-> 30000,
            heartbeatTimeout |-> 5000]

(* resolveThresholds: a metric that is given is taken as it is. *)
AlertsInEffect(given) == given @@ AlertOffers

=============================================================================
