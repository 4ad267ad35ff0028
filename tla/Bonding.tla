------------------------------- MODULE Bonding -------------------------------
(***************************************************************************)
(* Two links of one client, of which one carries the traffic               *)
(* (src/transport/bonding.ts and bonding-health.ts): probes and their      *)
(* answers, sockets that fail and are made anew, failover, failback, and   *)
(* the operator's forced switch.                                           *)
(*                                                                         *)
(* Time is counted in health checks.  The round trip time and the loss of  *)
(* a link are one value: good (both below the hysteresis), fair (neither   *)
(* over its threshold) or bad.  Responses, losses and the fate of sockets  *)
(* are the environment's.                                                  *)
(***************************************************************************)
EXTENDS Naturals, FiniteSets

CONSTANTS
  Bound,              \* the links with an interface to bind to
  HeartbeatTimeout,   \* checks without an answer until a link is down
  MinProbes,          \* probes sent before a link may be called down
  FailbackDelay,
  MinDwell,           \* BONDING_FAILOVER_MIN_DWELL
  MaxForced,          \* bound: forced switches
  MaxFaults           \* bound: errors of sockets

Links == {"primary", "backup"}
Other(l) == IF l = "primary" THEN "backup" ELSE "primary"

ASSUME BondingAssumption ==
  /\ Bound \subseteq Links
  /\ {HeartbeatTimeout, MinProbes, FailbackDelay, MinDwell} \subseteq Nat \ {0}
  /\ MaxForced \in Nat /\ MaxFaults \in Nat

VARIABLES
  stage,              \* new, the link being bound, up, or stopped
  activeLink,
  links,              \* link |-> its LinkState
  sinceFailover, sinceFailback,   \* checks, as far as they matter
  quiet,              \* history: checks since traffic last moved
  forced, faults

times == <<sinceFailover, sinceFailback, quiet>>
bondingVars == <<stage, activeLink, links, times, forced, faults>>

Longest == IF FailbackDelay > MinDwell THEN FailbackDelay ELSE MinDwell
Later(n) == IF n < Longest THEN n + 1 ELSE n

Status  == {"unknown", "active", "standby", "down"}
Quality == {"good", "fair", "bad"}

(* silence: checks since the last answer; recoveryTimer: its handle; error, *)
(* a history: the socket has failed and is not replaced; lost: cannot be.   *)
LinkState ==
  [status : Status, socket : BOOLEAN, binding : BOOLEAN,
   recoveryTimer : {"none", "armed", "fired"}, sent : 0 .. MinProbes + 1,
   silence : 0 .. HeartbeatTimeout + 1, quality : Quality,
   error : BOOLEAN, lost : BOOLEAN]

(* createLinkState *)
NewLink ==
  [status |-> "unknown", socket |-> FALSE, binding |-> FALSE,
   recoveryTimer |-> "none", sent |-> 0, silence |-> HeartbeatTimeout + 1,
   quality |-> "good", error |-> FALSE, lost |-> FALSE]

BondingInit ==
  /\ stage = "new" /\ activeLink = "primary"
  /\ links = [l \in Links |-> NewLink]
  /\ sinceFailover = Longest /\ sinceFailback = Longest /\ quiet = 0
  /\ forced = 0 /\ faults = 0

Fault == faults < MaxFaults /\ faults' = faults + 1

-----------------------------------------------------------------------------
(* initialize, the links in turn: a socket, its bind if there is an        *)
(* interface, the handlers.                                                *)
Opened(l) == [links[l] EXCEPT !.socket = TRUE, !.status = "standby"]

(* The end of initialize anchors the dwell of the primary. *)
Initialized ==
  /\ stage' = "up"
  /\ links' = [primary |-> [Opened("primary") EXCEPT !.status = "active"],
               backup  |-> Opened("backup")]
  /\ sinceFailback' = 0

Binding(l) ==
  /\ stage' = l
  /\ links' = [links EXCEPT ![l].socket = TRUE,
                 !["primary"] = IF l = "backup" THEN Opened("primary") ELSE
                                [@ EXCEPT !.socket = TRUE]]
  /\ UNCHANGED sinceFailback

Initialize ==
  /\ stage = "new"
  /\ IF "primary" \in Bound THEN Binding("primary")
     ELSE IF "backup" \in Bound THEN Binding("backup")
     ELSE Initialized
  /\ quiet' = 0
  /\ UNCHANGED <<activeLink, sinceFailover, forced, faults>>

LinkIsBound ==
  /\ stage \in Links
  /\ IF stage = "primary" /\ "backup" \in Bound THEN Binding("backup")
     ELSE Initialized
  /\ quiet' = 0
  /\ UNCHANGED <<activeLink, sinceFailover, forced, faults>>

Closed(l) == [l EXCEPT !.socket = FALSE, !.binding = FALSE,
                       !.recoveryTimer = "none", !.error = FALSE]

(* stop; also what initBonding does with a manager whose bind failed. *)
StopLinks ==
  /\ stage' = "stopped"
  /\ links' = [l \in Links |-> Closed(links[l])]
  /\ UNCHANGED <<activeLink, times, forced, faults>>

-----------------------------------------------------------------------------
(* _measureLinkHealth: a probe leaves; a link without answers is down. *)
Measure(s, q) ==
  LET t == [s EXCEPT !.sent = IF @ <= MinProbes THEN @ + 1 ELSE @,
                     !.silence = IF @ <= HeartbeatTimeout THEN @ + 1 ELSE @,
                     !.quality = q]
  IN  IF ~ s.socket THEN s
      ELSE IF t.sent > MinProbes /\ t.silence > HeartbeatTimeout
      THEN [t EXCEPT !.status = "down"] ELSE t

(* Any check may find probes expired, be they older than the last answer,  *)
(* which costs quality; without answers nothing improves.                  *)
QualityAfter(s) ==
  {q \in Quality : s.quality = "good" \/ q \in {s.quality, "bad"}}

(* Defect: a dead link is left only when its averages are bad. *)
ShouldFailoverByQuality(ls, dwell) ==
  /\ activeLink = "primary"
  /\ ls["backup"].status # "down"
  /\ dwell >= MinDwell /\ ls["primary"].quality = "bad"

(* shouldFailover *)
ShouldFailover(ls, dwell) ==
  /\ activeLink = "primary"
  /\ ls["backup"].status # "down"
  /\ \/ ls["primary"].status = "down"
     \/ dwell >= MinDwell /\ ls["primary"].quality = "bad"

(* shouldFailback *)
ShouldFailback(ls, waited) ==
  /\ activeLink = "backup"
  /\ waited >= FailbackDelay
  /\ ls["primary"].status # "down"
  /\ ls["primary"].quality = "good"

(* failover and failback, over the links as just measured. *)
Failover(ls) ==
  /\ activeLink' = "backup"
  /\ links' = [ls EXCEPT !["primary"].status = IF @ = "down" THEN @
                                               ELSE "standby",
                         !["backup"].status = "active"]
  /\ sinceFailover' = 0 /\ sinceFailback' = Later(sinceFailback)
  /\ quiet' = 0

(* Defect: only failover takes the time. *)
FailbackUntimed(ls) ==
  /\ activeLink' = "primary"
  /\ links' = [ls EXCEPT !["primary"].status = "active",
                         !["backup"].status = "standby"]
  /\ sinceFailback' = Later(sinceFailback)
  /\ sinceFailover' = Later(sinceFailover)
  /\ quiet' = 0

Failback(ls) ==
  /\ activeLink' = "primary"
  /\ links' = [ls EXCEPT !["primary"].status = "active",
                         !["backup"].status = "standby"]
  /\ sinceFailback' = 0 /\ sinceFailover' = Later(sinceFailover)
  /\ quiet' = 0

Stay(ls) ==
  /\ links' = ls
  /\ sinceFailover' = Later(sinceFailover)
  /\ sinceFailback' = Later(sinceFailback)
  /\ quiet' = Later(quiet)
  /\ UNCHANGED activeLink

(* _checkHealth, the interval of health monitoring *)
CheckHealth ==
  /\ stage = "up"
  /\ \E qp \in QualityAfter(links["primary"]),
        qb \in QualityAfter(links["backup"]) :
       LET ls == [primary |-> Measure(links["primary"], qp),
                  backup  |-> Measure(links["backup"], qb)]
       IN  IF ShouldFailover(ls, Later(sinceFailback)) THEN Failover(ls)
           ELSE IF ShouldFailback(ls, Later(sinceFailover)) THEN Failback(ls)
           ELSE Stay(ls)
  /\ UNCHANGED <<stage, forced, faults>>

(* _handleHeartbeatResponse of a pending probe; it moves the averages. *)
Respond(l, q) ==
  /\ stage = "up" /\ links[l].socket /\ links[l].sent > 0
  /\ ~ links[l].lost
  /\ links' = [links EXCEPT ![l].silence = 0, ![l].quality = q,
                 ![l].status = IF @ # "down" THEN @
                               ELSE IF activeLink = l THEN "active"
                               ELSE "standby"]
  /\ UNCHANGED <<stage, activeLink, times, forced, faults>>

(* forceFailover, a route of the management API *)
ForceFailover ==
  /\ stage = "up"
  /\ forced < MaxForced /\ forced' = forced + 1
  /\ IF activeLink = "primary" THEN Failover(links) ELSE Failback(links)
  /\ UNCHANGED <<stage, faults>>

-----------------------------------------------------------------------------
(* The error handler of a socket marks the link down and schedules its     *)
(* recovery, unless one is scheduled.                                      *)
LinkSocketError(l) ==
  /\ \/ stage = "up" \/ (stage = "backup" /\ l = "primary")
  /\ links[l].socket
  /\ links' = [links EXCEPT ![l].status = "down", ![l].error = TRUE,
                            ![l].binding = FALSE,
                            ![l].recoveryTimer = IF @ = "none" THEN "armed"
                                                 ELSE @]
  /\ Fault
  /\ UNCHANGED <<stage, activeLink, times, forced>>

(* Defect: the handle of the timer is kept when it has fired. *)
RecreatedKeepsTimer(l) ==
  LET s == [links[l] EXCEPT !.recoveryTimer = "fired", !.error = FALSE]
  IN  IF l \in Bound THEN [s EXCEPT !.binding = TRUE]
      ELSE [s EXCEPT !.status = "standby"]

(* A new socket; the link is on standby, once it is bound if it has an     *)
(* interface, even if it is the one that carries the traffic.              *)
Recreated(l) ==
  LET s == [links[l] EXCEPT !.recoveryTimer = "none", !.error = FALSE]
  IN  IF l \in Bound THEN [s EXCEPT !.binding = TRUE]
      ELSE [s EXCEPT !.status = "standby"]

(* recreateLinkSocket, when the recovery timer fires; if no socket can be  *)
(* made at all, the link stays down and nothing tries again.               *)
RecreateSocket(l) ==
  /\ stage = "up" /\ links[l].recoveryTimer = "armed"
  /\ \/ links' = [links EXCEPT ![l] = Recreated(l)] /\ UNCHANGED faults
     \/ /\ links' = [links EXCEPT ![l].recoveryTimer = "none",
                       ![l].status = "down", ![l].lost = TRUE]
        /\ Fault
  /\ UNCHANGED <<stage, activeLink, times, forced>>

SocketIsBound(l) ==
  /\ stage = "up" /\ links[l].binding
  /\ links' = [links EXCEPT ![l].binding = FALSE, ![l].status = "standby"]
  /\ UNCHANGED <<stage, activeLink, times, forced, faults>>

-----------------------------------------------------------------------------
BondingNext ==
  \/ Initialize \/ LinkIsBound
  \/ stage \in Links /\ StopLinks      \* the bind fails, or the plugin stops
  \/ stage = "up" /\ StopLinks
  \/ CheckHealth \/ ForceFailover
  \/ \E l \in Links : LinkSocketError(l) \/ RecreateSocket(l) \/ SocketIsBound(l)
  \/ \E l \in Links, q \in Quality : Respond(l, q)

(* The interval of the health checks keeps firing, timers fire and binds   *)
(* end; nothing makes a peer answer.                                       *)
BondingSpec ==
  /\ BondingInit /\ [][BondingNext]_bondingVars
  /\ WF_bondingVars(CheckHealth)
  /\ \A l \in Links : WF_bondingVars(RecreateSocket(l)) /\ WF_bondingVars(SocketIsBound(l))

-----------------------------------------------------------------------------
BondingTypeOK ==
  /\ stage \in {"new", "up", "stopped"} \cup Links
  /\ activeLink \in Links
  /\ links \in [Links -> LinkState]
  /\ \A l \in Links : links[l].status = "unknown" => stage # "up"
  /\ {sinceFailover, sinceFailback, quiet} \subseteq 0 .. Longest
  /\ forced \in 0 .. MaxForced /\ faults \in 0 .. MaxFaults

(* Across failovers, recoveries and late answers never two links call      *)
(* themselves active: only the one that carries the traffic may.           *)
OneActiveLink ==
  \A l \in Links : links[l].status = "active" => activeLink = l

(* A link whose socket failed will get another one: a second failure       *)
(* during a recovery is not lost on the guard against two recoveries.      *)
(* (Except when no socket could be made: see RecreateSocket.)              *)
BrokenSocketIsReplaced ==
  \A l \in Links :
    links[l].error => links[l].recoveryTimer = "armed" \/ links[l].lost

(* What the steps preserve: the above, and that the two clocks of the code *)
(* are anchored where traffic came to rest.                                *)
BondingInv ==
  /\ BondingTypeOK
  /\ OneActiveLink
  /\ BrokenSocketIsReplaced
  /\ \A l \in Links : links[l].recoveryTimer # "fired"
  /\ stage \in {"new"} \cup Links => activeLink = "primary"
  /\ stage = "up" => quiet = IF activeLink = "primary" THEN sinceFailback
                             ELSE sinceFailover

(* Traffic does not flap: unless a link is dead or the operator asks, it   *)
(* stays where it is for the dwell of its link, counted from when it came. *)
NoFlapping ==
  [][activeLink' # activeLink /\ forced' = forced =>
       \/ activeLink = "primary" /\ links'["primary"].status = "down"
       \/ quiet + 1 >= IF activeLink = "primary" THEN MinDwell
                       ELSE FailbackDelay]_bondingVars

(* Health decides in the end: traffic settles on the backup if the primary *)
(* stays down and the backup does not, and on the primary if it stays      *)
(* well.                                                                   *)
TrafficFollowsHealth ==
  /\ <>[](/\ stage = "up" /\ links["primary"].status = "down"
          /\ links["backup"].status # "down")
       => <>[](activeLink = "backup")
  /\ <>[](/\ stage = "up" /\ links["primary"].status # "down"
          /\ links["primary"].quality = "good")
       => <>[](activeLink = "primary")
=============================================================================
