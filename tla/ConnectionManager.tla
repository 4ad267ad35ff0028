-------------------------- MODULE ConnectionManager --------------------------
(***************************************************************************)
(* The connections of the plugin (src/app/connection-manager.ts,           *)
(* src/index.ts): starts of the whole set, servers before clients, that    *)
(* overlap with stops and with newer starts, over the connections of       *)
(* module Connection, whose files, sockets and subscriptions may fail.     *)
(*                                                                         *)
(* An instance is <<a, n>>: connection n as created by the a-th start.     *)
(***************************************************************************)
EXTENDS Connection

CONSTANTS
  Names,              \* configured connections
  Options,            \* the options a connection of each name may have
  MaxStarts,          \* bound: calls of start()
  MaxStops,           \* bound: calls of stop()
  MaxFaults,          \* bound: awaits, sockets and subscriptions that fail
  MaxEdits            \* bound: changes of a subscription.json

ASSUME ManagerAssumption ==
  /\ Options \in [Names -> SUBSET ConnectionOptions]
  /\ {MaxStarts, MaxStops, MaxFaults, MaxEdits} \subseteq Nat

VARIABLES
  conns,              \* instance |-> its connection
  registry,           \* the instances in ctx.instances
  startGeneration,
  attempts,           \* start |-> its generation and how far it is
  file,               \* name |-> content of its subscription.json
  stops, faults, edits

vars == <<conns, registry, startGeneration, attempts, file, stops, faults,
          edits>>

Starts    == 1 .. MaxStarts
Instances == Starts \X Names
Owned(a)  == {a} \X Names

Servers(a) == {i \in Owned(a) : conns[i].opts.server}
Clients(a) == Owned(a) \ Servers(a)

Phases == {"none", "servers", "clients", "up", "rolledBack", "failed"}

Init ==
  /\ \E opts \in [Names -> UNION {Options[n] : n \in Names}] :
        /\ \A n \in Names : opts[n] \in Options[n]
        /\ conns = [i \in Instances |-> NewConnection(opts[i[2]])]
  /\ registry = {}
  /\ startGeneration = 0
  /\ attempts = [a \in Starts |-> [gen |-> 0, phase |-> "none"]]
  /\ file \in [Names -> Configs]
  /\ stops = 0 /\ faults = 0 /\ edits = 0

-----------------------------------------------------------------------------
Apply(is, Op(_)) == [i \in Instances |-> IF i \in is THEN Op(conns[i])
                                                     ELSE conns[i]]

(* Defect: nobody looks whether the start is still the latest. *)
SupersededIgnored(a) == FALSE

(* superseded *)
Superseded(a) == startGeneration # attempts[a].gen

(* Promise.all over the starts of a group: each has settled. *)
Settled(group) == \A i \in group : conns[i].outcome \notin {"none", "pending"}

StartFailed(a) == \E i \in Owned(a) : conns[i].outcome = "rejected"

Enters(a, phase) == attempts' = [attempts EXCEPT ![a].phase = phase]

(* teardownAll *)
TeardownAll ==
  /\ conns' = Apply(registry, Stop)
  /\ registry' = {}

(* Defect: the registry is taken for what the start made. *)
TeardownRegistered(a) ==
  /\ conns' = Apply(registry, Stop)
  /\ registry' = {}

(* Defect: only the registry is tidied. *)
Unregister(a) ==
  /\ registry' = registry \ Owned(a)
  /\ UNCHANGED conns

(* teardownOwned: stops what a start made and unregisters what is still    *)
(* registered of it.                                                       *)
TeardownOwned(a) ==
  /\ conns' = Apply(Owned(a), Stop)
  /\ registry' = registry \ Owned(a)

(* start, up to the await of the servers: it supersedes every other start, *)
(* stops what is registered, and registers and starts its own.             *)
ManagerStart(a) ==
  /\ attempts[a].phase = "none"
  /\ a > 1 => attempts[a - 1].phase # "none"
  /\ startGeneration' = startGeneration + 1
  /\ attempts' = [attempts EXCEPT ![a] =
                    [gen |-> startGeneration + 1, phase |-> "servers"]]
  /\ registry' = Owned(a)
  /\ conns' = [i \in Instances |->
                 IF i \in Servers(a) THEN Start(conns[i])
                 ELSE IF i \in registry THEN Stop(conns[i])
                 ELSE conns[i]]
  /\ UNCHANGED <<file, stops, faults, edits>>

(* A start that finds its configuration wrong (no connections, the same    *)
(* port twice, an invalid one) has already torn the running ones down.     *)
ManagerRefuses(a) ==
  /\ attempts[a].phase = "none"
  /\ a > 1 => attempts[a - 1].phase # "none"
  /\ startGeneration' = startGeneration + 1
  /\ attempts' = [attempts EXCEPT ![a] =
                    [gen |-> startGeneration + 1, phase |-> "failed"]]
  /\ TeardownAll
  /\ UNCHANGED <<file, stops, faults, edits>>

(* startAllInstances between its two groups *)
ServersSettled(a) ==
  /\ attempts[a].phase = "servers" /\ Settled(Servers(a))
  /\ IF Superseded(a)
     THEN /\ TeardownOwned(a) /\ Enters(a, "rolledBack")
     ELSE /\ conns' = Apply(Clients(a), Start) /\ Enters(a, "clients")
          /\ UNCHANGED registry
  /\ UNCHANGED <<startGeneration, file, stops, faults, edits>>

(* the rest of start *)
ClientsSettled(a) ==
  /\ attempts[a].phase = "clients" /\ Settled(Clients(a))
  /\ IF Superseded(a)
     THEN /\ TeardownOwned(a) /\ Enters(a, "rolledBack")
     ELSE IF StartFailed(a)
     THEN /\ TeardownAll /\ Enters(a, "failed")
     ELSE Enters(a, "up") /\ UNCHANGED <<conns, registry>>
  /\ UNCHANGED <<startGeneration, file, stops, faults, edits>>

(* stop *)
ManagerStop ==
  /\ stops < MaxStops
  /\ stops' = stops + 1
  /\ startGeneration' = startGeneration + 1
  /\ TeardownAll
  /\ UNCHANGED <<attempts, file, faults, edits>>

-----------------------------------------------------------------------------
(* Steps of one instance. *)
Becomes(i, c) ==
  /\ conns' = [conns EXCEPT ![i] = c]
  /\ UNCHANGED <<registry, startGeneration, attempts, file, stops, edits>>

Well(ok) == IF ok THEN UNCHANGED faults
            ELSE faults < MaxFaults /\ faults' = faults + 1

Awaited(i) ==
  LET c == conns[i] IN
  /\ c.pc \notin {"none", "flush"}
  /\ ~ (c.stopped /\ c.pc \in HangsAfterStop)
  /\ Becomes(i, AwaitEnds(c)) /\ Well(TRUE)

AwaitRejected(i) ==
  LET c == conns[i] IN
  /\ c.pc \in {"storage", "bonding", "bind"}
  /\ ~ (c.stopped /\ c.pc \in HangsAfterStop)
  /\ Becomes(i, AwaitFails(c)) /\ Well(FALSE)

(* The read of subscription.json ends; subscribe() may throw. *)
Loaded(i) ==
  LET c == conns[i] IN
  /\ c.loading
  /\ \/ \E ok \in BOOLEAN :
           Becomes(i, LoadEnds(c, file[i[2]], ok)) /\ Well(ok)
     \/ Becomes(i, LoadEnds(c, None, TRUE)) /\ Well(FALSE)

(* A watcher reports the change of the file to every instance that has one *)
(* on it; a file that is replaced (renames) leaves them on the old file.   *)
Edit(n, content, renames) ==
  /\ edits < MaxEdits /\ edits' = edits + 1
  /\ content # file[n]
  /\ file' = [file EXCEPT ![n] = content]
  /\ conns' = [i \in Instances |->
       LET told == Allocate(conns[i], {"debounce"}) IN
       IF i[2] # n \/ ~ Watches(conns[i]) THEN conns[i]
       ELSE IF renames THEN RecreateWatcherLater(told) ELSE told]
  /\ UNCHANGED <<registry, startGeneration, attempts, stops, faults>>

WatcherFails(i) ==
  /\ Holds(conns[i], "watchers")
  /\ Becomes(i, WatcherError(conns[i])) /\ Well(FALSE)

WatcherTimer(i) ==
  /\ Holds(conns[i], "watcherTimer")
  /\ \E ok \in BOOLEAN :
        Becomes(i, RecreateWatcher(conns[i], ok)) /\ Well(ok)

DebounceEnds(i) ==
  /\ Holds(conns[i], "debounce")
  /\ Becomes(i, RunLoad(conns[i])) /\ Well(TRUE)

SubscriptionFails(i) ==
  /\ conns[i].listening # "no" /\ ~ conns[i].stopped
  /\ Becomes(i, SubscriptionError(conns[i])) /\ Well(FALSE)

RetrySubscription(i) ==
  /\ Holds(conns[i], "subRetry")
  /\ \E ok \in BOOLEAN :
        Becomes(i, SubscriptionRetry(conns[i], ok)) /\ Well(ok)

SocketFails(i) ==
  LET c == conns[i] IN
  /\ Holds(c, "socket") /\ ~ c.recovering /\ ~ c.binding
  /\ \/ ~ c.opts.server /\ Becomes(i, ClientSocketError(c))
     \/ c.opts.server /\ \E fatal \in BOOLEAN :
           Becomes(i, ServerSocketError(c, fatal))
  /\ Well(FALSE)

RecoverSocket(i) ==
  LET c == conns[i] IN
  /\ Holds(c, "recovery")
  /\ \/ /\ ~ c.opts.server
        /\ \E ok \in BOOLEAN :
              Becomes(i, RecoverClientSocket(c, ok)) /\ Well(ok)
     \/ /\ c.opts.server
        /\ Becomes(i, RecoverServerSocket(c)) /\ Well(TRUE)

(* The socket of a recovery attempt is listening, or could not be bound. *)
Rebind(i) ==
  LET c == conns[i] IN
  /\ c.recovering /\ c.binding
  /\ \/ Becomes(i, Rebound(c)) /\ Well(TRUE)
     \/ \E fatal \in BOOLEAN :
           Becomes(i, RebindFails(c, fatal)) /\ Well(FALSE)

StepOf(i) ==
  \/ Awaited(i) \/ AwaitRejected(i) \/ Loaded(i) \/ DebounceEnds(i)
  \/ WatcherFails(i) \/ WatcherTimer(i)
  \/ SubscriptionFails(i) \/ RetrySubscription(i)
  \/ SocketFails(i) \/ RecoverSocket(i) \/ Rebind(i)

Next ==
  \/ \E a \in Starts : \/ ManagerStart(a) \/ ManagerRefuses(a)
                       \/ ServersSettled(a) \/ ClientsSettled(a)
  \/ ManagerStop
  \/ \E i \in Instances : StepOf(i)
  \/ \E n \in Names, content \in Configs, renames \in BOOLEAN :
        Edit(n, content, renames)

Spec == Init /\ [][Next]_vars

-----------------------------------------------------------------------------
(* The types, and: the timers that send at intervals exist only beside a   *)
(* socket to send on, at each end, across errors and recoveries.           *)
TypeOK ==
  /\ conns \in [Instances -> ConnectionRecord]
  /\ registry \subseteq Instances
  /\ startGeneration \in Nat
  /\ attempts \in [Starts -> [gen : Nat, phase : Phases]]
  /\ file \in [Names -> Configs]
  /\ stops \in 0 .. MaxStops /\ faults \in 0 .. MaxFaults
  /\ edits \in 0 .. MaxEdits
  /\ \A i \in Instances :
        conns[i].held \cap {"ackTimer", "heartbeat", "publishing"} # {}
          => Holds(conns[i], "socket")

(* Whatever stop() interrupts, nothing the plugin made stays behind: when  *)
(* the start that made an instance is over, a stopped instance holds no    *)
(* timer, socket or watcher.  (start-client.ts arms the timer of the       *)
(* source snapshots after HELLO without looking whether stop() came; the   *)
(* rollback of the superseded start stops the instance again.)             *)
NothingOutlivesStop ==
  \A i \in Instances :
    /\ conns[i].life = "Stopped"
    /\ conns[i].pc = "none"
    /\ attempts[i[1]].phase \notin {"servers", "clients"}
    => conns[i].held = {}

(* An instance that runs can be reached: the registry the next stop()      *)
(* walks has it.                                                           *)
NoOrphans ==
  \A i \in Instances :
    conns[i].life \in {"Starting", "Ready", "Recovering"} => i \in registry

(* A start that nothing superseded, and that did not fail, has all its     *)
(* instances registered, whatever older starts roll back.                  *)
LatestStartStands ==
  \A a \in Starts :
    attempts[a].phase \in {"servers", "clients", "up"} /\ ~ Superseded(a)
      => registry = Owned(a)

(* A connection that runs and may not send has a timer, a bind or an       *)
(* operator's fault (a port in use) to thank for it, unless a change of    *)
(* configuration took its retry away.                                      *)
PausesAreTimed ==
  \A i \in Instances : conns[i].overtaken \/ PauseIsTimed(conns[i])

(* The timers: none without a socket to send on, and none missing where a  *)
(* connection waits for one.                                               *)
TimersInv == TypeOK /\ PausesAreTimed

(* subscription-manager.ts:163 of the error callback: "without arming the  *)
(* retry loop here a single async error would leave the instance paused    *)
(* [...] until the next config change".  The config change does not end    *)
(* the pause either: it cancels the retry and reopens nothing.             *)
PauseEnds == \A i \in Instances : PauseIsTimed(conns[i])
=============================================================================
