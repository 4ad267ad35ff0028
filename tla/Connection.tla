----------------------------- MODULE Connection -----------------------------
(***************************************************************************)
(* One connection instance (src/app/connection/): its lifecycle, its       *)
(* start() across every await, stop(), the recovery of its socket, and its *)
(* subscription with the retries.  The module is operators on a record;    *)
(* ConnectionManager makes steps of them.                                  *)
(*                                                                         *)
(* held is the set of timers, sockets and watchers that exist.  pc is the  *)
(* await at which start() waits.  Only options that validateConnection-    *)
(* Config accepts reach start(), so its own preconditions hold.            *)
(***************************************************************************)
EXTENDS Naturals, FiniteSets

CONSTANTS
  Configs,            \* contents of subscription.json
  WithMetadata,       \* those that switch metadata on
  None,
  MaxRecoveryAttempts \* of a watcher

ASSUME ConnectionAssumption ==
  /\ WithMetadata \subseteq Configs /\ None \notin Configs
  /\ MaxRecoveryAttempts \in Nat \ {0}

LifecycleStates == {"Created", "Starting", "Ready", "Recovering", "Stopped"}

(* "Stopping" is left out: no code asks for a transition to it. *)
ValidTransitions ==
  [Created    |-> {"Starting", "Stopped"},
   Starting   |-> {"Ready", "Stopped"},
   Ready      |-> {"Recovering", "Stopped"},
   Recovering |-> {"Ready", "Stopped"},
   Stopped    |-> {"Starting"}]

Resources == {"dedupe", "keepalive", "socket", "deltaTimer", "ping",
              "publishing", "congestion", "heartbeat", "bonding",
              "sourceTimer", "watchers", "watcherTimer", "debounce",
              "metaTimer", "subRetry", "recovery", "ackTimer"}

Awaits == {"none", "storage", "timerFile", "epoch", "bonding", "hello",
           "flush", "bind"}

ConnectionOptions == [server : BOOLEAN, reliable : BOOLEAN,
                      bonding : BOOLEAN, congestion : BOOLEAN]

(* The fields of a connection.  listening: what subscribe() registered;    *)
(* overtaken, a history: a change of configuration cancelled the retry     *)
(* that was to end a pause; fatal, another: a bind failed for good.        *)
ConnectionRecord ==
  [opts : ConnectionOptions, life : LifecycleStates, stopped : BOOLEAN,
   ready : BOOLEAN, pc : Awaits,
   outcome : {"none", "pending", "resolved", "rejected"},
   held : SUBSET Resources, recovering : BOOLEAN, binding : BOOLEAN,
   fatal : BOOLEAN, loading : BOOLEAN, rerun : BOOLEAN,
   hash : Configs \cup {None}, listening : {"no", "partly", "yes"},
   meta : Configs \cup {None}, pendingMeta : Configs \cup {None},
   overtaken : BOOLEAN, watcherTries : 0 .. MaxRecoveryAttempts]

NewConnection(opts) ==
  [opts |-> opts, life |-> "Created", stopped |-> FALSE, ready |-> FALSE,
   pc |-> "none", outcome |-> "none", held |-> {}, recovering |-> FALSE,
   binding |-> FALSE, fatal |-> FALSE, loading |-> FALSE, rerun |-> FALSE,
   hash |-> None, listening |-> "no", meta |-> None, pendingMeta |-> None,
   overtaken |-> FALSE, watcherTries |-> 0]

-----------------------------------------------------------------------------
(* Lifecycle.isShuttingDown *)
ShuttingDown(c) == c.life = "Stopped"

(* Lifecycle.transition: an invalid one is logged and changes nothing. *)
Transition(c, next) ==
  IF next \in ValidTransitions[c.life] THEN [c EXCEPT !.life = next] ELSE c

Allocate(c, rs) == [c EXCEPT !.held = @ \cup rs]
Release(c, rs)  == [c EXCEPT !.held = @ \ rs]
Holds(c, r)     == r \in c.held

Paused(c) == [c EXCEPT !.ready = FALSE]
Opened(c) == [c EXCEPT !.ready = TRUE, !.overtaken = FALSE]

When(b, rs) == IF b THEN rs ELSE {}

(* stop: forceStop and the four teardowns. *)
Stop(c) ==
  [c EXCEPT !.life = "Stopped", !.stopped = TRUE, !.ready = FALSE,
            !.held = {}, !.recovering = FALSE, !.binding = FALSE,
            !.hash = None, !.listening = "no", !.meta = None,
            !.pendingMeta = None]

-----------------------------------------------------------------------------
(* start: each operator is the stretch between two awaits. *)
Waits(c, pc)     == [c EXCEPT !.pc = pc]
Settles(c, how)  == [c EXCEPT !.pc = "none", !.outcome = how]
StartFails(c)    == Settles(Stop(c), "rejected")

(* The end of start(): whatever became of the first subscribe or of the    *)
(* socket meanwhile, the connection is Ready and open.                     *)
StartEnds(c) ==
  Settles(IF ShuttingDown(c) THEN c ELSE Opened(Transition(c, "Ready")),
          "resolved")

(* start up to its first await *)
Start(c) ==
  IF "Starting" \notin ValidTransitions[c.life] THEN Settles(c, "resolved")
  ELSE LET s == Allocate([Transition(c, "Starting") EXCEPT
                            !.stopped = FALSE, !.outcome = "pending"],
                         {"dedupe"})
       IN  IF c.opts.server
           THEN [Waits(Allocate(s, {"socket"}), "bind")
                   EXCEPT !.binding = TRUE]
           ELSE Waits(s, "storage")

(* bindAndAwaitListening resolves: the listeners of "listening" run. *)
Listening(c) ==
  Opened([Allocate(c, When(c.opts.reliable, {"ackTimer", "publishing"}))
            EXCEPT !.binding = FALSE])

(* setupConfigWatchers up to the read of flush() *)
InstallWatchers(c) ==
  Waits([Allocate(Opened(c), {"watchers"}) EXCEPT !.loading = TRUE], "flush")

(* startClient after the epoch: everything is allocated. *)
AllocateClient(c) ==
  LET r == c.opts.reliable
      s == Allocate(c, {"keepalive", "socket", "deltaTimer"}
                         \cup When(~ r, {"ping"})
                         \cup When(r, {"publishing", "heartbeat"})
                         \cup When(r /\ c.opts.congestion, {"congestion"})
                         \cup When(r /\ c.opts.bonding, {"bonding"}))
  IN  IF ~ r THEN InstallWatchers(s)
      ELSE Waits(s, IF c.opts.bonding THEN "bonding" ELSE "hello")

(* The await at c.pc ends well; a stop() during it ends start(), after     *)
(* HELLO only once the timer of the source snapshots is armed.             *)
AwaitEnds(c) ==
  LET s == IF c.pc = "hello" THEN Allocate(c, {"sourceTimer"}) ELSE c
  IN  IF ShuttingDown(c) THEN Settles(s, "resolved")
      ELSE CASE c.pc = "storage"   -> Waits(s, "timerFile")
             [] c.pc = "timerFile" -> Waits(s, "epoch")
             [] c.pc = "epoch"     -> AllocateClient(s)
             [] c.pc = "bonding"   -> Waits(s, "hello")
             [] c.pc = "hello"     -> InstallWatchers(s)
             [] c.pc = "bind"      -> StartEnds(Listening(s))

(* A closed socket reports nothing: these awaits never end after stop(). *)
HangsAfterStop == {"bonding", "bind"}

(* What a failed await does: storage and bind reject, bonding is done      *)
(* without; the other awaits swallow their errors.                         *)
AwaitFails(c) ==
  IF c.pc = "bonding" THEN Waits(Release(c, {"bonding"}), "hello")
  ELSE StartFails(c)

-----------------------------------------------------------------------------
(* processSubscriptionConfig: the old listeners go, a pending retry is     *)
(* cancelled, subscribe() succeeds or throws.  Success does not reopen the *)
(* send gate and leaves a staged metadata configuration staged.            *)
Subscribe(c, config, ok) ==
  LET s == Release(c, {"subRetry"})
  IN  IF ok
      THEN [s EXCEPT !.listening = "yes", !.meta = config,
                     !.held = (@ \ {"metaTimer"})
                        \cup When(config \in WithMetadata, {"metaTimer"}),
                     !.overtaken = @ \/ (Holds(c, "subRetry") /\ ~ c.ready)]
      ELSE [Paused(Allocate(s, {"subRetry"})) EXCEPT
              !.listening = "partly", !.pendingMeta = config]

(* runSubscriptionRetry *)
SubscriptionRetry(c, ok) ==
  LET s == Release(c, {"subRetry"})
      new == c.pendingMeta # None
      t == [s EXCEPT !.listening = "yes", !.pendingMeta = None,
                     !.meta = IF new THEN c.pendingMeta ELSE @,
                     !.held = IF new
                              THEN (@ \ {"metaTimer"}) \cup
                                   When(c.pendingMeta \in WithMetadata,
                                        {"metaTimer"})
                              ELSE @]
  IN  IF ~ ok
      THEN [Allocate(s, {"subRetry"}) EXCEPT !.listening = "partly"]
      ELSE IF c.recovering THEN t ELSE Opened(t)

(* Defect: the retry is armed only when subscribe() throws. *)
SubscriptionErrorUnarmed(c) == Paused(c)

(* The error callback of the subscription in force. *)
SubscriptionError(c) == Paused(Allocate(c, {"subRetry"}))

(* runLoadInner and the drain loop, once the file is read as content, or   *)
(* reading or parsing threw (content = None).                              *)
LoadEnds(c, content, ok) ==
  LET s == IF ShuttingDown(c) \/ content \in {None, c.hash} THEN c
           ELSE [Subscribe(c, content, ok) EXCEPT !.hash = content]
      again == c.rerun /\ ~ c.stopped
      t == [s EXCEPT !.rerun = FALSE, !.loading = again]
  IN  IF c.pc = "flush" /\ ~ again THEN StartEnds(t) ELSE t

(* runLoad: a load under way is asked to run once more. *)
RunLoad(c) ==
  LET s == Release(c, {"debounce"})
  IN  IF c.loading THEN [s EXCEPT !.rerun = TRUE]
      ELSE [s EXCEPT !.loading = TRUE, !.rerun = FALSE]

-----------------------------------------------------------------------------
(* createWatcherWithRecovery.  A watcher whose file was replaced stays     *)
(* open, on a file nobody edits any more, until a new one is made; the     *)
(* number of tries goes back to 0 when one is.                             *)
Watches(c) == Holds(c, "watchers") /\ c.watcherTries = 0

(* scheduleWatcherRecreate *)
RecreateWatcherLater(c) ==
  LET s == Release(c, {"watcherTimer"})
  IN  IF c.watcherTries >= MaxRecoveryAttempts THEN s
      ELSE [Allocate(s, {"watcherTimer"}) EXCEPT !.watcherTries = @ + 1]

(* The watcher's "error": it is closed first. *)
WatcherError(c) == RecreateWatcherLater(Release(c, {"watchers"}))

(* The timer: createWatcher closes the old watcher, makes a new one or     *)
(* fails.                                                                  *)
RecreateWatcher(c, ok) ==
  LET s == Release(c, {"watcherTimer", "watchers"})
  IN  IF ok THEN [Allocate(s, {"watchers"}) EXCEPT !.watcherTries = 0]
      ELSE RecreateWatcherLater(s)

-----------------------------------------------------------------------------
(* handleClientSocketError; from Starting the FSM refuses Recovering. *)
ClientSocketError(c) ==
  [Transition(Paused(Release(c, {"publishing", "congestion", "heartbeat",
                                 "socket"})), "Recovering")
     EXCEPT !.recovering = TRUE, !.held = @ \cup {"recovery"}]

(* recoverClientSocket *)
RecoverClientSocket(c, ok) ==
  LET s == Release(c, {"recovery"})
      r == c.opts.reliable
  IN  IF ~ ok THEN Allocate(s, {"recovery"})
      ELSE [Transition(Opened(Allocate(s,
              {"socket"} \cup When(r, {"publishing", "heartbeat"})
                \cup When(r /\ c.opts.congestion, {"congestion"}))), "Ready")
              EXCEPT !.recovering = FALSE]

(* The persistent error handler of a server's socket. *)
ServerSocketError(c, fatal) ==
  LET s == Paused(Release(c, {"ackTimer", "publishing", "socket"}))
  IN  IF fatal THEN [s EXCEPT !.fatal = TRUE]
      ELSE [Allocate(s, {"recovery"}) EXCEPT !.recovering = TRUE]

(* scheduleServerRecovery, its attempt: a new socket binds. *)
RecoverServerSocket(c) ==
  [Allocate(Release(c, {"recovery"}), {"socket"}) EXCEPT !.binding = TRUE]

(* onBindError of the attempt *)
RebindFails(c, fatal) ==
  LET s == [Paused(Release(c, {"socket"})) EXCEPT !.binding = FALSE]
  IN  IF fatal THEN [s EXCEPT !.recovering = FALSE, !.fatal = TRUE]
      ELSE Allocate(s, {"recovery"})

(* "listening" of the attempt *)
Rebound(c) == [Listening(c) EXCEPT !.recovering = FALSE]

-----------------------------------------------------------------------------
(* A connection that may not send, though running, has a timer that will   *)
(* open it again.                                                          *)
PauseIsTimed(c) ==
  c.life \in {"Ready", "Recovering"} /\ ~ c.ready =>
    c.held \cap {"subRetry", "recovery"} # {} \/ c.binding \/ c.fatal
=============================================================================
