------------------------ MODULE ConnectionManagerProofs ------------------------
(***************************************************************************)
(* The starts and stops of ConnectionManager over any connections and any  *)
(* number of starts, stops, faults and changes of files.                   *)
(*                                                                         *)
(* The argument has two levels.  Every operator of Connection keeps what   *)
(* holds of a connection by itself (Sound) and changes what the manager    *)
(* looks at only in some ways (Evolves); these are the lemmas "...Keeps".  *)
(* Of the starts StartInv says what their phase tells of the connections   *)
(* they made, and that the latest one has the registry to itself.          *)
(***************************************************************************)
EXTENDS ConnectionManager, TLAPS

Intervals == {"ackTimer", "heartbeat", "publishing"}

(* What holds of a connection by itself. *)
Sound(c) ==
  /\ c.stopped <=> c.life = "Stopped"
  /\ c.pc # "none" <=> c.outcome = "pending"
  /\ c.outcome = "none" => c.life \in {"Created", "Stopped"}
  /\ c.life = "Created" => c = NewConnection(c.opts)
  /\ c.life = "Stopped" => /\ c.held \subseteq {"sourceTimer"}
                           /\ ~ c.recovering /\ ~ c.binding
                           /\ c.listening = "no"
  /\ c.opts.server => c.pc \in {"none", "bind"} /\ "heartbeat" \notin c.held
  /\ ~ c.opts.server => c.pc # "bind" /\ ~ c.binding /\ "ackTimer" \notin c.held
  /\ c.pc = "bind" /\ ~ c.stopped => c.binding /\ ~ c.recovering
  /\ c.binding => Holds(c, "socket")
  /\ c.recovering => Holds(c, "recovery") \/ c.binding
  /\ c.held \cap Intervals # {} => Holds(c, "socket")
  /\ c.opts.server /\ (c.binding \/ c.recovering) => c.held \cap Intervals = {}
  /\ c.opts.server /\ Holds(c, "recovery") => c.recovering /\ ~ c.binding
  /\ c.overtaken \/ PauseIsTimed(c)

ConnectionInv(c) == c \in ConnectionRecord /\ Sound(c)

(* What a step of a connection may do to what the manager looks at. *)
Evolves(c, d) ==
  /\ d.opts = c.opts /\ c.life # "Created" /\ d.life # "Created"
  /\ c.life = "Stopped" => d.life = "Stopped"
  /\ c.outcome # "pending" => d.outcome = c.outcome
  /\ c.outcome = "pending" => d.outcome # "none"
  /\ d.life = "Stopped" =>
       \/ c.life = "Stopped" /\ (c.pc = "none" => d.held \subseteq c.held)
       \/ c.outcome = "pending" /\ d.outcome = "rejected"

(* The helpers keep the type of a connection. *)
LEMMA HelperTypes ==
  ASSUME NEW c \in ConnectionRecord
  PROVE  /\ \A l \in LifecycleStates : Transition(c, l) \in ConnectionRecord
         /\ \A rs \in SUBSET Resources : Allocate(c, rs) \in ConnectionRecord
         /\ \A rs : Release(c, rs) \in ConnectionRecord
         /\ Paused(c) \in ConnectionRecord /\ Opened(c) \in ConnectionRecord
         /\ \A pc \in Awaits : Waits(c, pc) \in ConnectionRecord
         /\ \A how \in {"resolved", "rejected"} :
              Settles(c, how) \in ConnectionRecord
<1>1. ASSUME NEW l \in LifecycleStates
      PROVE  Transition(c, l) \in ConnectionRecord
  BY DEF Transition, ConnectionRecord
<1>2. ASSUME NEW rs \in SUBSET Resources
      PROVE  Allocate(c, rs) \in ConnectionRecord
  BY DEF Allocate, ConnectionRecord
<1>3. ASSUME NEW rs PROVE Release(c, rs) \in ConnectionRecord
  BY DEF Release, ConnectionRecord
<1>4. Paused(c) \in ConnectionRecord /\ Opened(c) \in ConnectionRecord
  BY DEF Paused, Opened, ConnectionRecord
<1>5. ASSUME NEW pc \in Awaits PROVE Waits(c, pc) \in ConnectionRecord
  BY DEF Waits, ConnectionRecord
<1>6. ASSUME NEW how \in {"resolved", "rejected"}
      PROVE  Settles(c, how) \in ConnectionRecord
  BY DEF Settles, ConnectionRecord, Awaits
<1> QED BY <1>1, <1>2, <1>3, <1>4, <1>5, <1>6

(* What a new connection is. *)
LEMMA CreatedFields ==
  ASSUME NEW c, Sound(c), c.life = "Created"
  PROVE  /\ c.held = {} /\ c.pc = "none" /\ c.outcome = "none"
         /\ c.loading = FALSE /\ c.recovering = FALSE /\ c.binding = FALSE
         /\ c.listening = "no" /\ c.stopped = FALSE /\ c.overtaken = FALSE
<1>1. PICK o : o = c.opts
  OBVIOUS
<1>2. c = NewConnection(o)
  BY <1>1 DEF Sound
<1> QED BY <1>2 DEF NewConnection

(* stop *)
LEMMA StopKeeps ==
  ASSUME NEW c, ConnectionInv(c)
  PROVE  /\ ConnectionInv(Stop(c))
         /\ Stop(c).life = "Stopped" /\ Stop(c).held = {}
         /\ Stop(c).opts = c.opts /\ Stop(c).outcome = c.outcome
         /\ Stop(c).pc = c.pc
<1>1. PICK d : d = Stop(c)
  OBVIOUS
<1>2. c \in ConnectionRecord /\ Sound(c)
  BY DEF ConnectionInv
<1>3. d \in ConnectionRecord
  <2>1. "Stopped" \in LifecycleStates /\ {} \in SUBSET Resources
    BY DEF LifecycleStates
  <2> QED BY <1>1, <1>2, <2>1 DEF Stop, ConnectionRecord
<1>4. /\ d.life = "Stopped" /\ d.stopped = TRUE /\ d.ready = FALSE
      /\ d.held = {} /\ d.recovering = FALSE /\ d.binding = FALSE
      /\ d.listening = "no" /\ d.opts = c.opts /\ d.pc = c.pc
      /\ d.outcome = c.outcome /\ d.overtaken = c.overtaken
  <2>1. /\ d.life = "Stopped" /\ d.stopped = TRUE /\ d.ready = FALSE
        /\ d.held = {} /\ d.recovering = FALSE
    BY <1>1, <1>2 DEF Stop, ConnectionRecord
  <2>2. d.binding = FALSE /\ d.listening = "no" /\ d.opts = c.opts
    BY <1>1, <1>2 DEF Stop, ConnectionRecord
  <2>3. d.pc = c.pc /\ d.outcome = c.outcome /\ d.overtaken = c.overtaken
    BY <1>1, <1>2 DEF Stop, ConnectionRecord
  <2> QED BY <2>1, <2>2, <2>3
<1>5. Sound(d)
  BY <1>2, <1>4 DEF Sound, PauseIsTimed, Holds
<1> QED BY <1>1, <1>3, <1>4, <1>5 DEF ConnectionInv

(* start up to its first await *)
LEMMA StartKeeps ==
  ASSUME NEW c, ConnectionInv(c), c.life = "Created"
  PROVE  /\ ConnectionInv(Start(c))
         /\ Start(c).life = "Starting" /\ Start(c).opts = c.opts
         /\ Start(c).outcome = "pending"
<1>1. PICK d : d = Start(c)
  OBVIOUS
<1>2. /\ c \in ConnectionRecord /\ Sound(c)
  BY DEF ConnectionInv
<1>3. "Starting" \in ValidTransitions[c.life]
  BY DEF ValidTransitions
<1>4. d \in ConnectionRecord
  <2> DEFINE t == Transition(c, "Starting")
             u == [t EXCEPT !.stopped = FALSE, !.outcome = "pending"]
             s == Allocate(u, {"dedupe"})
             v == Waits(Allocate(s, {"socket"}), "bind")
  <2>1. d = IF c.opts.server THEN [v EXCEPT !.binding = TRUE]
            ELSE Waits(s, "storage")
    BY <1>1, <1>3 DEF Start
  <2>2. t \in ConnectionRecord
    BY <1>2, HelperTypes DEF LifecycleStates
  <2> HIDE DEF t
  <2>3. u \in ConnectionRecord
    BY <2>2 DEF ConnectionRecord
  <2> HIDE DEF u
  <2>4. s \in ConnectionRecord
    BY <2>3, HelperTypes DEF Resources
  <2> HIDE DEF s
  <2>5. v \in ConnectionRecord /\ Waits(s, "storage") \in ConnectionRecord
    BY <2>4, HelperTypes DEF Resources, Awaits
  <2> HIDE DEF v
  <2>6. [v EXCEPT !.binding = TRUE] \in ConnectionRecord
    BY <2>5 DEF ConnectionRecord
  <2> QED BY <2>1, <2>5, <2>6
<1>5. /\ d.life = "Starting" /\ d.stopped = FALSE /\ d.outcome = "pending"
      /\ d.opts = c.opts /\ d.overtaken = c.overtaken
      /\ d.recovering = c.recovering
      /\ c.opts.server => /\ d.pc = "bind" /\ d.binding = TRUE
                          /\ d.held = c.held \cup {"dedupe", "socket"}
      /\ ~ c.opts.server => /\ d.pc = "storage" /\ d.binding = c.binding
                            /\ d.held = c.held \cup {"dedupe"}
  BY <1>1, <1>2, <1>3
     DEF Start, Transition, Allocate, Waits, ConnectionRecord
<1>6. Sound(d)
  BY <1>2, <1>5, CreatedFields DEF Sound, PauseIsTimed, Holds, Intervals
<1> QED BY <1>1, <1>4, <1>5, <1>6 DEF ConnectionInv

(* A start() that ends: also when the socket is gone meanwhile. *)
LEMMA StartEndsKeeps ==
  ASSUME NEW c, ConnectionInv(c), c.pc # "none",
         c.life # "Stopped" => c.pc # "bind"
  PROVE  ConnectionInv(StartEnds(c)) /\ Evolves(c, StartEnds(c))
<1>1. PICK d : d = StartEnds(c)
  OBVIOUS
<1>2. c \in ConnectionRecord /\ Sound(c)
  BY DEF ConnectionInv
<1>3. d \in ConnectionRecord
  BY <1>1, <1>2, HelperTypes DEF StartEnds, LifecycleStates
<1>4. /\ d.pc = "none" /\ d.outcome = "resolved" /\ d.opts = c.opts
      /\ d.stopped = c.stopped /\ d.held = c.held /\ d.binding = c.binding
      /\ d.recovering = c.recovering /\ d.listening = c.listening
      /\ d.fatal = c.fatal
      /\ c.life = "Stopped" => d.life = "Stopped"
      /\ c.life # "Stopped" =>
           /\ d.ready = TRUE
           /\ d.life = IF "Ready" \in ValidTransitions[c.life] THEN "Ready"
                       ELSE c.life
  BY <1>1, <1>2
     DEF StartEnds, Settles, Opened, Transition, ShuttingDown, ConnectionRecord
<1>5. c.outcome = "pending" /\ c.life # "Created"
  BY <1>2, CreatedFields DEF Sound
<1>6. Sound(d)
  BY <1>2, <1>4, <1>5 DEF Sound, PauseIsTimed, Holds, Intervals
<1>7. Evolves(c, d)
  BY <1>4, <1>5 DEF Evolves
<1> QED BY <1>1, <1>3, <1>6, <1>7 DEF ConnectionInv

(* Whoever holds a timer runs. *)
LEMMA HoldersRun ==
  ASSUME NEW c, ConnectionInv(c), NEW r, Holds(c, r), r # "sourceTimer"
  PROVE  c.life # "Created" /\ c.life # "Stopped" /\ ~ c.stopped
BY CreatedFields DEF ConnectionInv, Sound, Holds

(* A change that leaves alone what Sound looks at. *)
LEMMA QuietKeeps ==
  ASSUME NEW c, ConnectionInv(c), c.life # "Created",
         NEW d \in ConnectionRecord,
         d.opts = c.opts, d.life = c.life, d.stopped = c.stopped,
         d.pc = c.pc, d.outcome = c.outcome, d.recovering = c.recovering,
         d.binding = c.binding, d.fatal = c.fatal, d.listening = c.listening,
         d.ready = c.ready, d.overtaken = c.overtaken,
         d.held = c.held \/ c.life # "Stopped",
         \A r \in Intervals \cup {"socket", "recovery", "subRetry"} :
           r \in d.held <=> r \in c.held
  PROVE  ConnectionInv(d) /\ Evolves(c, d)
<1>1. Sound(c)
  BY DEF ConnectionInv
<1>2. Sound(d)
  <2>1. d.overtaken \/ PauseIsTimed(d)
    BY <1>1 DEF Sound, PauseIsTimed
  <2>2. d.held \cap Intervals # {} => Holds(d, "socket")
    BY <1>1 DEF Sound, Holds
  <2> QED BY <1>1, <2>1, <2>2 DEF Sound, Holds, Intervals
<1> QED BY <1>2 DEF ConnectionInv, Evolves

(* createWatcherWithRecovery *)
LEMMA WatcherKeeps ==
  ASSUME NEW c, ConnectionInv(c),
         Holds(c, "watchers") \/ Holds(c, "watcherTimer")
  PROVE  /\ ConnectionInv(RecreateWatcherLater(c))
         /\ Evolves(c, RecreateWatcherLater(c))
         /\ ConnectionInv(WatcherError(c)) /\ Evolves(c, WatcherError(c))
         /\ \A ok \in BOOLEAN : /\ ConnectionInv(RecreateWatcher(c, ok))
                               /\ Evolves(c, RecreateWatcher(c, ok))
<1>1. c \in ConnectionRecord /\ c.life # "Created" /\ c.life # "Stopped"
  BY HoldersRun DEF ConnectionInv
<1>2. ASSUME NEW b,
             b \in {c, Release(c, {"watchers"}),
                    Release(c, {"watcherTimer", "watchers"})}
      PROVE  LET d == RecreateWatcherLater(b) IN
             ConnectionInv(d) /\ Evolves(c, d)
  <2>1. PICK d : d = RecreateWatcherLater(b)
    OBVIOUS
  <2>2. b \in ConnectionRecord
    BY <1>1, <1>2, HelperTypes
  <2>3. d \in ConnectionRecord
    <3>1. PICK s : s = Release(b, {"watcherTimer"})
      OBVIOUS
    <3>2. s \in ConnectionRecord /\ s.watcherTries = b.watcherTries
      BY <2>2, <3>1 DEF Release, ConnectionRecord
    <3>3. PICK u : u = Allocate(s, {"watcherTimer"})
      OBVIOUS
    <3>4. u \in ConnectionRecord /\ u.watcherTries = b.watcherTries
      BY <3>2, <3>3 DEF Allocate, ConnectionRecord, Resources
    <3>5. b.watcherTries \in 0 .. MaxRecoveryAttempts
      BY <2>2 DEF ConnectionRecord
    <3>6. b.watcherTries < MaxRecoveryAttempts =>
            b.watcherTries + 1 \in 0 .. MaxRecoveryAttempts
      BY <3>5, ConnectionAssumption
    <3>7. d = IF b.watcherTries >= MaxRecoveryAttempts THEN s
              ELSE [u EXCEPT !.watcherTries = b.watcherTries + 1]
      BY <2>1, <3>1, <3>3, <3>4 DEF RecreateWatcherLater
    <3>8. b.watcherTries < MaxRecoveryAttempts =>
            [u EXCEPT !.watcherTries = b.watcherTries + 1] \in ConnectionRecord
      BY <3>4, <3>6 DEF ConnectionRecord
    <3> QED BY <3>2, <3>5, <3>7, <3>8, ConnectionAssumption
  <2>4. /\ d.opts = b.opts /\ d.life = b.life /\ d.stopped = b.stopped
        /\ d.pc = b.pc /\ d.outcome = b.outcome
        /\ d.recovering = b.recovering /\ d.binding = b.binding
        /\ d.fatal = b.fatal /\ d.listening = b.listening
        /\ d.ready = b.ready /\ d.overtaken = b.overtaken
        /\ \A r : r \notin {"watchers", "watcherTimer"} =>
                  (r \in d.held <=> r \in b.held)
    BY <2>1, <2>2
       DEF RecreateWatcherLater, Release, Allocate, ConnectionRecord
  <2>5. /\ b.opts = c.opts /\ b.life = c.life /\ b.stopped = c.stopped
        /\ b.pc = c.pc /\ b.outcome = c.outcome
        /\ b.recovering = c.recovering /\ b.binding = c.binding
        /\ b.fatal = c.fatal /\ b.listening = c.listening
        /\ b.ready = c.ready /\ b.overtaken = c.overtaken
        /\ \A r : r \notin {"watchers", "watcherTimer"} =>
                  (r \in b.held <=> r \in c.held)
    BY <1>1, <1>2 DEF Release, ConnectionRecord
  <2>6. \A r \in Intervals \cup {"socket", "recovery", "subRetry"} :
          r \in d.held <=> r \in c.held
    BY <2>4, <2>5 DEF Intervals
  <2>7. ConnectionInv(d) /\ Evolves(c, d)
    BY <1>1, <2>3, <2>4, <2>5, <2>6, QuietKeeps
  <2> QED BY <2>1, <2>7
<1>3. LET d == RecreateWatcher(c, TRUE) IN ConnectionInv(d) /\ Evolves(c, d)
  <2>1. PICK d : d = RecreateWatcher(c, TRUE)
    OBVIOUS
  <2>2. PICK u : u = Allocate(Release(c, {"watcherTimer", "watchers"}),
                              {"watchers"})
    OBVIOUS
  <2>3. u \in ConnectionRecord /\ d = [u EXCEPT !.watcherTries = 0]
    BY <1>1, <2>1, <2>2, HelperTypes DEF RecreateWatcher, Resources
  <2>4. d \in ConnectionRecord
    BY <2>3, ConnectionAssumption DEF ConnectionRecord
  <2>5. /\ u.opts = c.opts /\ u.life = c.life /\ u.stopped = c.stopped
        /\ u.pc = c.pc /\ u.outcome = c.outcome
        /\ u.recovering = c.recovering /\ u.binding = c.binding
        /\ u.fatal = c.fatal /\ u.listening = c.listening
        /\ u.ready = c.ready /\ u.overtaken = c.overtaken
        /\ \A r : r \notin {"watchers", "watcherTimer"} =>
                  (r \in u.held <=> r \in c.held)
    BY <1>1, <2>2 DEF Release, Allocate, ConnectionRecord
  <2>6. /\ d.opts = c.opts /\ d.life = c.life /\ d.stopped = c.stopped
        /\ d.pc = c.pc /\ d.outcome = c.outcome
        /\ d.recovering = c.recovering /\ d.binding = c.binding
        /\ d.fatal = c.fatal /\ d.listening = c.listening
        /\ d.ready = c.ready /\ d.overtaken = c.overtaken
        /\ d.held = u.held
    BY <2>3, <2>5 DEF ConnectionRecord
  <2>7. \A r \in Intervals \cup {"socket", "recovery", "subRetry"} :
          r \in d.held <=> r \in c.held
    BY <2>5, <2>6 DEF Intervals
  <2>8. ConnectionInv(d) /\ Evolves(c, d)
    BY <1>1, <2>4, <2>6, <2>7, QuietKeeps
  <2> QED BY <2>1, <2>8
<1>4. /\ WatcherError(c) = RecreateWatcherLater(Release(c, {"watchers"}))
      /\ RecreateWatcher(c, FALSE)
           = RecreateWatcherLater(Release(c, {"watcherTimer", "watchers"}))
  BY DEF WatcherError, RecreateWatcher
<1>5. ASSUME NEW ok \in BOOLEAN
      PROVE  ConnectionInv(RecreateWatcher(c, ok)) /\ Evolves(c, RecreateWatcher(c, ok))
  <2>1. CASE ok = TRUE
    BY <1>3, <2>1
  <2>2. CASE ok = FALSE
    BY <1>2, <1>4, <2>2
  <2> QED BY <2>1, <2>2
<1> QED BY <1>2, <1>4, <1>5

(* runLoad: a load is begun or asked to run once more. *)
LEMMA RunLoadKeeps ==
  ASSUME NEW c, ConnectionInv(c), Holds(c, "debounce")
  PROVE  ConnectionInv(RunLoad(c)) /\ Evolves(c, RunLoad(c))
<1>1. c \in ConnectionRecord /\ c.life # "Created" /\ c.life # "Stopped"
  BY HoldersRun DEF ConnectionInv
<1>2. PICK d : d = RunLoad(c)
  OBVIOUS
<1>3. d \in ConnectionRecord
  BY <1>1, <1>2 DEF RunLoad, Release, ConnectionRecord
<1>4. /\ d.opts = c.opts /\ d.life = c.life /\ d.stopped = c.stopped
      /\ d.pc = c.pc /\ d.outcome = c.outcome
      /\ d.recovering = c.recovering /\ d.binding = c.binding
      /\ d.fatal = c.fatal /\ d.listening = c.listening
      /\ d.ready = c.ready /\ d.overtaken = c.overtaken
      /\ d.held = c.held \ {"debounce"}
  BY <1>1, <1>2 DEF RunLoad, Release, ConnectionRecord
<1>5. \A r \in Intervals \cup {"socket", "recovery", "subRetry"} :
        r \in d.held <=> r \in c.held
  BY <1>4 DEF Intervals
<1>6. ConnectionInv(d) /\ Evolves(c, d)
  BY <1>1, <1>3, <1>4, <1>5, QuietKeeps
<1> QED BY <1>2, <1>6

-----------------------------------------------------------------------------
(* The subscription. *)

(* The error callback. *)
LEMMA SubscriptionErrorKeeps ==
  ASSUME NEW c, ConnectionInv(c), c.listening # "no", ~ c.stopped
  PROVE  ConnectionInv(SubscriptionError(c)) /\ Evolves(c, SubscriptionError(c))
<1>1. /\ c \in ConnectionRecord /\ Sound(c)
      /\ c.life # "Created" /\ c.life # "Stopped"
  BY CreatedFields DEF ConnectionInv, Sound
<1>2. PICK d : d = SubscriptionError(c)
  OBVIOUS
<1>3. d \in ConnectionRecord
  BY <1>1, <1>2, HelperTypes DEF SubscriptionError, Resources
<1>4. /\ d.opts = c.opts /\ d.life = c.life /\ d.stopped = c.stopped
      /\ d.pc = c.pc /\ d.outcome = c.outcome
      /\ d.recovering = c.recovering /\ d.binding = c.binding
      /\ d.listening = c.listening /\ d.held = c.held \cup {"subRetry"}
  BY <1>1, <1>2 DEF SubscriptionError, Paused, Allocate, ConnectionRecord
<1>5. Sound(d)
  BY <1>1, <1>4 DEF Sound, PauseIsTimed, Holds, Intervals
<1>6. Evolves(c, d)
  BY <1>1, <1>4 DEF Evolves
<1> QED BY <1>2, <1>3, <1>5, <1>6 DEF ConnectionInv

(* runSubscriptionRetry *)
LEMMA SubscriptionRetryKeeps ==
  ASSUME NEW c, ConnectionInv(c), Holds(c, "subRetry"), NEW ok \in BOOLEAN
  PROVE  /\ ConnectionInv(SubscriptionRetry(c, ok))
         /\ Evolves(c, SubscriptionRetry(c, ok))
<1>1. /\ c \in ConnectionRecord /\ Sound(c)
      /\ c.life # "Created" /\ c.life # "Stopped"
  BY HoldersRun DEF ConnectionInv
<1>2. PICK d : d = SubscriptionRetry(c, ok)
  OBVIOUS
<1> DEFINE new == c.pendingMeta # None
           s == Release(c, {"subRetry"})
           t == [s EXCEPT !.listening = "yes", !.pendingMeta = None,
                          !.meta = IF new THEN c.pendingMeta ELSE @,
                          !.held = IF new
                                   THEN (@ \ {"metaTimer"}) \cup
                                        When(c.pendingMeta \in WithMetadata,
                                             {"metaTimer"})
                                   ELSE @]
           f == [Allocate(s, {"subRetry"}) EXCEPT !.listening = "partly"]
<1>3. d = IF ~ ok THEN f ELSE IF c.recovering THEN t ELSE Opened(t)
  BY <1>2 DEF SubscriptionRetry
<1>4. /\ s \in ConnectionRecord /\ s.held = c.held \ {"subRetry"}
      /\ s.opts = c.opts /\ s.life = c.life /\ s.stopped = c.stopped
      /\ s.pc = c.pc /\ s.outcome = c.outcome
      /\ s.recovering = c.recovering /\ s.binding = c.binding
      /\ s.fatal = c.fatal /\ s.ready = c.ready /\ s.overtaken = c.overtaken
  BY <1>1 DEF Release, ConnectionRecord
<1>5. c.pendingMeta \in Configs \cup {None}
  BY <1>1 DEF ConnectionRecord
<1> HIDE DEF s
<1>6. /\ t \in ConnectionRecord
      /\ \A r : r # "metaTimer" => (r \in t.held <=> r \in s.held)
      /\ t.opts = s.opts /\ t.life = s.life /\ t.stopped = s.stopped
      /\ t.pc = s.pc /\ t.outcome = s.outcome
      /\ t.recovering = s.recovering /\ t.binding = s.binding
      /\ t.fatal = s.fatal /\ t.ready = s.ready /\ t.overtaken = s.overtaken
  <2> DEFINE h == IF new THEN (s.held \ {"metaTimer"}) \cup
                               When(c.pendingMeta \in WithMetadata, {"metaTimer"})
                  ELSE s.held
             m == IF new THEN c.pendingMeta ELSE s.meta
  <2>1. /\ h \in SUBSET Resources /\ m \in Configs \cup {None}
        /\ \A r : r # "metaTimer" => (r \in h <=> r \in s.held)
    BY <1>4, <1>5 DEF ConnectionRecord, When, Resources
  <2>2. t = [s EXCEPT !.listening = "yes", !.pendingMeta = None,
                      !.meta = m, !.held = h]
    OBVIOUS
  <2> HIDE DEF h, m, t
  <2> QED BY <1>4, <2>1, <2>2 DEF ConnectionRecord
<1>7. /\ f \in ConnectionRecord /\ f.held = c.held \cup {"subRetry"}
      /\ f.opts = s.opts /\ f.life = s.life /\ f.stopped = s.stopped
      /\ f.pc = s.pc /\ f.outcome = s.outcome
      /\ f.recovering = s.recovering /\ f.binding = s.binding
      /\ f.fatal = s.fatal /\ f.ready = s.ready /\ f.overtaken = s.overtaken
  BY <1>4 DEF Allocate, ConnectionRecord, Resources, Holds
<1> HIDE DEF t, f
<1>8. /\ Opened(t) \in ConnectionRecord /\ Opened(t).ready = TRUE
      /\ Opened(t).opts = t.opts /\ Opened(t).life = t.life
      /\ Opened(t).stopped = t.stopped
      /\ Opened(t).pc = t.pc /\ Opened(t).outcome = t.outcome
      /\ Opened(t).recovering = t.recovering /\ Opened(t).binding = t.binding
      /\ Opened(t).held = t.held
  BY <1>6 DEF Opened, ConnectionRecord
<1>9. /\ d \in ConnectionRecord
      /\ d.opts = c.opts /\ d.life = c.life /\ d.stopped = c.stopped
      /\ d.pc = c.pc /\ d.outcome = c.outcome
      /\ d.recovering = c.recovering /\ d.binding = c.binding
      /\ \A r : r \notin {"metaTimer", "subRetry"} =>
                (r \in d.held <=> r \in c.held)
      /\ \/ "subRetry" \in d.held \/ c.recovering \/ d.ready = TRUE
  BY <1>3, <1>4, <1>6, <1>7, <1>8
<1>10. Sound(d)
  BY <1>1, <1>9 DEF Sound, PauseIsTimed, Holds, Intervals
<1>11. Evolves(c, d)
  BY <1>1, <1>9 DEF Evolves
<1> QED BY <1>2, <1>9, <1>10, <1>11 DEF ConnectionInv

(* processSubscriptionConfig *)
LEMMA SubscribeKeeps ==
  ASSUME NEW c, ConnectionInv(c), c.life # "Created", c.life # "Stopped",
         NEW config \in Configs, NEW ok \in BOOLEAN
  PROVE  LET d == [Subscribe(c, config, ok) EXCEPT !.hash = config] IN
         ConnectionInv(d) /\ Evolves(c, d)
<1> DEFINE s == Release(c, {"subRetry"})
           m == (s.held \ {"metaTimer"})
                  \cup When(config \in WithMetadata, {"metaTimer"})
           o == s.overtaken \/ (Holds(c, "subRetry") /\ ~ c.ready)
           a == Allocate(s, {"subRetry"})
           y == [s EXCEPT !.listening = "yes", !.meta = config,
                          !.held = m, !.overtaken = o]
           n == [Paused(a) EXCEPT !.listening = "partly",
                                  !.pendingMeta = config]
           z == Subscribe(c, config, ok)
<1>1. c \in ConnectionRecord /\ Sound(c)
  BY DEF ConnectionInv
<1>2. z = IF ok THEN y ELSE n
  BY DEF Subscribe
<1>3. /\ s \in ConnectionRecord /\ s.held = c.held \ {"subRetry"}
      /\ s.opts = c.opts /\ s.life = c.life /\ s.stopped = c.stopped
      /\ s.pc = c.pc /\ s.outcome = c.outcome
      /\ s.recovering = c.recovering /\ s.binding = c.binding
      /\ s.fatal = c.fatal /\ s.ready = c.ready /\ s.overtaken = c.overtaken
  BY <1>1 DEF Release, ConnectionRecord
<1> HIDE DEF s
<1>4. /\ m \in SUBSET Resources /\ o \in BOOLEAN
      /\ \A r : r # "metaTimer" => (r \in m <=> r \in s.held)
      /\ o <=> c.overtaken \/ (Holds(c, "subRetry") /\ ~ c.ready)
  BY <1>1, <1>3 DEF ConnectionRecord, When, Resources
<1> HIDE DEF m, o
<1>5. /\ y \in ConnectionRecord /\ y.held = m /\ y.overtaken = o
      /\ y.opts = c.opts /\ y.life = c.life /\ y.stopped = c.stopped
      /\ y.pc = c.pc /\ y.outcome = c.outcome
      /\ y.recovering = c.recovering /\ y.binding = c.binding
      /\ y.fatal = c.fatal /\ y.ready = c.ready
  BY <1>3, <1>4 DEF ConnectionRecord
<1>6. /\ a \in ConnectionRecord /\ a.held = c.held \cup {"subRetry"}
      /\ a.opts = c.opts /\ a.life = c.life /\ a.stopped = c.stopped
      /\ a.pc = c.pc /\ a.outcome = c.outcome
      /\ a.recovering = c.recovering /\ a.binding = c.binding
  BY <1>3 DEF Allocate, ConnectionRecord, Resources
<1> HIDE DEF y, a
<1>7. /\ n \in ConnectionRecord /\ n.held = a.held
      /\ n.opts = a.opts /\ n.life = a.life /\ n.stopped = a.stopped
      /\ n.pc = a.pc /\ n.outcome = a.outcome
      /\ n.recovering = a.recovering /\ n.binding = a.binding
  BY <1>6 DEF Paused, ConnectionRecord
<1> HIDE DEF n, z
<1>8. PICK d : d = [z EXCEPT !.hash = config]
  OBVIOUS
<1>9. /\ d \in ConnectionRecord /\ d.held = z.held
      /\ d.opts = z.opts /\ d.life = z.life /\ d.stopped = z.stopped
      /\ d.pc = z.pc /\ d.outcome = z.outcome
      /\ d.recovering = z.recovering /\ d.binding = z.binding
      /\ d.fatal = z.fatal /\ d.ready = z.ready /\ d.overtaken = z.overtaken
  BY <1>2, <1>5, <1>7, <1>8 DEF ConnectionRecord
<1>10. /\ d.opts = c.opts /\ d.life = c.life /\ d.stopped = c.stopped
       /\ d.pc = c.pc /\ d.outcome = c.outcome
       /\ d.recovering = c.recovering /\ d.binding = c.binding
       /\ \A r : r \notin {"metaTimer", "subRetry"} =>
                 (r \in d.held <=> r \in c.held)
  BY <1>2, <1>3, <1>4, <1>5, <1>6, <1>7, <1>9
<1>11. d.overtaken \/ PauseIsTimed(d)
  <2>1. CASE ok
    <3>1. /\ d.ready = c.ready /\ d.fatal = c.fatal /\ d.held = m
          /\ d.overtaken = o
      BY <1>2, <1>5, <1>9, <2>1
    <3> QED BY <1>1, <1>4, <1>10, <3>1 DEF Sound, PauseIsTimed, Holds
  <2>2. CASE ~ ok
    <3>1. "subRetry" \in d.held
      BY <1>2, <1>6, <1>7, <1>9, <2>2
    <3> QED BY <3>1 DEF PauseIsTimed
  <2> QED BY <2>1, <2>2
<1>12. Sound(d)
  BY <1>1, <1>10, <1>11 DEF Sound, Holds, Intervals
<1>13. Evolves(c, d)
  BY <1>10 DEF Evolves
<1>14. ConnectionInv(d) /\ Evolves(c, d)
  BY <1>9, <1>12, <1>13 DEF ConnectionInv
<1> QED BY <1>8, <1>14 DEF z

(* Two stretches of one step. *)
LEMMA EvolvesOn ==
  ASSUME NEW c, ConnectionInv(c), NEW d, ConnectionInv(d), NEW e,
         Evolves(c, d), Evolves(d, e)
  PROVE  Evolves(c, e)
BY DEF Evolves, ConnectionInv, Sound

(* The end of a load, the last await of start() among them. *)
LEMMA LoadEndsKeeps ==
  ASSUME NEW c, ConnectionInv(c), c.loading = TRUE,
         NEW content \in Configs \cup {None}, NEW ok \in BOOLEAN
  PROVE  /\ ConnectionInv(LoadEnds(c, content, ok))
         /\ Evolves(c, LoadEnds(c, content, ok))
<1> DEFINE s == IF ShuttingDown(c) \/ content \in {None, c.hash} THEN c
                ELSE [Subscribe(c, content, ok) EXCEPT !.hash = content]
           again == c.rerun /\ ~ c.stopped
           t == [s EXCEPT !.rerun = FALSE, !.loading = again]
<1>1. c \in ConnectionRecord /\ Sound(c) /\ c.life # "Created"
  BY CreatedFields DEF ConnectionInv
<1>2. LoadEnds(c, content, ok) = IF c.pc = "flush" /\ ~ again
                                 THEN StartEnds(t) ELSE t
  BY DEF LoadEnds
<1>3. ConnectionInv(s) /\ Evolves(c, s) /\ s.pc = c.pc
  <2>1. CASE ShuttingDown(c) \/ content \in {None, c.hash}
    BY <1>1, <2>1 DEF Evolves
  <2>2. CASE ~ (ShuttingDown(c) \/ content \in {None, c.hash})
    <3>1. content \in Configs /\ c.life # "Stopped"
      BY <2>2 DEF ShuttingDown
    <3>2. PICK u : u = [Subscribe(c, content, ok) EXCEPT !.hash = content]
      OBVIOUS
    <3>3. ConnectionInv(u) /\ Evolves(c, u)
      BY <1>1, <3>1, <3>2, SubscribeKeeps
    <3>4. u.pc = c.pc
      BY <1>1, <3>2
         DEF Subscribe, Paused, Allocate, Release, ConnectionRecord
    <3> QED BY <2>2, <3>2, <3>3, <3>4
  <2> QED BY <2>1, <2>2
<1> HIDE DEF s
<1>4. s \in ConnectionRecord /\ s.life # "Created" /\ again \in BOOLEAN
  BY <1>1, <1>3 DEF ConnectionInv, ConnectionRecord, Evolves
<1> HIDE DEF again
<1>5. /\ t \in ConnectionRecord
      /\ t.opts = s.opts /\ t.life = s.life /\ t.stopped = s.stopped
      /\ t.pc = s.pc /\ t.outcome = s.outcome
      /\ t.recovering = s.recovering /\ t.binding = s.binding
      /\ t.fatal = s.fatal /\ t.listening = s.listening
      /\ t.ready = s.ready /\ t.overtaken = s.overtaken /\ t.held = s.held
  <2>1. t \in ConnectionRecord
    BY <1>4 DEF ConnectionRecord
  <2>2. /\ t.opts = s.opts /\ t.life = s.life /\ t.stopped = s.stopped
        /\ t.pc = s.pc /\ t.outcome = s.outcome
        /\ t.recovering = s.recovering
    BY <1>4 DEF ConnectionRecord
  <2>3. /\ t.binding = s.binding /\ t.fatal = s.fatal
        /\ t.listening = s.listening /\ t.ready = s.ready
        /\ t.overtaken = s.overtaken /\ t.held = s.held
    BY <1>4 DEF ConnectionRecord
  <2> QED BY <2>1, <2>2, <2>3
<1> HIDE DEF t
<1>6. ConnectionInv(t) /\ Evolves(s, t)
  BY <1>3, <1>4, <1>5, QuietKeeps
<1>7. Evolves(c, t)
  BY <1>3, <1>6, EvolvesOn
<1>8. ASSUME c.pc = "flush"
      PROVE  ConnectionInv(StartEnds(t)) /\ Evolves(c, StartEnds(t))
  <2>1. t.pc = "flush"
    BY <1>3, <1>5, <1>8
  <2>2. ConnectionInv(StartEnds(t)) /\ Evolves(t, StartEnds(t))
    BY <1>6, <2>1, StartEndsKeeps
  <2> QED BY <1>6, <1>7, <2>2, EvolvesOn
<1> QED BY <1>2, <1>6, <1>7, <1>8

-----------------------------------------------------------------------------
(* The sockets. *)

(* handleClientSocketError *)
LEMMA ClientSocketErrorKeeps ==
  ASSUME NEW c, ConnectionInv(c), Holds(c, "socket"), ~ c.opts.server
  PROVE  ConnectionInv(ClientSocketError(c)) /\ Evolves(c, ClientSocketError(c))
<1>1. /\ c \in ConnectionRecord /\ Sound(c)
      /\ c.life # "Created" /\ c.life # "Stopped"
  BY HoldersRun DEF ConnectionInv
<1> DEFINE s == Release(c, {"publishing", "congestion", "heartbeat", "socket"})
           t == Transition(Paused(s), "Recovering")
<1>2. /\ s \in ConnectionRecord
      /\ s.held = c.held \ {"publishing", "congestion", "heartbeat", "socket"}
      /\ s.opts = c.opts /\ s.life = c.life /\ s.stopped = c.stopped
      /\ s.pc = c.pc /\ s.outcome = c.outcome /\ s.binding = c.binding
  BY <1>1 DEF Release, ConnectionRecord
<1> HIDE DEF s
<1>3. /\ t \in ConnectionRecord /\ t.held = s.held
      /\ t.opts = c.opts /\ t.life \notin {"Created", "Stopped"}
      /\ t.stopped = c.stopped
      /\ t.pc = c.pc /\ t.outcome = c.outcome /\ t.binding = c.binding
  <2> DEFINE q == Paused(s)
  <2>1. /\ q \in ConnectionRecord /\ q.held = s.held /\ q.opts = c.opts
        /\ q.life = c.life /\ q.stopped = c.stopped /\ q.pc = c.pc
        /\ q.outcome = c.outcome /\ q.binding = c.binding
    BY <1>2 DEF Paused, ConnectionRecord
  <2> HIDE DEF q
  <2>2. t \in ConnectionRecord
    BY <2>1, HelperTypes DEF q, LifecycleStates
  <2>3. /\ t.held = q.held /\ t.opts = q.opts /\ t.stopped = q.stopped
        /\ t.pc = q.pc /\ t.outcome = q.outcome /\ t.binding = q.binding
        /\ t.life \in {q.life, "Recovering"}
    <3>1. t = Transition(q, "Recovering")
      BY DEF q
    <3> HIDE DEF t
    <3> QED BY <2>1, <3>1 DEF Transition, ConnectionRecord
  <2> HIDE DEF t
  <2> QED BY <1>1, <2>1, <2>2, <2>3
<1> HIDE DEF t
<1>4. PICK d : d = ClientSocketError(c)
  OBVIOUS
<1>5. d = [t EXCEPT !.recovering = TRUE, !.held = @ \cup {"recovery"}]
  BY <1>4 DEF ClientSocketError, t, s
<1>6. /\ d \in ConnectionRecord /\ d.held = t.held \cup {"recovery"}
      /\ d.opts = c.opts /\ d.life \notin {"Created", "Stopped"}
      /\ d.stopped = c.stopped /\ d.recovering = TRUE
      /\ d.pc = c.pc /\ d.outcome = c.outcome /\ d.binding = c.binding
  BY <1>3, <1>5 DEF ConnectionRecord, Resources
<1>7. Sound(d)
  BY <1>1, <1>2, <1>3, <1>6 DEF Sound, PauseIsTimed, Holds, Intervals
<1>8. Evolves(c, d)
  BY <1>1, <1>6 DEF Evolves
<1> QED BY <1>4, <1>6, <1>7, <1>8 DEF ConnectionInv

(* recoverClientSocket *)
LEMMA RecoverClientSocketKeeps ==
  ASSUME NEW c, ConnectionInv(c), Holds(c, "recovery"), ~ c.opts.server,
         NEW ok \in BOOLEAN
  PROVE  /\ ConnectionInv(RecoverClientSocket(c, ok))
         /\ Evolves(c, RecoverClientSocket(c, ok))
<1>1. /\ c \in ConnectionRecord /\ Sound(c)
      /\ c.life # "Created" /\ c.life # "Stopped"
  BY HoldersRun DEF ConnectionInv
<1> DEFINE s == Release(c, {"recovery"})
           r == c.opts.reliable
           more == {"socket"} \cup When(r, {"publishing", "heartbeat"})
                     \cup When(r /\ c.opts.congestion, {"congestion"})
           a == Allocate(s, more)
           t == Transition(Opened(a), "Ready")
           f == Allocate(s, {"recovery"})
<1>2. /\ s \in ConnectionRecord /\ s.held = c.held \ {"recovery"}
      /\ s.opts = c.opts /\ s.life = c.life /\ s.stopped = c.stopped
      /\ s.pc = c.pc /\ s.outcome = c.outcome /\ s.binding = c.binding
      /\ s.recovering = c.recovering /\ s.ready = c.ready
  BY <1>1 DEF Release, ConnectionRecord
<1> HIDE DEF s
<1>3. more \in SUBSET Resources /\ "socket" \in more /\ "ackTimer" \notin more
  BY DEF When, Resources
<1> HIDE DEF more
<1>4. /\ a \in ConnectionRecord /\ a.held = s.held \cup more
      /\ a.opts = c.opts /\ a.life = c.life /\ a.stopped = c.stopped
      /\ a.pc = c.pc /\ a.outcome = c.outcome /\ a.binding = c.binding
  BY <1>2, <1>3 DEF Allocate, ConnectionRecord
<1>5. /\ f \in ConnectionRecord /\ f.held = s.held \cup {"recovery"}
      /\ f.opts = c.opts /\ f.life = c.life /\ f.stopped = c.stopped
      /\ f.pc = c.pc /\ f.outcome = c.outcome /\ f.binding = c.binding
      /\ f.recovering = c.recovering
  BY <1>2 DEF Allocate, ConnectionRecord, Resources
<1> HIDE DEF a, f
<1>6. /\ t \in ConnectionRecord /\ t.held = a.held /\ t.ready = TRUE
      /\ t.opts = c.opts /\ t.life \notin {"Created", "Stopped"}
      /\ t.life \in LifecycleStates /\ t.stopped = c.stopped
      /\ t.pc = c.pc /\ t.outcome = c.outcome /\ t.binding = c.binding
  <2> DEFINE q == Opened(a)
  <2>1. /\ q \in ConnectionRecord /\ q.held = a.held /\ q.ready = TRUE
        /\ q.opts = c.opts /\ q.life = c.life /\ q.stopped = c.stopped
        /\ q.pc = c.pc /\ q.outcome = c.outcome /\ q.binding = c.binding
    BY <1>4 DEF Opened, ConnectionRecord
  <2> HIDE DEF q
  <2>2. t \in ConnectionRecord
    BY <2>1, HelperTypes DEF q, LifecycleStates
  <2>3. /\ t.held = q.held /\ t.ready = q.ready /\ t.opts = q.opts
        /\ t.stopped = q.stopped /\ t.pc = q.pc /\ t.outcome = q.outcome
        /\ t.binding = q.binding /\ t.life \in {q.life, "Ready"}
    <3>1. t = Transition(q, "Ready")
      BY DEF q
    <3> HIDE DEF t
    <3> QED BY <2>1, <3>1 DEF Transition, ConnectionRecord
  <2> HIDE DEF t
  <2>4. t.life \in LifecycleStates
    BY <2>2 DEF ConnectionRecord
  <2> QED BY <1>1, <2>1, <2>2, <2>3, <2>4
<1> HIDE DEF t
<1>7. PICK d : d = RecoverClientSocket(c, ok)
  OBVIOUS
<1>8. d = IF ~ ok THEN f ELSE [t EXCEPT !.recovering = FALSE]
  BY <1>7 DEF RecoverClientSocket, t, f, a, s, more
<1>9. CASE ok
  <2>1. /\ d \in ConnectionRecord /\ d.held = t.held /\ d.ready = TRUE
        /\ d.opts = c.opts /\ d.life \notin {"Created", "Stopped"}
        /\ d.stopped = c.stopped /\ d.recovering = FALSE
        /\ d.pc = c.pc /\ d.outcome = c.outcome /\ d.binding = c.binding
    BY <1>6, <1>8, <1>9 DEF ConnectionRecord
  <2>2. Sound(d)
    BY <1>1, <1>2, <1>3, <1>4, <1>6, <2>1
       DEF Sound, PauseIsTimed, Holds, Intervals
  <2>3. Evolves(c, d)
    BY <1>1, <2>1 DEF Evolves
  <2> QED BY <1>7, <2>1, <2>2, <2>3 DEF ConnectionInv
<1>10. CASE ~ ok
  <2>1. d = f /\ d.held = c.held
    BY <1>2, <1>5, <1>8, <1>10 DEF Holds
  <2>2. Sound(d)
    BY <1>1, <1>5, <2>1 DEF Sound, PauseIsTimed, Holds, Intervals
  <2>3. Evolves(c, d)
    BY <1>1, <1>5, <2>1 DEF Evolves
  <2> QED BY <1>5, <1>7, <2>1, <2>2, <2>3 DEF ConnectionInv
<1> QED BY <1>9, <1>10

(* The persistent error handler of a server's socket. *)
LEMMA ServerSocketErrorKeeps ==
  ASSUME NEW c, ConnectionInv(c), Holds(c, "socket"), c.opts.server,
         ~ c.recovering, ~ c.binding, NEW fatal \in BOOLEAN
  PROVE  /\ ConnectionInv(ServerSocketError(c, fatal))
         /\ Evolves(c, ServerSocketError(c, fatal))
<1>1. /\ c \in ConnectionRecord /\ Sound(c)
      /\ c.life # "Created" /\ c.life # "Stopped"
  BY HoldersRun DEF ConnectionInv
<1> DEFINE s == Paused(Release(c, {"ackTimer", "publishing", "socket"}))
<1>2. /\ s \in ConnectionRecord
      /\ s.held = c.held \ {"ackTimer", "publishing", "socket"}
      /\ s.opts = c.opts /\ s.life = c.life /\ s.stopped = c.stopped
      /\ s.pc = c.pc /\ s.outcome = c.outcome /\ s.binding = c.binding
      /\ s.recovering = c.recovering
  BY <1>1 DEF Paused, Release, ConnectionRecord
<1> HIDE DEF s
<1>3. PICK d : d = ServerSocketError(c, fatal)
  OBVIOUS
<1>4. d = IF fatal THEN [s EXCEPT !.fatal = TRUE]
          ELSE [Allocate(s, {"recovery"}) EXCEPT !.recovering = TRUE]
  BY <1>3 DEF ServerSocketError, s
<1>5. /\ d \in ConnectionRecord
      /\ d.opts = c.opts /\ d.life = c.life /\ d.stopped = c.stopped
      /\ d.pc = c.pc /\ d.outcome = c.outcome /\ d.binding = c.binding
      /\ fatal => /\ d.fatal = TRUE /\ d.held = s.held
                  /\ d.recovering = c.recovering
      /\ ~ fatal => /\ d.held = s.held \cup {"recovery"}
                    /\ d.recovering = TRUE
  <2>1. CASE fatal
    <3>1. d = [s EXCEPT !.fatal = TRUE]
      BY <1>4, <2>1
    <3> QED BY <1>2, <2>1, <3>1 DEF ConnectionRecord
  <2>2. CASE ~ fatal
    <3>1. PICK a : a = Allocate(s, {"recovery"})
      OBVIOUS
    <3>2. /\ a \in ConnectionRecord /\ a.held = s.held \cup {"recovery"}
          /\ a.opts = c.opts /\ a.life = c.life /\ a.stopped = c.stopped
          /\ a.pc = c.pc /\ a.outcome = c.outcome /\ a.binding = c.binding
      BY <1>2, <3>1 DEF Allocate, ConnectionRecord, Resources
    <3>3. d = [a EXCEPT !.recovering = TRUE]
      BY <1>4, <2>2, <3>1
    <3> QED BY <2>2, <3>2, <3>3 DEF ConnectionRecord
  <2> QED BY <2>1, <2>2
<1>6. Sound(d)
  BY <1>1, <1>2, <1>5 DEF Sound, PauseIsTimed, Holds, Intervals
<1>7. Evolves(c, d)
  BY <1>1, <1>5 DEF Evolves
<1> QED BY <1>3, <1>5, <1>6, <1>7 DEF ConnectionInv

(* scheduleServerRecovery *)
LEMMA RecoverServerSocketKeeps ==
  ASSUME NEW c, ConnectionInv(c), Holds(c, "recovery"), c.opts.server
  PROVE  /\ ConnectionInv(RecoverServerSocket(c))
         /\ Evolves(c, RecoverServerSocket(c))
<1>1. /\ c \in ConnectionRecord /\ Sound(c)
      /\ c.life # "Created" /\ c.life # "Stopped"
  BY HoldersRun DEF ConnectionInv
<1>2. PICK d : d = RecoverServerSocket(c)
  OBVIOUS
<1>3. PICK s : s = Allocate(Release(c, {"recovery"}), {"socket"})
  OBVIOUS
<1>4. /\ s \in ConnectionRecord
      /\ s.held = (c.held \ {"recovery"}) \cup {"socket"}
      /\ s.opts = c.opts /\ s.life = c.life /\ s.stopped = c.stopped
      /\ s.pc = c.pc /\ s.outcome = c.outcome
      /\ s.recovering = c.recovering
  BY <1>1, <1>3 DEF Allocate, Release, ConnectionRecord, Resources
<1>5. /\ d \in ConnectionRecord /\ d.held = s.held /\ d.binding = TRUE
      /\ d.opts = c.opts /\ d.life = c.life /\ d.stopped = c.stopped
      /\ d.pc = c.pc /\ d.outcome = c.outcome
      /\ d.recovering = c.recovering
  BY <1>2, <1>3, <1>4 DEF RecoverServerSocket, ConnectionRecord
<1>6. Sound(d)
  BY <1>1, <1>4, <1>5 DEF Sound, PauseIsTimed, Holds, Intervals
<1>7. Evolves(c, d)
  BY <1>1, <1>5 DEF Evolves
<1> QED BY <1>2, <1>5, <1>6, <1>7 DEF ConnectionInv

(* What the listeners of "listening" do. *)
LEMMA ListeningFields ==
  ASSUME NEW c \in ConnectionRecord
  PROVE  LET d == Listening(c) IN
         /\ d \in ConnectionRecord /\ d.binding = FALSE /\ d.ready = TRUE
         /\ d.held = c.held \cup When(c.opts.reliable,
                                      {"ackTimer", "publishing"})
         /\ d.opts = c.opts /\ d.life = c.life /\ d.stopped = c.stopped
         /\ d.pc = c.pc /\ d.outcome = c.outcome
         /\ d.recovering = c.recovering /\ d.listening = c.listening
<1> DEFINE more == When(c.opts.reliable, {"ackTimer", "publishing"})
           a == Allocate(c, more)
           u == [a EXCEPT !.binding = FALSE]
<1>1. more \in SUBSET Resources
  BY DEF When, Resources
<1> HIDE DEF more
<1>2. /\ a \in ConnectionRecord /\ a.held = c.held \cup more
      /\ a.opts = c.opts /\ a.life = c.life /\ a.stopped = c.stopped
      /\ a.pc = c.pc /\ a.outcome = c.outcome
      /\ a.recovering = c.recovering /\ a.listening = c.listening
  BY <1>1 DEF Allocate, ConnectionRecord
<1> HIDE DEF a
<1>3. /\ u \in ConnectionRecord /\ u.held = a.held /\ u.binding = FALSE
      /\ u.opts = c.opts /\ u.life = c.life /\ u.stopped = c.stopped
      /\ u.pc = c.pc /\ u.outcome = c.outcome
      /\ u.recovering = c.recovering /\ u.listening = c.listening
  BY <1>2 DEF ConnectionRecord
<1>4. Listening(c) = Opened(u)
  BY DEF Listening, u, a, more
<1> HIDE DEF u
<1>5. PICK d : d = Opened(u)
  OBVIOUS
<1>6. /\ d \in ConnectionRecord /\ d.held = u.held /\ d.binding = FALSE
      /\ d.ready = TRUE
      /\ d.opts = c.opts /\ d.life = c.life /\ d.stopped = c.stopped
      /\ d.pc = c.pc /\ d.outcome = c.outcome
      /\ d.recovering = c.recovering /\ d.listening = c.listening
  BY <1>3, <1>5 DEF Opened, ConnectionRecord
<1> QED BY <1>2, <1>3, <1>4, <1>5, <1>6 DEF more

(* "listening" of the attempt, or its onBindError *)
LEMMA RebindKeeps ==
  ASSUME NEW c, ConnectionInv(c), c.recovering, c.binding
  PROVE  /\ ConnectionInv(Rebound(c)) /\ Evolves(c, Rebound(c))
         /\ \A fatal \in BOOLEAN : /\ ConnectionInv(RebindFails(c, fatal))
                                  /\ Evolves(c, RebindFails(c, fatal))
<1>1. /\ c \in ConnectionRecord /\ Sound(c) /\ c.opts.server
      /\ c.life # "Created" /\ c.life # "Stopped" /\ c.pc # "bind"
  BY CreatedFields DEF ConnectionInv, Sound
<1>2. ConnectionInv(Rebound(c)) /\ Evolves(c, Rebound(c))
  <2>1. PICK l : l = Listening(c)
    OBVIOUS
  <2>2. PICK d : d = Rebound(c)
    OBVIOUS
  <2>3. /\ l \in ConnectionRecord /\ l.binding = FALSE /\ l.ready = TRUE
        /\ l.held = c.held \cup When(c.opts.reliable,
                                     {"ackTimer", "publishing"})
        /\ l.opts = c.opts /\ l.life = c.life /\ l.stopped = c.stopped
        /\ l.pc = c.pc /\ l.outcome = c.outcome
    BY <1>1, <2>1, ListeningFields
  <2>4. d = [l EXCEPT !.recovering = FALSE]
    BY <2>1, <2>2 DEF Rebound
  <2>5. /\ d \in ConnectionRecord /\ d.binding = FALSE /\ d.ready = TRUE
        /\ d.held = l.held /\ d.recovering = FALSE
        /\ d.opts = c.opts /\ d.life = c.life /\ d.stopped = c.stopped
        /\ d.pc = c.pc /\ d.outcome = c.outcome
    BY <2>3, <2>4 DEF ConnectionRecord
  <2>6. Sound(d)
    BY <1>1, <2>3, <2>5 DEF Sound, PauseIsTimed, Holds, Intervals, When
  <2>7. Evolves(c, d)
    BY <1>1, <2>5 DEF Evolves
  <2> QED BY <2>2, <2>5, <2>6, <2>7 DEF ConnectionInv
<1>3. ASSUME NEW fatal \in BOOLEAN
      PROVE  ConnectionInv(RebindFails(c, fatal)) /\ Evolves(c, RebindFails(c, fatal))
  <2>1. PICK s : s = [Paused(Release(c, {"socket"})) EXCEPT !.binding = FALSE]
    OBVIOUS
  <2>2. PICK d : d = RebindFails(c, fatal)
    OBVIOUS
  <2>3. /\ s \in ConnectionRecord /\ s.binding = FALSE
        /\ s.held = c.held \ {"socket"} /\ s.recovering = c.recovering
        /\ s.opts = c.opts /\ s.life = c.life /\ s.stopped = c.stopped
        /\ s.pc = c.pc /\ s.outcome = c.outcome
    BY <1>1, <2>1 DEF Paused, Release, ConnectionRecord
  <2>4. d = IF fatal THEN [s EXCEPT !.recovering = FALSE, !.fatal = TRUE]
            ELSE Allocate(s, {"recovery"})
    BY <2>1, <2>2 DEF RebindFails
  <2>5. /\ d \in ConnectionRecord /\ d.binding = FALSE
        /\ d.opts = c.opts /\ d.life = c.life /\ d.stopped = c.stopped
        /\ d.pc = c.pc /\ d.outcome = c.outcome
        /\ fatal => /\ d.fatal = TRUE /\ d.recovering = FALSE
                    /\ d.held = s.held
        /\ ~ fatal => /\ d.recovering = c.recovering
                      /\ d.held = s.held \cup {"recovery"}
    <3>1. CASE fatal
      <4>1. d = [s EXCEPT !.recovering = FALSE, !.fatal = TRUE]
        BY <2>4, <3>1
      <4> QED BY <2>3, <3>1, <4>1 DEF ConnectionRecord
    <3>2. CASE ~ fatal
      <4>1. d = Allocate(s, {"recovery"})
        BY <2>4, <3>2
      <4> QED BY <2>3, <3>2, <4>1 DEF Allocate, ConnectionRecord, Resources
    <3> QED BY <3>1, <3>2
  <2>6. Sound(d)
    BY <1>1, <2>3, <2>5 DEF Sound, PauseIsTimed, Holds, Intervals
  <2>7. Evolves(c, d)
    BY <1>1, <2>5 DEF Evolves
  <2> QED BY <2>2, <2>5, <2>6, <2>7 DEF ConnectionInv
<1> QED BY <1>2, <1>3

-----------------------------------------------------------------------------
(* The awaits of start(). *)

(* The next await of the start of a client. *)
LEMMA WaitsKeeps ==
  ASSUME NEW c, ConnectionInv(c), c.pc \notin {"none", "bind"},
         c.life # "Stopped", NEW pc \in Awaits \ {"none", "bind"}
  PROVE  ConnectionInv(Waits(c, pc)) /\ Evolves(c, Waits(c, pc))
<1>1. c \in ConnectionRecord /\ Sound(c) /\ c.life # "Created"
  BY CreatedFields DEF ConnectionInv
<1>2. PICK d : d = Waits(c, pc)
  OBVIOUS
<1>3. /\ d \in ConnectionRecord /\ d.pc = pc
      /\ d.opts = c.opts /\ d.life = c.life /\ d.stopped = c.stopped
      /\ d.outcome = c.outcome /\ d.held = c.held
      /\ d.recovering = c.recovering /\ d.binding = c.binding
      /\ d.fatal = c.fatal /\ d.ready = c.ready /\ d.overtaken = c.overtaken
  BY <1>1, <1>2 DEF Waits, ConnectionRecord
<1>4. Sound(d)
  BY <1>1, <1>3 DEF Sound, PauseIsTimed, Holds, Intervals
<1>5. Evolves(c, d)
  BY <1>1, <1>3 DEF Evolves
<1> QED BY <1>2, <1>3, <1>4, <1>5 DEF ConnectionInv

(* setupConfigWatchers *)
LEMMA InstallWatchersKeeps ==
  ASSUME NEW c, ConnectionInv(c), c.pc \notin {"none", "bind"},
         c.life # "Stopped"
  PROVE  ConnectionInv(InstallWatchers(c)) /\ Evolves(c, InstallWatchers(c))
<1>1. c \in ConnectionRecord /\ Sound(c) /\ c.life # "Created"
  BY CreatedFields DEF ConnectionInv
<1> DEFINE a == Allocate(Opened(c), {"watchers"})
           u == [a EXCEPT !.loading = TRUE]
<1>2. /\ a \in ConnectionRecord /\ a.held = c.held \cup {"watchers"}
      /\ a.ready = TRUE
      /\ a.opts = c.opts /\ a.life = c.life /\ a.stopped = c.stopped
      /\ a.outcome = c.outcome
      /\ a.recovering = c.recovering /\ a.binding = c.binding
  BY <1>1 DEF Allocate, Opened, ConnectionRecord, Resources
<1> HIDE DEF a
<1>3. PICK d : d = InstallWatchers(c)
  OBVIOUS
<1>4. d = Waits(u, "flush")
  BY <1>3 DEF InstallWatchers, a
<1>5. /\ d \in ConnectionRecord /\ d.pc = "flush" /\ d.held = a.held
      /\ d.ready = TRUE
      /\ d.opts = c.opts /\ d.life = c.life /\ d.stopped = c.stopped
      /\ d.outcome = c.outcome
      /\ d.recovering = c.recovering /\ d.binding = c.binding
  BY <1>2, <1>4 DEF Waits, ConnectionRecord, Awaits
<1>6. Sound(d)
  BY <1>1, <1>2, <1>5 DEF Sound, PauseIsTimed, Holds, Intervals
<1>7. Evolves(c, d)
  BY <1>1, <1>5 DEF Evolves
<1> QED BY <1>3, <1>5, <1>6, <1>7 DEF ConnectionInv

(* startClient allocates, then waits for its bonding or its HELLO, or      *)
(* installs its watchers.                                                  *)
LEMMA AllocateClientKeeps ==
  ASSUME NEW c, ConnectionInv(c), c.pc \notin {"none", "bind"},
         c.life # "Stopped"
  PROVE  ConnectionInv(AllocateClient(c)) /\ Evolves(c, AllocateClient(c))
<1>1. /\ c \in ConnectionRecord /\ Sound(c) /\ c.life # "Created"
      /\ ~ c.opts.server
  BY CreatedFields DEF ConnectionInv, Sound
<1> DEFINE r == c.opts.reliable
           more == {"keepalive", "socket", "deltaTimer"}
                     \cup When(~ r, {"ping"})
                     \cup When(r, {"publishing", "heartbeat"})
                     \cup When(r /\ c.opts.congestion, {"congestion"})
                     \cup When(r /\ c.opts.bonding, {"bonding"})
           s == Allocate(c, more)
<1>2. /\ more \in SUBSET Resources /\ "socket" \in more
      /\ more \cap {"ackTimer", "recovery", "subRetry"} = {}
  BY DEF When, Resources
<1> HIDE DEF more
<1>3. /\ s \in ConnectionRecord /\ s.held = c.held \cup more
      /\ s.opts = c.opts /\ s.life = c.life /\ s.stopped = c.stopped
      /\ s.pc = c.pc /\ s.outcome = c.outcome
      /\ s.recovering = c.recovering /\ s.binding = c.binding
      /\ s.fatal = c.fatal /\ s.ready = c.ready /\ s.overtaken = c.overtaken
  BY <1>1, <1>2 DEF Allocate, ConnectionRecord
<1> HIDE DEF s
<1>4. Sound(s)
  BY <1>1, <1>2, <1>3 DEF Sound, PauseIsTimed, Holds, Intervals
<1>5. ConnectionInv(s) /\ Evolves(c, s)
  BY <1>1, <1>3, <1>4 DEF ConnectionInv, Evolves
<1>6. AllocateClient(c) \in {InstallWatchers(s), Waits(s, "bonding"),
                             Waits(s, "hello")}
  BY DEF AllocateClient, s, more
<1>7. \A d \in {InstallWatchers(s), Waits(s, "bonding"), Waits(s, "hello")} :
        ConnectionInv(d) /\ Evolves(s, d)
  BY <1>3, <1>5, WaitsKeeps, InstallWatchersKeeps DEF Awaits
<1> QED BY <1>5, <1>6, <1>7, EvolvesOn

(* An await that ends. *)
LEMMA AwaitEndsKeeps ==
  ASSUME NEW c, ConnectionInv(c), c.pc \notin {"none", "flush"},
         ~ (c.stopped /\ c.pc \in HangsAfterStop)
  PROVE  ConnectionInv(AwaitEnds(c)) /\ Evolves(c, AwaitEnds(c))
<1>1. c \in ConnectionRecord /\ Sound(c) /\ c.life # "Created"
  BY CreatedFields DEF ConnectionInv
<1> DEFINE s == IF c.pc = "hello" THEN Allocate(c, {"sourceTimer"}) ELSE c
<1>2. /\ s \in ConnectionRecord
      /\ s.held = IF c.pc = "hello" THEN c.held \cup {"sourceTimer"} ELSE c.held
      /\ s.opts = c.opts /\ s.life = c.life /\ s.stopped = c.stopped
      /\ s.pc = c.pc /\ s.outcome = c.outcome
      /\ s.recovering = c.recovering /\ s.binding = c.binding
      /\ s.fatal = c.fatal /\ s.ready = c.ready /\ s.overtaken = c.overtaken
      /\ s.listening = c.listening
  BY <1>1 DEF Allocate, ConnectionRecord, Resources
<1>3. AwaitEnds(c) = IF ShuttingDown(c) THEN Settles(s, "resolved")
        ELSE CASE c.pc = "storage"   -> Waits(s, "timerFile")
               [] c.pc = "timerFile" -> Waits(s, "epoch")
               [] c.pc = "epoch"     -> AllocateClient(s)
               [] c.pc = "bonding"   -> Waits(s, "hello")
               [] c.pc = "hello"     -> InstallWatchers(s)
               [] c.pc = "bind"      -> StartEnds(Listening(s))
  BY DEF AwaitEnds
<1> HIDE DEF s
<1>4. Sound(s)
  BY <1>1, <1>2 DEF Sound, PauseIsTimed, Holds, Intervals
<1>5. ConnectionInv(s) /\ Evolves(c, s)
  <2>1. c.pc # "none" /\ (c.life = "Stopped" => s.life = "Stopped")
    BY <1>2
  <2> QED BY <1>1, <1>2, <1>4, <2>1 DEF ConnectionInv, Evolves
<1>6. CASE c.life = "Stopped"
  <2>1. PICK d : d = Settles(s, "resolved")
    OBVIOUS
  <2>2. /\ d \in ConnectionRecord /\ d.pc = "none" /\ d.outcome = "resolved"
        /\ d.opts = c.opts /\ d.life = c.life /\ d.stopped = c.stopped
        /\ d.held = s.held
        /\ d.recovering = c.recovering /\ d.binding = c.binding
        /\ d.listening = c.listening
    BY <1>2, <2>1 DEF Settles, ConnectionRecord, Awaits
  <2>3. Sound(d)
    BY <1>1, <1>2, <1>6, <2>2 DEF Sound, PauseIsTimed, Holds, Intervals
  <2>4. Evolves(c, d)
    BY <1>1, <1>6, <2>2 DEF Evolves, Sound
  <2>5. AwaitEnds(c) = d
    BY <1>3, <1>6, <2>1 DEF ShuttingDown
  <2> QED BY <2>2, <2>3, <2>4, <2>5 DEF ConnectionInv
<1>7. CASE c.life # "Stopped" /\ c.pc # "bind"
  <2>1. AwaitEnds(c) \in {Waits(s, "timerFile"), Waits(s, "epoch"),
                          AllocateClient(s), Waits(s, "hello"),
                          InstallWatchers(s)}
    <3>1. c.pc \in {"storage", "timerFile", "epoch", "bonding", "hello"}
      BY <1>1, <1>7 DEF ConnectionRecord, Awaits
    <3> QED BY <1>3, <1>7, <3>1 DEF ShuttingDown
  <2>2. \A pc \in {"timerFile", "epoch", "hello"} :
          ConnectionInv(Waits(s, pc)) /\ Evolves(s, Waits(s, pc))
    BY <1>2, <1>5, <1>7, WaitsKeeps DEF Awaits
  <2>3. /\ ConnectionInv(AllocateClient(s)) /\ Evolves(s, AllocateClient(s))
        /\ ConnectionInv(InstallWatchers(s)) /\ Evolves(s, InstallWatchers(s))
    BY <1>2, <1>5, <1>7, AllocateClientKeeps, InstallWatchersKeeps
  <2>4. ConnectionInv(AwaitEnds(c)) /\ Evolves(s, AwaitEnds(c))
    BY <2>1, <2>2, <2>3
  <2> QED BY <1>5, <2>4, EvolvesOn
<1>8. CASE c.life # "Stopped" /\ c.pc = "bind"
  <2>1. PICK l : l = Listening(s)
    OBVIOUS
  <2>2. PICK d : d = StartEnds(l)
    OBVIOUS
  <2>3. /\ l \in ConnectionRecord /\ l.binding = FALSE
        /\ l.held = s.held \cup When(s.opts.reliable,
                                     {"ackTimer", "publishing"})
        /\ l.opts = s.opts /\ l.life = s.life /\ l.stopped = s.stopped
        /\ l.recovering = s.recovering
    BY <1>2, <2>1, ListeningFields
  <2>4. d \in ConnectionRecord
    BY <2>2, <2>3, HelperTypes DEF StartEnds, LifecycleStates
  <2>5. /\ d.pc = "none" /\ d.outcome = "resolved" /\ d.opts = l.opts
        /\ d.stopped = l.stopped /\ d.held = l.held /\ d.binding = l.binding
        /\ d.recovering = l.recovering /\ d.ready = TRUE
        /\ d.life = IF "Ready" \in ValidTransitions[l.life] THEN "Ready"
                    ELSE l.life
    BY <1>2, <1>8, <2>2, <2>3
       DEF StartEnds, Settles, Opened, Transition, ShuttingDown, ConnectionRecord
  <2>6. c.opts.server /\ c.binding /\ ~ c.recovering
    BY <1>1, <1>8 DEF Sound
  <2>7. d.life \notin {"Created", "Stopped"}
    BY <1>1, <1>2, <1>8, <2>3, <2>5
  <2>8. /\ d.held = c.held \cup When(c.opts.reliable, {"ackTimer", "publishing"})
        /\ d.opts = c.opts /\ d.stopped = c.stopped
        /\ ~ d.recovering /\ ~ d.binding
    BY <1>2, <1>8, <2>3, <2>5, <2>6
  <2>9. Sound(d)
    BY <1>1, <1>8, <2>5, <2>6, <2>7, <2>8
       DEF Sound, PauseIsTimed, Holds, Intervals, When
  <2>10. Evolves(c, d)
    BY <1>1, <1>8, <2>5, <2>7, <2>8 DEF Evolves, Sound
  <2>11. AwaitEnds(c) = d
    BY <1>3, <1>8, <2>1, <2>2 DEF ShuttingDown
  <2> QED BY <2>4, <2>9, <2>10, <2>11 DEF ConnectionInv
<1> QED BY <1>6, <1>7, <1>8

(* An await that fails. *)
LEMMA AwaitFailsKeeps ==
  ASSUME NEW c, ConnectionInv(c), c.pc \in {"storage", "bonding", "bind"},
         ~ (c.stopped /\ c.pc \in HangsAfterStop)
  PROVE  ConnectionInv(AwaitFails(c)) /\ Evolves(c, AwaitFails(c))
<1>1. c \in ConnectionRecord /\ Sound(c) /\ c.life # "Created"
  BY CreatedFields DEF ConnectionInv
<1>2. CASE c.pc = "bonding"
  <2>1. PICK s : s = Release(c, {"bonding"})
    OBVIOUS
  <2>2. /\ s \in ConnectionRecord /\ s.held = c.held \ {"bonding"}
        /\ s.opts = c.opts /\ s.life = c.life /\ s.stopped = c.stopped
        /\ s.pc = c.pc /\ s.outcome = c.outcome
        /\ s.recovering = c.recovering /\ s.binding = c.binding
        /\ s.fatal = c.fatal /\ s.ready = c.ready /\ s.overtaken = c.overtaken
        /\ s.listening = c.listening
    BY <1>1, <2>1 DEF Release, ConnectionRecord
  <2>3. c.life # "Stopped"
    BY <1>1, <1>2 DEF Sound, HangsAfterStop
  <2>4. \A r \in Intervals \cup {"socket", "recovery", "subRetry"} :
          r \in s.held <=> r \in c.held
    BY <2>2 DEF Intervals
  <2>5. ConnectionInv(s) /\ Evolves(c, s)
    BY <1>1, <2>2, <2>3, <2>4, QuietKeeps
  <2>6. ConnectionInv(Waits(s, "hello")) /\ Evolves(s, Waits(s, "hello"))
    BY <1>2, <2>2, <2>3, <2>5, WaitsKeeps DEF Awaits
  <2>7. AwaitFails(c) = Waits(s, "hello")
    BY <1>2, <2>1 DEF AwaitFails
  <2> QED BY <2>5, <2>6, <2>7, EvolvesOn
<1>3. CASE c.pc # "bonding"
  <2>1. PICK s : s = Stop(c)
    OBVIOUS
  <2>2. PICK d : d = Settles(s, "rejected")
    OBVIOUS
  <2>3. /\ ConnectionInv(s) /\ s.life = "Stopped" /\ s.held = {}
        /\ s.opts = c.opts
    BY <2>1, StopKeeps
  <2>4. s \in ConnectionRecord /\ Sound(s)
    BY <2>3 DEF ConnectionInv
  <2>5. /\ d \in ConnectionRecord /\ d.pc = "none" /\ d.outcome = "rejected"
        /\ d.opts = s.opts /\ d.life = s.life /\ d.stopped = s.stopped
        /\ d.held = s.held
        /\ d.recovering = s.recovering /\ d.binding = s.binding
        /\ d.listening = s.listening
    BY <2>2, <2>4 DEF Settles, ConnectionRecord, Awaits
  <2>6. Sound(d)
    BY <2>3, <2>4, <2>5 DEF Sound, PauseIsTimed, Holds, Intervals
  <2>7. c.outcome = "pending"
    BY <1>1 DEF Sound
  <2>8. Evolves(c, d)
    BY <1>1, <2>3, <2>5, <2>7 DEF Evolves
  <2>9. AwaitFails(c) = d
    BY <1>3, <2>1, <2>2 DEF AwaitFails, StartFails
  <2> QED BY <2>5, <2>6, <2>8, <2>9 DEF ConnectionInv
<1> QED BY <1>2, <1>3

-----------------------------------------------------------------------------
(* The starts of the plugin. *)

Running(c) == c.life \in {"Starting", "Ready", "Recovering"}

(* a is the latest start, and neither failed nor was stopped. *)
Stands(a) ==
  attempts[a].phase \in {"servers", "clients", "up"} /\ ~ Superseded(a)

(* What is known of a start and of the connections it made. *)
StartInv(a) ==
  /\ attempts[a].gen <= startGeneration
  /\ attempts[a].phase = "none" =>
       \A i \in Owned(a) : conns[i].life = "Created"
  /\ attempts[a].phase = "servers" =>
       \A i \in Clients(a) : conns[i].outcome = "none"
  /\ attempts[a].phase = "clients" => Settled(Servers(a))
  /\ attempts[a].phase \notin {"servers", "clients"} =>
       \A i \in Owned(a) :
         /\ conns[i].outcome # "pending"
         /\ conns[i].life = "Stopped" => conns[i].held = {}
  /\ Stands(a) => /\ registry = Owned(a)
                  /\ \A i \in Owned(a) : conns[i].life = "Stopped"
                                           => conns[i].outcome = "rejected"

(* The inductive invariant without the types of the other variables. *)
ManagerCore ==
  /\ conns \in [Instances -> ConnectionRecord]
  /\ \A i \in Instances : ConnectionInv(conns[i])
  /\ startGeneration \in Nat
  /\ attempts \in [Starts -> [gen : Nat, phase : Phases]]
  /\ \A a \in Starts : StartInv(a)
  /\ \A a, b \in Starts :
       /\ attempts[a].phase # "none" /\ attempts[b].phase # "none"
       /\ attempts[a].gen = attempts[b].gen
       => a = b
  /\ registry # {} => \E a \in Starts : Stands(a)
  /\ NoOrphans

(* Instances and the starts that own them. *)
LEMMA OwnedFacts ==
  /\ \A i \in Instances : i[1] \in Starts /\ i[2] \in Names /\ i \in Owned(i[1])
  /\ \A a \in Starts : Owned(a) \subseteq Instances
  /\ \A a, b \in Starts : \A i \in Owned(a) : i \in Owned(b) => a = b
  /\ \A a \in Starts : \A i \in Owned(a) : i[1] = a
BY DEF Instances, Owned

(* Connections evolve, the manager does nothing. *)
LEMMA EvolvingStep ==
  ASSUME ManagerCore, UNCHANGED <<registry, startGeneration, attempts>>,
         conns' \in [Instances -> ConnectionRecord],
         \A i \in Instances : /\ ConnectionInv(conns'[i])
                              /\ \/ conns'[i] = conns[i]
                                 \/ Evolves(conns[i], conns'[i])
  PROVE  ManagerCore'
<1>1. \A i \in Instances : /\ ConnectionInv(conns[i]) /\ Sound(conns[i])
                           /\ conns'[i].opts = conns[i].opts
  BY DEF ManagerCore, ConnectionInv, Evolves
<1>2. ASSUME NEW a \in Starts PROVE StartInv(a)'
  <2>1. StartInv(a) /\ Owned(a) \subseteq Instances
    BY OwnedFacts DEF ManagerCore
  <2>2. Servers(a)' = Servers(a) /\ Clients(a)' = Clients(a)
    BY <1>1, <2>1 DEF Servers, Clients, Owned
  <2>3. Servers(a) \subseteq Instances /\ Clients(a) \subseteq Instances
    BY <2>1 DEF Servers, Clients
  <2>4. attempts'[a].gen <= startGeneration'
    BY <2>1 DEF StartInv
  <2>5. attempts'[a].phase = "none" =>
          \A i \in Owned(a) : conns'[i].life = "Created"
    BY <2>1 DEF StartInv, Evolves
  <2>6. attempts'[a].phase = "servers" =>
          \A i \in Clients(a) : conns'[i].outcome = "none"
    BY <2>1, <2>3 DEF StartInv, Evolves
  <2>7. attempts'[a].phase = "clients" =>
          \A i \in Servers(a) : conns'[i].outcome \notin {"none", "pending"}
    BY <2>1, <2>3 DEF StartInv, Evolves, Settled
  <2>8. attempts'[a].phase \notin {"servers", "clients"} =>
          \A i \in Owned(a) :
            /\ conns'[i].outcome # "pending"
            /\ conns'[i].life = "Stopped" => conns'[i].held = {}
    <3> SUFFICES ASSUME attempts[a].phase \notin {"servers", "clients"},
                        NEW i \in Owned(a)
                 PROVE  /\ conns'[i].outcome # "pending"
                        /\ conns'[i].life = "Stopped" => conns'[i].held = {}
      OBVIOUS
    <3>1. /\ i \in Instances /\ conns[i].outcome # "pending"
          /\ conns[i].life = "Stopped" => conns[i].held = {}
      BY <2>1 DEF StartInv
    <3>2. conns[i].pc = "none"
      BY <1>1, <3>1 DEF Sound
    <3> QED BY <3>1, <3>2 DEF Evolves
  <2>9. Stands(a) =>
          /\ registry = Owned(a)
          /\ \A i \in Owned(a) : conns'[i].life = "Stopped"
                                   => conns'[i].outcome = "rejected"
    BY <2>1 DEF StartInv, Evolves
  <2>10. Stands(a)' <=> Stands(a)
    BY DEF Stands, Superseded
  <2> QED BY <2>2, <2>4, <2>5, <2>6, <2>7, <2>8, <2>9, <2>10
          DEF StartInv, Settled, Owned
<1>3. \A a \in Starts : Stands(a)' <=> Stands(a)
  BY DEF Stands, Superseded
<1>4. NoOrphans'
  <2> SUFFICES ASSUME NEW i \in Instances, Running(conns'[i])
               PROVE  i \in registry
    BY DEF NoOrphans, Running
  <2>1. conns[i].life \in LifecycleStates
    BY DEF ManagerCore, ConnectionRecord
  <2>2. Running(conns[i])
    BY <2>1 DEF Evolves, Running, LifecycleStates
  <2> QED BY <2>2 DEF ManagerCore, NoOrphans, Running
<1> QED BY <1>2, <1>3, <1>4 DEF ManagerCore

(* What stop() and start() make of the connections. *)
LEMMA InstanceFacts ==
  ASSUME ManagerCore, NEW i \in Instances
  PROVE  /\ ConnectionInv(conns[i]) /\ Sound(conns[i])
         /\ ConnectionInv(Stop(conns[i]))
         /\ Stop(conns[i]).life = "Stopped" /\ Stop(conns[i]).held = {}
         /\ Stop(conns[i]).opts = conns[i].opts
         /\ Stop(conns[i]).outcome = conns[i].outcome
         /\ conns[i].life = "Created" =>
              /\ conns[i].outcome = "none" /\ conns[i].held = {}
              /\ ConnectionInv(Start(conns[i]))
              /\ Start(conns[i]).life = "Starting"
              /\ Start(conns[i]).opts = conns[i].opts
              /\ Start(conns[i]).outcome = "pending"
BY StopKeeps, StartKeeps, CreatedFields DEF ManagerCore, ConnectionInv

(* Whom the registry holds, a start that stands made. *)
LEMMA RegistryFacts ==
  ASSUME ManagerCore
  PROVE  /\ registry \subseteq Instances
         /\ \A a \in Starts : ~ Stands(a) => registry \cap Owned(a) = {}
         /\ \A a, b \in Starts : Stands(a) /\ Stands(b) => a = b
<1>1. \A a, b \in Starts : Stands(a) /\ Stands(b) => a = b
  BY DEF ManagerCore, Stands, Superseded
<1>2. CASE registry = {}
  BY <1>1, <1>2
<1>3. CASE registry # {}
  <2>1. PICK a \in Starts : Stands(a)
    BY <1>3 DEF ManagerCore
  <2>2. registry = Owned(a)
    BY <2>1 DEF ManagerCore, StartInv
  <2> QED BY <1>1, <2>1, <2>2, OwnedFacts
<1> QED BY <1>2, <1>3

(* Every other start: some of its connections are stopped. *)
LEMMA OthersKeep ==
  ASSUME ManagerCore, NEW a \in Starts, StartInv(a),
         attempts'[a] = attempts[a], startGeneration' \in Nat,
         startGeneration <= startGeneration',
         \A i \in Owned(a) : \/ conns'[i] = conns[i]
                             \/ /\ conns'[i] = Stop(conns[i])
                                /\ attempts[a].phase # "none",
         ~ Stands(a)'
  PROVE  StartInv(a)'
<1>1. Owned(a) \subseteq Instances /\ Owned(a)' = Owned(a)
  BY OwnedFacts DEF Owned
<1>2. \A i \in Owned(a) : /\ conns'[i].opts = conns[i].opts
                          /\ conns'[i].outcome = conns[i].outcome
  BY <1>1, InstanceFacts
<1>3. Servers(a)' = Servers(a) /\ Clients(a)' = Clients(a)
  BY <1>1, <1>2 DEF Servers, Clients
<1>4. attempts'[a].gen <= startGeneration'
  BY DEF StartInv, ManagerCore
<1>5. attempts'[a].phase = "none" =>
        \A i \in Owned(a) : conns'[i].life = "Created"
  BY DEF StartInv
<1>6. attempts'[a].phase = "servers" =>
        \A i \in Clients(a) : conns'[i].outcome = "none"
  BY <1>2 DEF StartInv, Clients
<1>7. attempts'[a].phase = "clients" =>
        \A i \in Servers(a) : conns'[i].outcome \notin {"none", "pending"}
  BY <1>2 DEF StartInv, Servers, Settled
<1>8. attempts'[a].phase \notin {"servers", "clients"} =>
        \A i \in Owned(a) :
          /\ conns'[i].outcome # "pending"
          /\ conns'[i].life = "Stopped" => conns'[i].held = {}
  BY <1>1, <1>2, InstanceFacts DEF StartInv
<1> QED BY <1>1, <1>3, <1>4, <1>5, <1>6, <1>7, <1>8 DEF StartInv, Settled

(* start, up to its first await *)
LEMMA ManagerStartStep ==
  ASSUME ManagerCore, NEW a \in Starts, ManagerStart(a)
  PROVE  ManagerCore'
<1>1. /\ attempts[a].phase = "none"
      /\ startGeneration' = startGeneration + 1
      /\ attempts' = [attempts EXCEPT ![a] =
                        [gen |-> startGeneration + 1, phase |-> "servers"]]
      /\ registry' = Owned(a)
      /\ conns' = [i \in Instances |->
                     IF i \in Servers(a) THEN Start(conns[i])
                     ELSE IF i \in registry THEN Stop(conns[i])
                     ELSE conns[i]]
  BY DEF ManagerStart
<1>2. /\ startGeneration \in Nat /\ startGeneration' \in Nat
      /\ attempts' \in [Starts -> [gen : Nat, phase : Phases]]
      /\ attempts'[a] = [gen |-> startGeneration + 1, phase |-> "servers"]
      /\ \A b \in Starts : b # a => attempts'[b] = attempts[b]
  BY <1>1 DEF ManagerCore, Phases
<1>3. /\ Owned(a) \subseteq Instances /\ Servers(a) \subseteq Owned(a)
      /\ registry \cap Owned(a) = {}
      /\ \A i \in Owned(a) : conns[i].life = "Created"
  BY <1>1, OwnedFacts, RegistryFacts
     DEF Servers, Stands, ManagerCore, StartInv
<1>4. \A i \in Instances :
        /\ ConnectionInv(conns'[i]) /\ conns'[i].opts = conns[i].opts
        /\ i \in Servers(a) => /\ conns'[i].life = "Starting"
                               /\ conns'[i].outcome = "pending"
        /\ i \in Owned(a) \ Servers(a) => conns'[i] = conns[i]
        /\ i \in registry => conns'[i] = Stop(conns[i])
        /\ i \notin Owned(a) \cup registry => conns'[i] = conns[i]
  BY <1>1, <1>3, InstanceFacts
<1>5. conns' \in [Instances -> ConnectionRecord]
  <2>1. conns' = [i \in Instances |-> conns'[i]]
    BY <1>1
  <2> QED BY <1>4, <2>1 DEF ConnectionInv
<1>6. \A b \in Starts : Stands(b)' => b = a
  BY <1>1, <1>2 DEF Stands, Superseded, ManagerCore, StartInv
<1>7. StartInv(a)'
  <2>1. /\ Servers(a)' = Servers(a) /\ Clients(a)' = Clients(a)
        /\ Owned(a)' = Owned(a)
    BY <1>3, <1>4 DEF Servers, Clients, Owned
  <2>2. \A i \in Clients(a) : conns'[i].outcome = "none"
    BY <1>3, <1>4, InstanceFacts DEF Clients
  <2>3. \A i \in Owned(a) : conns'[i].life # "Stopped"
    BY <1>3, <1>4
  <2> QED BY <1>1, <1>2, <2>1, <2>2, <2>3 DEF StartInv
<1>8. ASSUME NEW b \in Starts, b # a PROVE StartInv(b)'
  <2>1. \A i \in Owned(b) :
          \/ conns'[i] = conns[i]
          \/ conns'[i] = Stop(conns[i]) /\ attempts[b].phase # "none"
    <3> TAKE i \in Owned(b)
    <3>1. i \in Instances /\ i \notin Owned(a)
      BY <1>8, OwnedFacts
    <3>2. CASE i \in registry
      <4>1. Stands(b)
        BY <3>2, RegistryFacts
      <4> QED BY <1>4, <3>1, <3>2, <4>1 DEF Stands
    <3>3. CASE i \notin registry
      BY <1>4, <3>1, <3>3
    <3> QED BY <3>2, <3>3
  <2>2. StartInv(b) /\ ~ Stands(b)'
    BY <1>6, <1>8 DEF ManagerCore
  <2> QED BY <1>1, <1>2, <1>8, <2>1, <2>2, OthersKeep
<1>9. \A b, c \in Starts :
        /\ attempts'[b].phase # "none" /\ attempts'[c].phase # "none"
        /\ attempts'[b].gen = attempts'[c].gen
        => b = c
  <2>1. \A b \in Starts : attempts[b].gen < startGeneration + 1
    BY <1>2 DEF ManagerCore, StartInv
  <2> QED BY <1>2, <2>1 DEF ManagerCore
<1>10. Stands(a)'
  BY <1>1, <1>2 DEF Stands, Superseded
<1>11. NoOrphans'
  <2> SUFFICES ASSUME NEW i \in Instances, Running(conns'[i]), i \notin Owned(a)
               PROVE  FALSE
    BY <1>1 DEF NoOrphans, Running
  <2>1. CASE i \in registry
    BY <1>4, <2>1, InstanceFacts DEF Running
  <2>2. CASE i \notin registry
    BY <1>4, <2>2 DEF Running, NoOrphans, ManagerCore
  <2> QED BY <2>1, <2>2
<1> QED BY <1>2, <1>4, <1>5, <1>7, <1>8, <1>9, <1>10, <1>11 DEF ManagerCore

(* teardownAll *)
LEMMA TeardownKeeps ==
  ASSUME ManagerCore, TeardownAll
  PROVE  /\ conns' \in [Instances -> ConnectionRecord]
         /\ \A i \in Instances : ConnectionInv(conns'[i])
         /\ \A i \in registry : conns'[i] = Stop(conns[i])
         /\ \A i \in Instances \ registry : conns'[i] = conns[i]
         /\ \A a \in Starts : \A i \in Owned(a) :
              \/ conns'[i] = conns[i]
              \/ conns'[i] = Stop(conns[i]) /\ attempts[a].phase # "none"
         /\ NoOrphans'
<1>1. /\ registry' = {}
      /\ conns' = [i \in Instances |-> IF i \in registry THEN Stop(conns[i])
                                       ELSE conns[i]]
  BY DEF TeardownAll, Apply
<1>2. \A i \in Instances : /\ ConnectionInv(conns'[i])
                           /\ conns'[i].opts = conns[i].opts
                           /\ i \in registry => conns'[i] = Stop(conns[i])
                           /\ i \notin registry => conns'[i] = conns[i]
  BY <1>1, InstanceFacts
<1>3. conns' \in [Instances -> ConnectionRecord]
  <2>1. conns' = [i \in Instances |-> conns'[i]]
    BY <1>1
  <2> QED BY <1>2, <2>1 DEF ConnectionInv
<1>4. ASSUME NEW a \in Starts, NEW i \in Owned(a)
      PROVE  \/ conns'[i] = conns[i]
             \/ conns'[i] = Stop(conns[i]) /\ attempts[a].phase # "none"
  <2>1. i \in Instances
    BY <1>4, OwnedFacts
  <2>2. CASE i \in registry
    <3>1. Stands(a)
      BY <1>4, <2>2, RegistryFacts
    <3> QED BY <1>2, <2>1, <2>2, <3>1 DEF Stands
  <2>3. CASE i \notin registry
    BY <1>2, <2>1, <2>3
  <2> QED BY <2>2, <2>3
<1>5. NoOrphans'
  <2> SUFFICES ASSUME NEW i \in Instances, Running(conns'[i])
               PROVE  FALSE
    BY DEF NoOrphans, Running
  <2>1. CASE i \in registry
    BY <1>2, <2>1, InstanceFacts DEF Running
  <2>2. CASE i \notin registry
    BY <1>2, <2>2 DEF Running, NoOrphans, ManagerCore
  <2> QED BY <2>1, <2>2
<1>6. /\ \A i \in registry : conns'[i] = Stop(conns[i])
      /\ \A i \in Instances \ registry : conns'[i] = conns[i]
  BY <1>2, RegistryFacts
<1> QED BY <1>2, <1>3, <1>4, <1>5, <1>6

(* A start refused for its configuration *)
LEMMA ManagerRefusesStep ==
  ASSUME ManagerCore, NEW a \in Starts, ManagerRefuses(a)
  PROVE  ManagerCore'
<1>1. /\ attempts[a].phase = "none" /\ TeardownAll /\ registry' = {}
      /\ startGeneration' = startGeneration + 1
      /\ attempts' = [attempts EXCEPT ![a] =
                        [gen |-> startGeneration + 1, phase |-> "failed"]]
  BY DEF ManagerRefuses, TeardownAll
<1>2. /\ startGeneration \in Nat /\ startGeneration' \in Nat
      /\ attempts' \in [Starts -> [gen : Nat, phase : Phases]]
      /\ attempts'[a] = [gen |-> startGeneration + 1, phase |-> "failed"]
      /\ \A b \in Starts : b # a => attempts'[b] = attempts[b]
  BY <1>1 DEF ManagerCore, Phases
<1>3. \A b \in Starts : ~ Stands(b)'
  BY <1>1, <1>2 DEF Stands, Superseded, ManagerCore, StartInv
<1>4. StartInv(a)'
  <2>1. /\ Owned(a) \subseteq Instances /\ registry \cap Owned(a) = {}
        /\ \A i \in Owned(a) : conns[i].life = "Created"
    BY <1>1, OwnedFacts, RegistryFacts DEF Stands, ManagerCore, StartInv
  <2>2. \A i \in Owned(a) : /\ conns'[i].life = "Created"
                            /\ conns'[i].outcome = "none"
    BY <1>1, <2>1, TeardownKeeps, InstanceFacts
  <2>3. Owned(a)' = Owned(a)
    BY DEF Owned
  <2> QED BY <1>1, <1>2, <1>3, <2>2, <2>3 DEF StartInv
<1>5. ASSUME NEW b \in Starts, b # a PROVE StartInv(b)'
  <2>1. StartInv(b) /\ startGeneration <= startGeneration'
    BY <1>1, <1>2 DEF ManagerCore
  <2> QED BY <1>1, <1>2, <1>3, <1>5, <2>1, OthersKeep, TeardownKeeps
<1>6. \A b, c \in Starts :
        /\ attempts'[b].phase # "none" /\ attempts'[c].phase # "none"
        /\ attempts'[b].gen = attempts'[c].gen
        => b = c
  <2>1. \A b \in Starts : attempts[b].gen < startGeneration + 1
    BY <1>2 DEF ManagerCore, StartInv
  <2> QED BY <1>2, <2>1 DEF ManagerCore
<1>7. /\ conns' \in [Instances -> ConnectionRecord] /\ NoOrphans'
      /\ \A i \in Instances : ConnectionInv(conns'[i])
  BY <1>1, TeardownKeeps
<1> QED BY <1>1, <1>2, <1>4, <1>5, <1>6, <1>7 DEF ManagerCore

(* stop *)
LEMMA ManagerStopStep ==
  ASSUME ManagerCore, ManagerStop
  PROVE  ManagerCore'
<1>1. /\ TeardownAll /\ registry' = {} /\ attempts' = attempts
      /\ startGeneration' = startGeneration + 1
  BY DEF ManagerStop, TeardownAll
<1>2. startGeneration \in Nat /\ startGeneration' \in Nat
  BY <1>1 DEF ManagerCore
<1>3. \A b \in Starts : ~ Stands(b)'
  BY <1>1, <1>2 DEF Stands, Superseded, ManagerCore, StartInv
<1>4. ASSUME NEW b \in Starts PROVE StartInv(b)'
  <2>1. StartInv(b) /\ startGeneration <= startGeneration'
    BY <1>1, <1>2 DEF ManagerCore
  <2> QED BY <1>1, <1>2, <1>3, <2>1, OthersKeep, TeardownKeeps
<1>5. /\ conns' \in [Instances -> ConnectionRecord] /\ NoOrphans'
      /\ \A i \in Instances : ConnectionInv(conns'[i])
  BY <1>1, TeardownKeeps
<1> QED BY <1>1, <1>2, <1>4, <1>5 DEF ManagerCore

(* A start that nothing touches. *)
LEMMA UntouchedKeeps ==
  ASSUME ManagerCore, NEW a \in Starts, attempts'[a] = attempts[a],
         UNCHANGED <<registry, startGeneration>>,
         \A i \in Owned(a) : conns'[i] = conns[i]
  PROVE  StartInv(a)'
<1>1. /\ Servers(a)' = Servers(a) /\ Clients(a)' = Clients(a)
      /\ Owned(a)' = Owned(a)
      /\ Servers(a) \subseteq Owned(a) /\ Clients(a) \subseteq Owned(a)
  BY DEF Servers, Clients, Owned
<1>2. Stands(a)' <=> Stands(a)
  BY DEF Stands, Superseded
<1>3. Settled(Servers(a))' <=> Settled(Servers(a))
  BY <1>1 DEF Settled
<1>4. StartInv(a)
  BY DEF ManagerCore
<1>5. /\ attempts'[a].gen <= startGeneration'
      /\ attempts'[a].phase = "none" =>
           \A i \in Owned(a)' : conns'[i].life = "Created"
      /\ attempts'[a].phase = "servers" =>
           \A i \in Clients(a)' : conns'[i].outcome = "none"
      /\ attempts'[a].phase = "clients" => Settled(Servers(a))'
  BY <1>1, <1>3, <1>4 DEF StartInv
<1> QED BY <1>1, <1>2, <1>4, <1>5 DEF StartInv

(* teardownOwned of a start that has settled and was superseded *)
LEMMA RollbackStep ==
  ASSUME ManagerCore, NEW a \in Starts, Superseded(a), TeardownOwned(a),
         Enters(a, "rolledBack"), UNCHANGED startGeneration,
         attempts[a].phase # "none",
         \A i \in Owned(a) : conns[i].outcome # "pending"
  PROVE  ManagerCore'
<1>1. /\ registry' = registry \ Owned(a)
      /\ conns' = [i \in Instances |-> IF i \in Owned(a) THEN Stop(conns[i])
                                       ELSE conns[i]]
      /\ attempts' = [attempts EXCEPT ![a].phase = "rolledBack"]
  BY DEF TeardownOwned, Apply, Enters
<1>2. /\ attempts' \in [Starts -> [gen : Nat, phase : Phases]]
      /\ attempts'[a].gen = attempts[a].gen
      /\ attempts'[a].phase = "rolledBack"
      /\ \A b \in Starts : b # a => attempts'[b] = attempts[b]
  BY <1>1 DEF ManagerCore, Phases
<1>3. ~ Stands(a) /\ registry' = registry /\ Owned(a) \subseteq Instances
  BY <1>1, RegistryFacts, OwnedFacts DEF Stands
<1>4. \A i \in Instances :
        /\ ConnectionInv(conns'[i])
        /\ i \in Owned(a) => /\ conns'[i].life = "Stopped"
                             /\ conns'[i].held = {}
                             /\ conns'[i].outcome # "pending"
        /\ i \notin Owned(a) => conns'[i] = conns[i]
  BY <1>1, InstanceFacts
<1>5. conns' \in [Instances -> ConnectionRecord]
  <2>1. conns' = [i \in Instances |-> conns'[i]]
    BY <1>1
  <2> QED BY <1>4, <2>1 DEF ConnectionInv
<1>6. StartInv(a)'
  <2>1. StartInv(a) /\ Owned(a)' = Owned(a)
    BY DEF ManagerCore, Owned
  <2> QED BY <1>2, <1>3, <1>4, <2>1 DEF StartInv, Stands
<1>7. ASSUME NEW b \in Starts, b # a PROVE StartInv(b)'
  <2>1. \A i \in Owned(b) : conns'[i] = conns[i]
    BY <1>4, <1>7, OwnedFacts
  <2> QED BY <1>2, <1>3, <1>7, <2>1, UntouchedKeeps
<1>8. \A b, c \in Starts :
        /\ attempts'[b].phase # "none" /\ attempts'[c].phase # "none"
        /\ attempts'[b].gen = attempts'[c].gen
        => b = c
  BY <1>2 DEF ManagerCore
<1>9. \A b \in Starts : Stands(b) => Stands(b)'
  BY <1>2, <1>3 DEF Stands, Superseded
<1>10. NoOrphans'
  BY <1>3, <1>4 DEF NoOrphans, ManagerCore
<1> QED BY <1>2, <1>3, <1>4, <1>5, <1>6, <1>7, <1>8, <1>9, <1>10
        DEF ManagerCore

(* startAllInstances between its two groups *)
LEMMA ServersSettledStep ==
  ASSUME ManagerCore, NEW a \in Starts, ServersSettled(a)
  PROVE  ManagerCore'
<1>1. /\ attempts[a].phase = "servers" /\ Settled(Servers(a))
      /\ UNCHANGED startGeneration
  BY DEF ServersSettled
<1>2. /\ Owned(a) \subseteq Instances /\ Owned(a) = Servers(a) \cup Clients(a)
      /\ Servers(a) \cap Clients(a) = {}
      /\ \A i \in Clients(a) : conns[i].outcome = "none"
      /\ \A i \in Owned(a) : conns[i].outcome # "pending"
  BY <1>1, OwnedFacts DEF ManagerCore, StartInv, Settled, Servers, Clients
<1>3. CASE Superseded(a)
  BY <1>1, <1>2, <1>3, RollbackStep DEF ServersSettled
<1>4. CASE ~ Superseded(a)
  <2>1. /\ conns' = [i \in Instances |-> IF i \in Clients(a)
                        THEN Start(conns[i]) ELSE conns[i]]
        /\ attempts' = [attempts EXCEPT ![a].phase = "clients"]
        /\ registry' = registry
    BY <1>4 DEF ServersSettled, Apply, Enters
  <2>2. /\ attempts' \in [Starts -> [gen : Nat, phase : Phases]]
        /\ attempts'[a].gen = attempts[a].gen
        /\ attempts'[a].phase = "clients"
        /\ \A b \in Starts : b # a => attempts'[b] = attempts[b]
    BY <2>1 DEF ManagerCore, Phases
  <2>3. /\ Stands(a) /\ registry = Owned(a)
        /\ \A i \in Owned(a) : conns[i].life = "Stopped"
                                => conns[i].outcome = "rejected"
    BY <1>1, <1>4 DEF Stands, ManagerCore, StartInv
  <2>4. \A i \in Clients(a) : conns[i].life = "Created"
    <3> TAKE i \in Clients(a)
    <3>1. Sound(conns[i]) /\ conns[i].outcome = "none"
      BY <1>2, InstanceFacts
    <3> QED BY <1>2, <2>3, <3>1 DEF Sound
  <2>5. \A i \in Instances :
          /\ ConnectionInv(conns'[i]) /\ conns'[i].opts = conns[i].opts
          /\ i \in Clients(a) => conns'[i].life = "Starting"
          /\ i \notin Clients(a) => conns'[i] = conns[i]
    BY <2>1, <2>4, InstanceFacts
  <2>6. conns' \in [Instances -> ConnectionRecord]
    <3>1. conns' = [i \in Instances |-> conns'[i]]
      BY <2>1
    <3> QED BY <2>5, <3>1 DEF ConnectionInv
  <2>7. StartInv(a)'
    <3>1. /\ Servers(a)' = Servers(a) /\ Owned(a)' = Owned(a)
      BY <1>2, <2>5 DEF Servers, Owned
    <3>2. \A i \in Servers(a) : conns'[i].outcome \notin {"none", "pending"}
      BY <1>1, <1>2, <2>5 DEF Settled
    <3>3. \A i \in Owned(a) : conns'[i].life = "Stopped"
                               => conns'[i].outcome = "rejected"
      BY <1>2, <2>3, <2>5
    <3>4. attempts'[a].gen <= startGeneration'
      BY <1>1, <2>2 DEF ManagerCore, StartInv
    <3> QED BY <2>1, <2>2, <2>3, <3>1, <3>2, <3>3, <3>4 DEF StartInv, Settled
  <2>8. ASSUME NEW b \in Starts, b # a PROVE StartInv(b)'
    <3>1. \A i \in Owned(b) : conns'[i] = conns[i]
      BY <1>2, <2>5, <2>8, OwnedFacts
    <3> QED BY <1>1, <2>1, <2>2, <2>8, <3>1, UntouchedKeeps
  <2>9. \A b, c \in Starts :
          /\ attempts'[b].phase # "none" /\ attempts'[c].phase # "none"
          /\ attempts'[b].gen = attempts'[c].gen
          => b = c
    BY <1>1, <2>2 DEF ManagerCore
  <2>10. Stands(a)'
    BY <1>1, <1>4, <2>2 DEF Stands, Superseded
  <2>11. NoOrphans'
    BY <1>2, <2>1, <2>3, <2>5 DEF NoOrphans, ManagerCore
  <2>12. startGeneration' \in Nat
    BY <1>1 DEF ManagerCore
  <2> QED BY <2>2, <2>5, <2>6, <2>7, <2>8, <2>9, <2>10, <2>11, <2>12
          DEF ManagerCore
<1> QED BY <1>3, <1>4

(* the rest of start *)
LEMMA ClientsSettledStep ==
  ASSUME ManagerCore, NEW a \in Starts, ClientsSettled(a)
  PROVE  ManagerCore'
<1>1. /\ attempts[a].phase = "clients" /\ Settled(Clients(a))
      /\ UNCHANGED startGeneration
  BY DEF ClientsSettled
<1>2. /\ Owned(a) \subseteq Instances /\ Owned(a) = Servers(a) \cup Clients(a)
      /\ \A i \in Owned(a) : conns[i].outcome # "pending"
  BY <1>1, OwnedFacts DEF ManagerCore, StartInv, Settled, Servers, Clients
<1>3. CASE Superseded(a)
  BY <1>1, <1>2, <1>3, RollbackStep DEF ClientsSettled
<1>4. ASSUME ~ Superseded(a)
      PROVE  /\ Stands(a) /\ registry = Owned(a)
             /\ \A i \in Owned(a) : conns[i].life = "Stopped"
                                     => conns[i].outcome = "rejected"
  BY <1>1, <1>4 DEF Stands, ManagerCore, StartInv
<1>5. CASE ~ Superseded(a) /\ StartFailed(a)
  <2>1. /\ TeardownAll /\ registry' = {}
        /\ attempts' = [attempts EXCEPT ![a].phase = "failed"]
    BY <1>5 DEF ClientsSettled, Enters, TeardownAll
  <2>2. /\ attempts' \in [Starts -> [gen : Nat, phase : Phases]]
        /\ attempts'[a].gen = attempts[a].gen
        /\ attempts'[a].phase = "failed"
        /\ \A b \in Starts : b # a => attempts'[b] = attempts[b]
    BY <2>1 DEF ManagerCore, Phases
  <2>3. \A b \in Starts : ~ Stands(b)'
    <3> SUFFICES ASSUME NEW b \in Starts, Stands(b)'
                 PROVE  FALSE
      OBVIOUS
    <3>1. b # a /\ Stands(b)
      BY <1>1, <2>2 DEF Stands, Superseded
    <3> QED BY <1>4, <1>5, <3>1, RegistryFacts
  <2>4. StartInv(a)'
    <3>0. \A i \in registry : conns'[i] = Stop(conns[i])
      BY <2>1, TeardownKeeps
    <3>1. \A i \in Owned(a) : conns'[i].outcome # "pending" /\ conns'[i].held = {}
      BY <1>2, <1>4, <1>5, <3>0, InstanceFacts
    <3>2. Owned(a)' = Owned(a) /\ StartInv(a)
      BY DEF Owned, ManagerCore
    <3> QED BY <1>1, <2>2, <2>3, <3>1, <3>2 DEF StartInv
  <2>5. ASSUME NEW b \in Starts, b # a PROVE StartInv(b)'
    <3>1. /\ StartInv(b) /\ startGeneration <= startGeneration'
          /\ startGeneration' \in Nat
      BY <1>1 DEF ManagerCore
    <3> QED BY <2>1, <2>2, <2>3, <2>5, <3>1, OthersKeep, TeardownKeeps
  <2>6. \A b, c \in Starts :
          /\ attempts'[b].phase # "none" /\ attempts'[c].phase # "none"
          /\ attempts'[b].gen = attempts'[c].gen
          => b = c
    BY <1>1, <2>2 DEF ManagerCore
  <2>7. startGeneration' \in Nat
    BY <1>1 DEF ManagerCore
  <2>8. /\ conns' \in [Instances -> ConnectionRecord] /\ NoOrphans'
        /\ \A i \in Instances : ConnectionInv(conns'[i])
    BY <2>1, TeardownKeeps
  <2> QED BY <2>1, <2>2, <2>4, <2>5, <2>6, <2>7, <2>8 DEF ManagerCore
<1>6. CASE ~ Superseded(a) /\ ~ StartFailed(a)
  <2>1. /\ attempts' = [attempts EXCEPT ![a].phase = "up"]
        /\ registry' = registry /\ conns' = conns
    BY <1>6 DEF ClientsSettled, Enters
  <2>2. /\ attempts' \in [Starts -> [gen : Nat, phase : Phases]]
        /\ attempts'[a].gen = attempts[a].gen
        /\ attempts'[a].phase = "up"
        /\ \A b \in Starts : b # a => attempts'[b] = attempts[b]
    BY <2>1 DEF ManagerCore, Phases
  <2>3. \A i \in Owned(a) : conns[i].life # "Stopped"
    BY <1>4, <1>6 DEF StartFailed
  <2>4. StartInv(a)'
    <3>1. Owned(a)' = Owned(a) /\ StartInv(a)
      BY DEF Owned, ManagerCore
    <3> QED BY <1>1, <1>2, <1>4, <1>6, <2>1, <2>2, <2>3, <3>1 DEF StartInv
  <2>5. ASSUME NEW b \in Starts, b # a PROVE StartInv(b)'
    BY <1>1, <2>1, <2>2, <2>5, UntouchedKeeps
  <2>6. \A b, c \in Starts :
          /\ attempts'[b].phase # "none" /\ attempts'[c].phase # "none"
          /\ attempts'[b].gen = attempts'[c].gen
          => b = c
    BY <1>1, <2>2 DEF ManagerCore
  <2>7. Stands(a)'
    BY <1>1, <1>6, <2>2 DEF Stands, Superseded
  <2>8. NoOrphans' /\ startGeneration' \in Nat
    BY <1>1, <2>1 DEF NoOrphans, ManagerCore
  <2> QED BY <2>1, <2>2, <2>4, <2>5, <2>6, <2>7, <2>8 DEF ManagerCore
<1> QED BY <1>3, <1>5, <1>6

-----------------------------------------------------------------------------
(* The steps of one connection. *)

(* Connection i changes to one its invariant holds of. *)
LEMMA BecomesStep ==
  ASSUME ManagerCore, NEW i \in Instances, NEW d, ConnectionInv(d),
         Evolves(conns[i], d), Becomes(i, d)
  PROVE  ManagerCore'
<1>1. /\ conns' = [conns EXCEPT ![i] = d] /\ d \in ConnectionRecord
      /\ UNCHANGED <<registry, startGeneration, attempts>>
  BY DEF Becomes, ConnectionInv
<1>2. /\ conns \in [Instances -> ConnectionRecord]
      /\ \A j \in Instances : ConnectionInv(conns[j])
  BY DEF ManagerCore
<1>3. conns' \in [Instances -> ConnectionRecord]
  BY <1>1, <1>2
<1>4. /\ conns'[i] = d
      /\ \A j \in Instances : j # i => conns'[j] = conns[j]
  BY <1>1, <1>2
<1>5. \A j \in Instances : /\ ConnectionInv(conns'[j])
                           /\ \/ conns'[j] = conns[j]
                              \/ Evolves(conns[j], conns'[j])
  BY <1>2, <1>4
<1> QED BY <1>1, <1>3, <1>5, EvolvingStep

(* The awaits, the loads and the watchers. *)
LEMMA StartAndFileSteps ==
  ASSUME ManagerCore, file \in [Names -> Configs], NEW i \in Instances,
         \/ Awaited(i) \/ AwaitRejected(i) \/ Loaded(i) \/ DebounceEnds(i)
         \/ WatcherFails(i) \/ WatcherTimer(i)
  PROVE  ManagerCore'
<1>1. PICK c : c = conns[i]
  OBVIOUS
<1>2. ConnectionInv(c) /\ c \in ConnectionRecord
  BY <1>1 DEF ManagerCore, ConnectionInv
<1>3. CASE Awaited(i)
  BY <1>1, <1>2, <1>3, AwaitEndsKeeps, BecomesStep DEF Awaited
<1>4. CASE AwaitRejected(i)
  BY <1>1, <1>2, <1>4, AwaitFailsKeeps, BecomesStep DEF AwaitRejected
<1>5. CASE Loaded(i)
  <2>1. c.loading = TRUE
    BY <1>1, <1>2, <1>5 DEF Loaded, ConnectionRecord
  <2>2. file[i[2]] \in Configs
    BY OwnedFacts
  <2>3. PICK content \in Configs \cup {None}, ok \in BOOLEAN :
          Becomes(i, LoadEnds(c, content, ok))
    BY <1>1, <1>5, <2>2 DEF Loaded
  <2> QED BY <1>1, <1>2, <2>1, <2>3, LoadEndsKeeps, BecomesStep
<1>6. CASE DebounceEnds(i)
  BY <1>1, <1>2, <1>6, RunLoadKeeps, BecomesStep DEF DebounceEnds
<1>7. CASE WatcherFails(i)
  BY <1>1, <1>2, <1>7, WatcherKeeps, BecomesStep DEF WatcherFails
<1>8. CASE WatcherTimer(i)
  <2>1. PICK ok \in BOOLEAN : Becomes(i, RecreateWatcher(c, ok))
    BY <1>1, <1>8 DEF WatcherTimer
  <2>2. Holds(c, "watcherTimer")
    BY <1>1, <1>8 DEF WatcherTimer
  <2> QED BY <1>1, <1>2, <2>1, <2>2, WatcherKeeps, BecomesStep
<1> QED BY <1>3, <1>4, <1>5, <1>6, <1>7, <1>8

(* The subscription and the socket. *)
LEMMA SubscriptionAndSocketSteps ==
  ASSUME ManagerCore, NEW i \in Instances,
         \/ SubscriptionFails(i) \/ RetrySubscription(i)
         \/ SocketFails(i) \/ RecoverSocket(i) \/ Rebind(i)
  PROVE  ManagerCore'
<1>1. PICK c : c = conns[i]
  OBVIOUS
<1>2. ConnectionInv(c) /\ c \in ConnectionRecord
  BY <1>1 DEF ManagerCore, ConnectionInv
<1>3. CASE SubscriptionFails(i)
  BY <1>1, <1>2, <1>3, SubscriptionErrorKeeps, BecomesStep
     DEF SubscriptionFails
<1>4. CASE RetrySubscription(i)
  <2>1. PICK ok \in BOOLEAN : Becomes(i, SubscriptionRetry(c, ok))
    BY <1>1, <1>4 DEF RetrySubscription
  <2>2. Holds(c, "subRetry")
    BY <1>1, <1>4 DEF RetrySubscription
  <2> QED BY <1>1, <1>2, <2>1, <2>2, SubscriptionRetryKeeps, BecomesStep
<1>5. CASE SocketFails(i)
  <2>1. Holds(c, "socket") /\ ~ c.recovering /\ ~ c.binding
    BY <1>1, <1>5 DEF SocketFails
  <2>2. CASE ~ c.opts.server /\ Becomes(i, ClientSocketError(c))
    BY <1>1, <1>2, <2>1, <2>2, ClientSocketErrorKeeps, BecomesStep
  <2>3. ASSUME c.opts.server, NEW fatal \in BOOLEAN,
               Becomes(i, ServerSocketError(c, fatal))
        PROVE  ManagerCore'
    BY <1>1, <1>2, <2>1, <2>3, ServerSocketErrorKeeps, BecomesStep
  <2> QED BY <1>1, <1>5, <2>2, <2>3 DEF SocketFails
<1>6. CASE RecoverSocket(i)
  <2>1. Holds(c, "recovery")
    BY <1>1, <1>6 DEF RecoverSocket
  <2>2. ASSUME ~ c.opts.server, NEW ok \in BOOLEAN,
               Becomes(i, RecoverClientSocket(c, ok))
        PROVE  ManagerCore'
    BY <1>1, <1>2, <2>1, <2>2, RecoverClientSocketKeeps, BecomesStep
  <2>3. CASE c.opts.server /\ Becomes(i, RecoverServerSocket(c))
    BY <1>1, <1>2, <2>1, <2>3, RecoverServerSocketKeeps, BecomesStep
  <2> QED BY <1>1, <1>6, <2>2, <2>3 DEF RecoverSocket
<1>7. CASE Rebind(i)
  <2>1. c.recovering /\ c.binding
    BY <1>1, <1>7 DEF Rebind
  <2>2. CASE Becomes(i, Rebound(c))
    BY <1>1, <1>2, <2>1, <2>2, RebindKeeps, BecomesStep
  <2>3. ASSUME NEW fatal \in BOOLEAN, Becomes(i, RebindFails(c, fatal))
        PROVE  ManagerCore'
    BY <1>1, <1>2, <2>1, <2>3, RebindKeeps, BecomesStep
  <2> QED BY <1>1, <1>7, <2>2, <2>3 DEF Rebind
<1> QED BY <1>3, <1>4, <1>5, <1>6, <1>7

(* A change of the file, as its watchers report it. *)
LEMMA EditStep ==
  ASSUME ManagerCore, NEW n \in Names, NEW content \in Configs,
         NEW renames \in BOOLEAN, Edit(n, content, renames)
  PROVE  ManagerCore'
<1> DEFINE Told(c) == Allocate(c, {"debounce"})
<1>1. /\ UNCHANGED <<registry, startGeneration, attempts>>
      /\ conns' = [i \in Instances |->
           IF i[2] # n \/ ~ Watches(conns[i]) THEN conns[i]
           ELSE IF renames THEN RecreateWatcherLater(Told(conns[i]))
           ELSE Told(conns[i])]
  BY DEF Edit
<1>2. ASSUME NEW c, ConnectionInv(c), Watches(c)
      PROVE  /\ ConnectionInv(Told(c)) /\ Evolves(c, Told(c))
             /\ ConnectionInv(RecreateWatcherLater(Told(c)))
             /\ Evolves(c, RecreateWatcherLater(Told(c)))
  <2>0. Holds(c, "watchers")
    BY <1>2 DEF Watches
  <2>1. PICK d : d = Told(c)
    OBVIOUS
  <2>2. c \in ConnectionRecord /\ c.life # "Created" /\ c.life # "Stopped"
    BY <1>2, <2>0, HoldersRun DEF ConnectionInv
  <2>3. /\ d \in ConnectionRecord /\ d.held = c.held \cup {"debounce"}
        /\ d.opts = c.opts /\ d.life = c.life /\ d.stopped = c.stopped
        /\ d.pc = c.pc /\ d.outcome = c.outcome
        /\ d.recovering = c.recovering /\ d.binding = c.binding
        /\ d.fatal = c.fatal /\ d.listening = c.listening
        /\ d.ready = c.ready /\ d.overtaken = c.overtaken
    BY <2>1, <2>2 DEF Allocate, ConnectionRecord, Resources
  <2>4. \A r \in Intervals \cup {"socket", "recovery", "subRetry"} :
          r \in d.held <=> r \in c.held
    BY <2>3 DEF Intervals
  <2>5. ConnectionInv(d) /\ Evolves(c, d)
    BY <1>2, <2>2, <2>3, <2>4, QuietKeeps
  <2>6. Holds(d, "watchers")
    BY <2>0, <2>3 DEF Holds
  <2>7. /\ ConnectionInv(RecreateWatcherLater(d))
        /\ Evolves(d, RecreateWatcherLater(d))
    BY <2>5, <2>6, WatcherKeeps
  <2>8. Evolves(c, RecreateWatcherLater(d))
    BY <1>2, <2>5, <2>7, EvolvesOn
  <2> QED BY <2>1, <2>5, <2>7, <2>8
<1> HIDE DEF Told
<1>3. \A i \in Instances : ConnectionInv(conns[i])
  BY DEF ManagerCore
<1>4. \A i \in Instances : /\ ConnectionInv(conns'[i])
                           /\ \/ conns'[i] = conns[i]
                              \/ Evolves(conns[i], conns'[i])
  BY <1>1, <1>2, <1>3
<1>5. conns' \in [Instances -> ConnectionRecord]
  <2>1. conns' = [i \in Instances |-> conns'[i]]
    BY <1>1
  <2> QED BY <1>4, <2>1 DEF ConnectionInv
<1> QED BY <1>1, <1>4, <1>5, EvolvingStep

-----------------------------------------------------------------------------
(* The inductive invariant: the core, and the types of the rest. *)
ManagerIInv ==
  /\ ManagerCore
  /\ file \in [Names -> Configs]
  /\ stops \in 0 .. MaxStops
  /\ faults \in 0 .. MaxFaults
  /\ edits \in 0 .. MaxEdits

(* Before the first start, nothing runs and no start is known. *)
LEMMA ManagerInitially == Init => ManagerIInv
<1> SUFFICES ASSUME Init PROVE ManagerIInv
  OBVIOUS
<1>1. PICK opts \in [Names -> UNION {Options[n] : n \in Names}] :
        /\ \A n \in Names : opts[n] \in Options[n]
        /\ conns = [i \in Instances |-> NewConnection(opts[i[2]])]
  BY DEF Init
<1>2. \A n \in Names : opts[n] \in ConnectionOptions
  BY <1>1, ManagerAssumption
<1>3. ASSUME NEW o \in ConnectionOptions
      PROVE  /\ ConnectionInv(NewConnection(o))
             /\ NewConnection(o).life = "Created"
             /\ NewConnection(o).outcome = "none"
             /\ NewConnection(o).held = {}
  <2>1. PICK c : c = NewConnection(o)
    OBVIOUS
  <2>2. /\ c.opts = o /\ c.life = "Created" /\ c.outcome = "none"
        /\ c.pc = "none" /\ c.held = {} /\ c.stopped = FALSE
        /\ c.recovering = FALSE /\ c.binding = FALSE
    BY <2>1 DEF NewConnection
  <2>3. c \in ConnectionRecord
    BY <2>1, ConnectionAssumption
       DEF NewConnection, ConnectionRecord, LifecycleStates, Awaits
  <2>4. c = NewConnection(c.opts)
    BY <2>1, <2>2
  <2>5. Sound(c)
    BY <2>2, <2>4 DEF Sound, PauseIsTimed, Holds
  <2> QED BY <2>1, <2>2, <2>3, <2>5 DEF ConnectionInv
<1>4. \A i \in Instances : /\ ConnectionInv(conns[i])
                           /\ conns[i].life = "Created"
                           /\ conns[i].outcome = "none"
                           /\ conns[i].held = {}
  BY <1>1, <1>2, <1>3, OwnedFacts
<1>5. conns \in [Instances -> ConnectionRecord]
  <2>1. conns = [i \in Instances |-> conns[i]]
    BY <1>1
  <2> QED BY <1>4, <2>1 DEF ConnectionInv
<1>6. /\ registry = {} /\ startGeneration = 0
      /\ attempts = [a \in Starts |-> [gen |-> 0, phase |-> "none"]]
      /\ file \in [Names -> Configs]
      /\ stops = 0 /\ faults = 0 /\ edits = 0
  BY DEF Init
<1>7. attempts \in [Starts -> [gen : Nat, phase : Phases]]
  BY <1>6 DEF Phases
<1>8. \A a \in Starts : StartInv(a)
  BY <1>4, <1>6, OwnedFacts DEF StartInv, Stands
<1>9. NoOrphans
  BY <1>4 DEF NoOrphans
<1>10. ManagerCore
  BY <1>4, <1>5, <1>6, <1>7, <1>8, <1>9 DEF ManagerCore
<1> QED BY <1>6, <1>10, ManagerAssumption DEF ManagerIInv

(* Every step of the manager, of a connection and of a file preserves it. *)
LEMMA ManagerKeeps == ManagerIInv /\ [Next]_vars => ManagerIInv'
<1> SUFFICES ASSUME ManagerIInv, [Next]_vars PROVE ManagerIInv'
  OBVIOUS
<1>1. /\ ManagerCore /\ file \in [Names -> Configs]
      /\ stops \in 0 .. MaxStops /\ faults \in 0 .. MaxFaults
      /\ edits \in 0 .. MaxEdits
  BY DEF ManagerIInv
<1>2. ASSUME NEW a \in Starts,
             \/ ManagerStart(a) \/ ManagerRefuses(a)
             \/ ServersSettled(a) \/ ClientsSettled(a)
      PROVE  ManagerIInv'
  <2>1. ManagerCore'
    BY <1>1, <1>2, ManagerStartStep, ManagerRefusesStep, ServersSettledStep,
       ClientsSettledStep
  <2>2. UNCHANGED <<file, stops, faults, edits>>
    BY <1>2 DEF ManagerStart, ManagerRefuses, ServersSettled, ClientsSettled
  <2> QED BY <1>1, <2>1, <2>2 DEF ManagerIInv
<1>3. CASE ManagerStop
  <2>1. ManagerCore'
    BY <1>1, <1>3, ManagerStopStep
  <2>2. stops' \in 0 .. MaxStops /\ UNCHANGED <<file, faults, edits>>
    BY <1>1, <1>3, ManagerAssumption DEF ManagerStop
  <2> QED BY <1>1, <2>1, <2>2 DEF ManagerIInv
<1>4. ASSUME NEW i \in Instances, StepOf(i) PROVE ManagerIInv'
  <2>1. ManagerCore'
    BY <1>1, <1>4, StartAndFileSteps, SubscriptionAndSocketSteps DEF StepOf
  <2>2. UNCHANGED <<file, stops, edits>> /\ \E ok \in BOOLEAN : Well(ok)
    BY <1>4 DEF StepOf, Awaited, AwaitRejected, Loaded, DebounceEnds,
                WatcherFails, WatcherTimer, SubscriptionFails,
                RetrySubscription, SocketFails, RecoverSocket, Rebind, Becomes
  <2>3. faults' \in 0 .. MaxFaults
    BY <1>1, <2>2, ManagerAssumption DEF Well
  <2> QED BY <1>1, <2>1, <2>2, <2>3 DEF ManagerIInv
<1>5. ASSUME NEW n \in Names, NEW content \in Configs,
             NEW renames \in BOOLEAN, Edit(n, content, renames)
      PROVE  ManagerIInv'
  <2>1. ManagerCore'
    BY <1>1, <1>5, EditStep
  <2>2. /\ edits' \in 0 .. MaxEdits /\ file' \in [Names -> Configs]
        /\ UNCHANGED <<stops, faults>>
    BY <1>1, <1>5, ManagerAssumption DEF Edit
  <2> QED BY <1>1, <2>1, <2>2 DEF ManagerIInv
<1>6. CASE UNCHANGED vars
  BY <1>6 DEF vars, ManagerIInv, ManagerCore, ConnectionInv, StartInv, Stands,
              Superseded, Settled, Servers, Clients, Owned, NoOrphans
<1> QED BY <1>2, <1>3, <1>4, <1>5, <1>6 DEF Next

(* Throughout overlapping starts and stops, every connection is sound and  *)
(* every start is as far as its connections allow.                         *)
THEOREM ManagerSafe == Spec => []ManagerIInv
BY ManagerInitially, ManagerKeeps, PTL DEF Spec

(* Whatever starts and stops overlap (start, stop, teardownOwned of        *)
(* connection-manager.ts), no connection runs that the next stop() would   *)
(* not find in the registry.                                               *)
THEOREM RunningIsRegistered == Spec => []NoOrphans
<1>1. ManagerIInv => NoOrphans
  BY DEF ManagerIInv, ManagerCore
<1> QED BY <1>1, ManagerSafe, PTL

(* A start that was not superseded has the registry to itself: no rollback *)
(* of an older start takes its instances out.                              *)
THEOREM LatestStands == Spec => []LatestStartStands
<1>1. ManagerIInv => LatestStartStands
  BY DEF ManagerIInv, ManagerCore, StartInv, Stands, LatestStartStands
<1> QED BY <1>1, ManagerSafe, PTL

(* stop() at whatever await of start() it comes: once the start that made  *)
(* it is over, a stopped instance holds no timer, socket or watcher.       *)
THEOREM StopLeavesNothing == Spec => []NothingOutlivesStop
<1>1. ManagerIInv => NothingOutlivesStop
  BY OwnedFacts DEF ManagerIInv, ManagerCore, StartInv, NothingOutlivesStop
<1> QED BY <1>1, ManagerSafe, PTL

(* The interval timers need a socket, at both ends and across every error  *)
(* and recovery; and a paused connection has a timer or a bind to end its  *)
(* pause, unless a change of configuration cancelled it.                   *)
THEOREM TimersStandWhereTheyMust == Spec => []TimersInv
<1>1. ManagerIInv => TimersInv
  <2> SUFFICES ASSUME ManagerIInv PROVE TimersInv
    OBVIOUS
  <2>1. ManagerCore
    BY DEF ManagerIInv
  <2>2. registry \subseteq Instances
    BY <2>1, RegistryFacts
  <2>3. \A i \in Instances : Sound(conns[i])
    BY <2>1 DEF ManagerCore, ConnectionInv
  <2>4. TypeOK
    BY <2>1, <2>2, <2>3 DEF ManagerIInv, ManagerCore, TypeOK, Sound, Intervals
  <2>5. PausesAreTimed
    BY <2>3 DEF PausesAreTimed, Sound
  <2> QED BY <2>4, <2>5 DEF TimersInv
<1> QED BY <1>1, ManagerSafe, PTL
=============================================================================
