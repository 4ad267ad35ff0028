------------------------------ MODULE Management ------------------------------
(***************************************************************************)
(* The management API and the configuration it changes (src/index.ts,      *)
(* src/routes.ts, src/routes/connections.ts, src/routes/config.ts).        *)
(*                                                                         *)
(* There are up to three copies of the configuration: the host's file, the *)
(* _currentOptions of the plugin and the connections that run.  A request  *)
(* is handled in one step: it reads a copy, checks the outcome and calls   *)
(* the host's restart callback, which returns at once and does its work    *)
(* later: save, stop, start, in the order of the calls.  So requests meet  *)
(* restarts under way, their own client's included.                        *)
(*                                                                         *)
(* The names of a configuration and its keys are in ConnectionConfig, the  *)
(* runtime files in ConfigFile, the connections in ConnectionManager.  A   *)
(* flat legacy configuration is one with a single connection here.         *)
(***************************************************************************)
EXTENDS ConnectionConfig, ConfigFile

CONSTANTS
  FirstConfig,       \* what the host has at the beginning
  NewConnections,    \* connections a request may create
  NewNames,          \* names a request may give
  Tokens,            \* managementApiToken
  NoToken,
  EnvToken,          \* SIGNALK_EDGE_LINK_MANAGEMENT_TOKEN, or NoToken
  EnvRequired,       \* SIGNALK_EDGE_LINK_REQUIRE_MANAGEMENT_TOKEN
  Stopped,           \* _currentOptions and _restartPlugin are null
  Keep,              \* a field a request leaves out
  MaxRequests,       \* bound: requests that change the configuration
  MaxRestarts        \* bound: restarts under way

(* The connections made of what is given at the beginning and by requests, *)
(* and the configurations: options objects.                                *)
Given == NewConnections \cup Range(FirstConfig.conns)

Connections ==
  [id : {c.id : c \in Given}, name : {c.name : c \in Given} \cup NewNames,
   server : BOOLEAN, port : {c.port : c \in Given}, key : {c.key : c \in Given}]

Configurations == [conns : Seq(Connections), token : Tokens \cup {NoToken},
                   required : BOOLEAN]

(* What is given has passed validateConnectionConfig, which demands a key. *)
ASSUME ManagementAssumption ==
  /\ NoToken \notin Tokens /\ EnvToken \in Tokens \cup {NoToken}
  /\ EnvRequired \in BOOLEAN
  /\ MaxRestarts \in Nat \ {0} /\ MaxRequests \in Nat
  /\ Given \subseteq Connections
  /\ \A c \in Given : c.key \notin {Redacted, NoKey}
  /\ FirstConfig \in Configurations /\ Stopped \notin Configurations
  /\ FirstConfig.conns # << >> /\ UniqueServerPorts(FirstConfig.conns)

VARIABLES
  persisted,         \* the configuration in the host's file
  live,              \* _currentOptions
  restarts,          \* calls of the host's callback that are not done
  running,           \* the connections of the registry
  requests,
  wanted,            \* history: the accepted requests, one after the other
  behind,            \* history: live is not what was accepted last
  disturbed          \* history: a request was built on such a configuration,
                     \* or never reached the host's file

api  == <<persisted, live, restarts, running, requests, wanted, behind,
         disturbed>>
vars == <<api, files>>

SomeOf(s) == CHOOSE x \in s : TRUE

-----------------------------------------------------------------------------
(* What a request makes of a configuration: a set, empty if it is refused. *)

CreatedIn(config, c) ==
  LET next == [config EXCEPT !.conns = Append(@, c)]
  IN  IF UniqueServerPorts(next.conns) THEN {next} ELSE {}

UpdatedIn(config, instanceId, name) ==
  LET i == FindConnectionIndex(config.conns, instanceId)
  IN  IF i = 0 THEN {} ELSE {[config EXCEPT !.conns[i].name = name]}

(* At least one instance must remain. *)
DeletedFrom(config, instanceId) ==
  LET i == FindConnectionIndex(config.conns, instanceId)
  IN  IF i = 0 \/ Len(config.conns) = 1 THEN {}
      ELSE {[config EXCEPT !.conns = RemoveAt(@, i)]}

(* POST /plugin-config, with the stored configuration for what is redacted *)
(* or left out.                                                            *)
ReplacedBy(stored, body) ==
  {[conns    |-> list,
    token    |-> IF body.token = Keep THEN stored.token ELSE body.token,
    required |-> IF body.required = Keep THEN stored.required
                                         ELSE body.required] :
     list \in {l \in RestoreRedactedSecretKeys(body.conns, stored.conns) :
                 UniqueServerPorts(l)}}

-----------------------------------------------------------------------------
(* Defect: a plugin that is stopped has no options. *)
LiveOptions ==
  IF live = Stopped THEN [conns |-> << >>, token |-> NoToken,
                          required |-> FALSE] ELSE live

(* resolveAuthOptions *)
AuthOptions == IF live = Stopped THEN persisted ELSE live

(* getManagementToken *)
ManagementToken(options) ==
  IF options.token # NoToken THEN options.token ELSE EnvToken

IsTokenRequired(options) == options.required \/ EnvRequired

(* authorizeManagement: provided are the tokens of the request's headers. *)
Decision(options, readError, provided) ==
  LET token == ManagementToken(options) IN
  IF readError THEN "config_read_error"
  ELSE IF token = NoToken
       THEN IF IsTokenRequired(options) THEN "token_required_unconfigured"
                                        ELSE "open_access"
  ELSE IF provided = {} THEN "missing_token"
  ELSE IF token \in provided THEN "valid_token" ELSE "invalid_token"

-----------------------------------------------------------------------------
Init ==
  /\ persisted = FirstConfig
  /\ live = FirstConfig
  /\ running = FirstConfig.conns
  /\ restarts = << >>
  /\ requests = 0
  /\ wanted = FirstConfig
  /\ behind = FALSE
  /\ disturbed = FALSE
  /\ FileInit

Request == requests < MaxRequests /\ requests' = requests + 1
MayRestart == live # Stopped /\ Len(restarts) < MaxRestarts
Trouble == trouble < MaxTrouble /\ trouble' = trouble + 1
                                /\ UNCHANGED <<saves, temps, file>>

Wants(result) == wanted' = IF result = {} THEN wanted ELSE SomeOf(result)

(* Defect: _currentOptions is left to the restart. *)
RestartOnly(next) ==
  /\ restarts' = Append(restarts, next)
  /\ UNCHANGED live

(* restartWithConnections: the next request sees the change at once. *)
RestartWithConnections(next) ==
  /\ restarts' = Append(restarts, next)
  /\ live' = next

(* A request to /instances.  Two in a row both count, although the second  *)
(* comes before the first is in effect; but the restart of the first takes *)
(* _currentOptions back to what the first had made of it.                  *)
Change(result, wish) ==
  /\ MayRestart /\ Request
  /\ result # {}
  /\ RestartWithConnections(SomeOf(result))
  /\ Wants(wish)
  /\ disturbed' = (disturbed \/ behind)
  /\ UNCHANGED <<persisted, running, behind, files>>

RunningIds == Range(DeriveConnectionIds(running))

CreateInstance(c) == Change(CreatedIn(live, c), CreatedIn(wanted, c))

UpdateInstance(instanceId, name) ==
  Change(UpdatedIn(live, instanceId, name),
         UpdatedIn(wanted, instanceId, name))

DeleteInstance(instanceId) ==
  Change(DeletedFrom(live, instanceId), DeletedFrom(wanted, instanceId))

(* The bodies of a client that has read the configuration, redacted, and   *)
(* edits the list or one of the settings.                                  *)
Bodies ==
  LET shown == RedactSecretKeys(persisted.conns)
      body(l, t, r) == [conns |-> l, token |-> t, required |-> r]
  IN  {body(l, Keep, Keep) : l \in {Reverse(shown), Front(shown)} \ {<< >>}}
        \cup {body(shown, t, Keep) : t \in Tokens \cup {NoToken}}
        \cup {body(shown, Keep, r) : r \in BOOLEAN}

(* POST /plugin-config.  A stopped plugin saves, and may fail to. *)
ReplaceConfig(body) ==
  LET result == ReplacedBy(persisted, body) IN
  /\ Request
  /\ result # {}
  /\ \/ /\ MayRestart
        /\ restarts' = Append(restarts, SomeOf(result))
        /\ Wants(ReplacedBy(wanted, body))
        /\ disturbed' = (disturbed \/ restarts # << >>)
        /\ behind' = TRUE
        /\ UNCHANGED <<persisted, files>>
     \/ /\ live = Stopped
        /\ \/ /\ persisted' = SomeOf(result)
              /\ Wants(ReplacedBy(wanted, body))
              /\ disturbed' = (disturbed \/ restarts # << >>)
              /\ UNCHANGED files
           \/ UNCHANGED <<persisted, wanted, disturbed>> /\ Trouble
        /\ UNCHANGED <<restarts, behind>>
  /\ UNCHANGED <<live, running>>

(* plugin.start with a configuration; a connection may fail to start, and  *)
(* then all are stopped.                                                   *)
PluginStart(config) ==
  /\ live' = config
  /\ \/ running' = config.conns /\ UNCHANGED files
     \/ running' = << >> /\ Trouble

(* The host does the oldest restart. *)
HostRestarts ==
  /\ restarts # << >>
  /\ persisted' = Head(restarts)
  /\ restarts' = Tail(restarts)
  /\ behind' = (restarts' # << >>)
  /\ PluginStart(Head(restarts))
  /\ UNCHANGED <<requests, wanted, disturbed>>

(* It cannot save, says so on its console, and leaves the plugin alone. *)
HostFailsToSave ==
  /\ restarts # << >>
  /\ restarts' = Tail(restarts)
  /\ behind' = (behind /\ restarts' # << >>)
  /\ disturbed' = TRUE
  /\ Trouble
  /\ UNCHANGED <<persisted, live, running, requests, wanted>>

(* plugin.stop, the plugin is disabled *)
PluginStop ==
  /\ live # Stopped
  /\ live' = Stopped
  /\ running' = << >>
  /\ behind' = (restarts # << >>)
  /\ UNCHANGED <<persisted, restarts, requests, wanted, disturbed, files>>

HostStarts ==
  /\ live = Stopped
  /\ PluginStart(persisted)
  /\ UNCHANGED <<persisted, restarts, requests, wanted, behind, disturbed>>

Crash ==
  /\ FilesAfterCrash
  /\ live' = Stopped
  /\ running' = << >>
  /\ restarts' = << >>
  /\ behind' = FALSE
  /\ disturbed' = (disturbed \/ restarts # << >>)
  /\ UNCHANGED <<persisted, requests, wanted>>

(* POST /config/:filename of a client that runs. *)
SaveConfigFile(w) ==
  /\ saves[w] = "none" => \E i \in DOMAIN running : ~ running[i].server
  /\ SaveStep(w)
  /\ UNCHANGED api

Next ==
  \/ \E c \in NewConnections : CreateInstance(c)
  \/ \E id \in RunningIds, name \in NewNames : UpdateInstance(id, name)
  \/ \E id \in RunningIds : DeleteInstance(id)
  \/ \E body \in Bodies : ReplaceConfig(body)
  \/ HostRestarts
  \/ HostFailsToSave
  \/ PluginStop
  \/ HostStarts
  \/ Crash
  \/ \E w \in Writers : SaveConfigFile(w)

Spec == Init /\ [][Next]_vars

-----------------------------------------------------------------------------
IsLegal(config) ==
  /\ config.conns # << >> /\ UniqueServerPorts(config.conns)
  /\ \A i \in DOMAIN config.conns : config.conns[i].key \notin {Redacted, NoKey}
  /\ config.token \in Tokens \cup {NoToken} /\ config.required \in BOOLEAN

(* Every configuration, in use or on its way to be, can be started: it has *)
(* a connection, no port twice, and a key everywhere, never the text that  *)
(* stands for one.                                                         *)
TypeOK ==
  /\ \A config \in {persisted, wanted} \cup ({live} \ {Stopped})
                     \cup Range(restarts) : IsLegal(config)
  /\ Len(restarts) <= MaxRestarts
  /\ requests \in 0 .. MaxRequests /\ {behind, disturbed} \subseteq BOOLEAN
  /\ saves \in [Writers -> {"none", "open", "written", "synced", "saved",
                            "failed"}]
  /\ temps \in [Writers -> Files] /\ file \in Files

(* When all restarts are done, the configuration is what the accepted      *)
(* requests make one after the other, also if some of /instances were      *)
(* accepted before the restart of the first was done.  Otherwise changes   *)
(* are lost: a request to /instances that comes between two restarts, or   *)
(* while one of /plugin-config is under way, or after a stop and start     *)
(* with a restart outstanding, builds on what was before.                  *)
AcceptedIsKept ==
  restarts = << >> /\ ~ disturbed =>
    persisted = wanted /\ live \in {Stopped, wanted}

(* Who may use the API follows from the configuration, whether the plugin  *)
(* runs or is stopped: stop(), which forgets the options, opens nothing.   *)
AuthFollowsConfig ==
  restarts = << >> /\ ~ disturbed =>
    \A provided \in SUBSET Tokens :
      Decision(AuthOptions, FALSE, provided)
        = Decision(wanted, FALSE, provided)

(* What is configured can be started, and decides who is let in. *)
ManagementInv == TypeOK /\ AuthFollowsConfig

=============================================================================
