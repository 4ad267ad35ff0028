--------------------------- MODULE ConnectionConfig ---------------------------
(***************************************************************************)
(* The configuration of a connection as routes, start and migration see it *)
(* (src/connection-config.ts, src/routes/config.ts,                        *)
(* src/scripts/migrate-config.ts).                                         *)
(*                                                                         *)
(* A connection is the record [id, name, server, port, key]: connectionId, *)
(* the slug of its name, its serverType, udpPort and secretKey.  A slug is *)
(* the sequence of its parts ("a-1" is <<"a", 1>>), NoName a missing name. *)
(***************************************************************************)
EXTENDS Naturals, Sequences, SequencesExt, FiniteSets, FiniteSetsExt

CONSTANTS
  NoId,        \* no connectionId
  NoKey,       \* no secretKey
  Redacted     \* REDACTED_SECRET, in place of a key

NoName == << >>

-----------------------------------------------------------------------------
(* generateInstanceId; a missing name stands for "connection". *)
GenerateInstanceId(name, used) ==
  LET base == IF name = NoName THEN <<"connection">> ELSE name
      taken == {n \in 1 .. Cardinality(used) : Append(base, n) \in used}
  IN  IF base \notin used THEN base
      ELSE Append(base, Min((1 .. Cardinality(used) + 1) \ taken))

(* deriveConnectionIds *)
DeriveConnectionIds(connections) ==
  FoldLeft(LAMBDA ids, c :
             Append(ids, GenerateInstanceId(c.name, Range(ids))),
           << >>, connections)

(* findConnectionIndexByInstanceId; 0 is -1. *)
FindConnectionIndex(connections, instanceId) ==
  LET found == {i \in DOMAIN connections :
                  DeriveConnectionIds(connections)[i] = instanceId}
  IN  IF found = {} THEN 0 ELSE Min(found)

(* validateUniqueServerPorts finds nothing. *)
UniqueServerPorts(connections) ==
  \A i, j \in DOMAIN connections :
    /\ i # j
    /\ connections[i].server /\ connections[j].server
    => connections[i].port # connections[j].port

-----------------------------------------------------------------------------
(* getLegacyConnectionIdentityKey: a set, empty for none. *)
LegacyIdentityKey(c) ==
  IF c.name = NoName THEN {} ELSE {<<"legacy", c.name, c.server, c.port>>}

(* getConnectionIdentityKey *)
IdentityKey(c) == IF c.id # NoId THEN {<<"id", c.id>>} ELSE LegacyIdentityKey(c)

(* The stored connections of an identity. *)
StoredAs(stored, identity) ==
  {j \in DOMAIN stored : identity # {} /\ IdentityKey(stored[j]) = identity}

(* indexFallbackIsSafe: a connection that has been given its id since it   *)
(* was stored is at the place where it was.                                *)
IndexFallbackIsSafe(list, i, stored) ==
  /\ list[i].id # NoId /\ Len(list) = Len(stored)
  /\ stored[i].id = NoId /\ stored[i].key # NoKey
  /\ LegacyIdentityKey(list[i]) # {}
  /\ LegacyIdentityKey(stored[i]) = LegacyIdentityKey(list[i])
  /\ Cardinality(StoredAs(stored, LegacyIdentityKey(list[i]))) <= 1

(* The key of the i-th connection of a list: none, if it is refused. *)
RestoredKey(list, i, stored) ==
  LET same == StoredAs(stored, IdentityKey(list[i])) IN
  IF list[i].key # Redacted THEN {list[i].key}
  ELSE IF Cardinality(same) > 1 THEN {}
  ELSE IF same # {} THEN {stored[j].key : j \in same} \ {NoKey}
  ELSE IF IndexFallbackIsSafe(list, i, stored) THEN {stored[i].key}
  ELSE {}

(* restoreRedactedSecretKeys: a set, empty if one is refused. *)
RestoreRedactedSecretKeys(list, stored) ==
  IF \E i \in DOMAIN list : RestoredKey(list, i, stored) = {} THEN {}
  ELSE {[i \in DOMAIN list |->
           [list[i] EXCEPT !.key = CHOOSE k \in RestoredKey(list, i, stored) :
                                     TRUE]]}

(* redactSecretKeys *)
RedactSecretKeys(list) ==
  [i \in DOMAIN list |->
     IF list[i].key = NoKey THEN list[i]
     ELSE [list[i] EXCEPT !.key = Redacted]]

-----------------------------------------------------------------------------
(* What the connections differ in besides: options, the record             *)
(* [server, version, fields] of the serverType, the protocolVersion as it  *)
(* is stored and the fields that are there, with a legal value each.  Of   *)
(* authenticatedHeaders, which is on by default, the field stands for off. *)

PingFields == {"testAddress", "testPort", "pingIntervalTime"}

(* SENDER_ONLY_KEYS *)
SenderOnlyFields == {"pathFilter", "pathPrecision", "pathThrottle",
                     "brotliQuality", "useValueDedup", "useCompactDeltas",
                     "heartbeatInterval"}

RefusedOnServer == {"congestionControl", "bonding", "alertThresholds",
                    "skipOwnData"}

DroppedOnServer == PingFields \cup SenderOnlyFields \cup RefusedOnServer
                     \cup {"udpAddress", "helloMessageSender"}

(* The version a stored one stands for: version 2 has left the wire. *)
ResolvedVersion(version) ==
  IF version \in {"2", "3", "advanced"} THEN 3 ELSE 1

(* sanitizeConnectionConfig *)
SanitizeConnectionConfig(o) ==
  LET version == CASE o.version = "basic" -> "1"
                   [] o.version \in {"2", "advanced"} -> "3"
                   [] OTHER -> o.version
      dropped == IF o.server THEN DroppedOnServer
                 ELSE IF ResolvedVersion(version) = 3 THEN PingFields
                 ELSE {}
  IN  [o EXCEPT !.version = version, !.fields = @ \ dropped]

(* validateConnectionConfig: what a version and its options require. *)
VersionGates(o) ==
  LET reliable == ResolvedVersion(o.version) = 3
      has(f) == f \in o.fields
  IN  /\ has("epochBoundAuth") => reliable /\ ~ has("authenticatedHeaders off")
      /\ has("useValueDedup") => reliable
      /\ has("useCompactDeltas") => reliable /\ has("useMsgpack")

(* validateConnectionConfig: what a client needs and may not have. *)
ClientGates(o) ==
  /\ "udpAddress" \in o.fields
  /\ IF ResolvedVersion(o.version) = 3 THEN o.fields \cap PingFields = {}
     ELSE {"testAddress", "testPort"} \subseteq o.fields

(* validateConnectionConfig finds nothing. *)
IsValidConnectionConfig(o) ==
  /\ VersionGates(o)
  /\ IF o.server THEN o.fields \cap RefusedOnServer = {} ELSE ClientGates(o)

(* startup: parseConnectionList and prepareConnectionList of a flat config *)
StartAccepts(o) == IsValidConnectionConfig(SanitizeConnectionConfig(o))

(* migrateConfig of a flat config, which is given a version. *)
MigrateConfig(o) ==
  SanitizeConnectionConfig(
    IF o.version = "none" THEN [o EXCEPT !.version = "1"] ELSE o)

MigrateAccepts(o) == IsValidConnectionConfig(MigrateConfig(o))

=============================================================================
