---------------------------- MODULE ConnectionForm ----------------------------
(***************************************************************************)
(* The form of one connection: which fields it offers                      *)
(* (src/shared/connection-schema.ts) and what a change of the operator     *)
(* makes of the connection (handleFormChange of                            *)
(* src/webapp/components/PluginConfigurationPanel.tsx).  A connection is   *)
(* the record [server, version, fields] of ConnectionConfig; that a        *)
(* boolean field is there means that it is on.                             *)
(***************************************************************************)
EXTENDS ConnectionConfig

(* commonConnectionProperties, without those that every form has. *)
CommonFields ==
  {"stretchAsciiKey", "authenticatedHeaders off", "epochBoundAuth",
   "useMsgpack", "usePathDictionary"}
    \cup (SenderOnlyFields \ {"heartbeatInterval"})

(* serverConnectionProperties *)
ServerFields == CommonFields \ SenderOnlyFields

TransportFields == {"udpAddress", "helloMessageSender", "heartbeatInterval"}

ReliableClientFields == {"reliability", "congestionControl", "bonding",
                         "alertThresholds"}

ReliableServerFields == {"requestFullStatusOnRestart", "reliability"}

(* Number(protocolVersion), of which an alias is not a number. *)
IsReliable(version) == version \in {"2", "3"}
IsBasic(version) == version \in {"none", "1"}

(* buildWebappConnectionSchema *)
FormFields(server, version, advanced) ==
  LET gated == IF IsReliable(version) THEN {}
               ELSE {"useValueDedup", "useCompactDeltas"}
  IN  CASE ~ advanced -> IF server THEN {} ELSE {"udpAddress"}
        [] advanced /\ server ->
             ServerFields \cup (IF IsReliable(version)
                                THEN ReliableServerFields ELSE {})
        [] OTHER ->
             (CommonFields \ gated) \cup TransportFields
               \cup {"enableNotifications", "skipOwnData"}
               \cup (IF IsReliable(version) THEN ReliableClientFields
                                            ELSE PingFields)

(* buildConnectionItemSchema: the form of the host's admin UI. *)
AdminFields(server) ==
  IF server THEN ServerFields \cup ReliableServerFields
  ELSE CommonFields \cup TransportFields \cup PingFields
         \cup ReliableClientFields \cup {"enableNotifications", "skipOwnData"}

-----------------------------------------------------------------------------
(* defaultServerConnection, defaultClientConnection *)
DefaultFields(server) ==
  IF server THEN {}
  ELSE {"udpAddress", "helloMessageSender"} \cup PingFields

(* handleFormChange, of the mode *)
Toggled(conn, next) ==
  [server  |-> next.server, version |-> next.version,
   fields  |-> DefaultFields(next.server) \cup (next.fields \cap CommonFields)]

(* What a version may not have is dropped: what the form would not show. *)
GatedBy(server, version) ==
  (IF ~ server /\ IsReliable(version) THEN PingFields ELSE {})
    \cup (IF IsBasic(version) THEN {"useValueDedup", "useCompactDeltas"} ELSE {})

(* handleFormChange, in one mode: only what the form manages is taken. *)
Edited(conn, next, advanced) ==
  LET managed == FormFields(conn.server, conn.version, advanced)
  IN  [next EXCEPT !.fields =
         ((conn.fields \ managed) \cup (@ \cap managed))
            \ GatedBy(next.server, next.version)]

HandleFormChange(conn, next, advanced) ==
  IF next.server # conn.server THEN Toggled(conn, next)
  ELSE Edited(conn, next, advanced)

-----------------------------------------------------------------------------
(* What the form can still change, changed for the best. *)
Repaired(conn) ==
  LET managed == FormFields(conn.server, conn.version, TRUE)
  IN  Edited(conn,
             [conn EXCEPT !.fields = managed \ {"epochBoundAuth"}], TRUE)

(* It can be saved, if not as it is, then after an edit of what the form   *)
(* shows: no field that is not shown makes it unsaveable.                  *)
CanBeSaved(conn) == StartAccepts(conn) \/ StartAccepts(Repaired(conn))

=============================================================================
