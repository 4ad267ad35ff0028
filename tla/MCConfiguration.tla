-------------------------- MODULE MCConfiguration --------------------------
(***************************************************************************)
(* What is checked of ConnectionConfig, ConnectionForm and Settings for    *)
(* every configuration of small sets of fields and values.                 *)
(***************************************************************************)
EXTENDS ConnectionForm, Settings

Law == INSTANCE Congestion

Slugs == {NoName, <<"a">>, <<"a", 1>>}
Lists(S, n) == UNION {[1 .. k -> S] : k \in 0 .. n}

(* The ids are distinct, however the names are chosen, and an id finds the *)
(* connection it was derived for.                                          *)
ASSUME IdsChecked ==
  \A names \in Lists(Slugs, 4) :
    LET conns == [i \in DOMAIN names |-> [name |-> names[i]]]
        ids   == DeriveConnectionIds(conns)
    IN  /\ Len(ids) = Len(names)
        /\ \A i \in DOMAIN ids : FindConnectionIndex(conns, ids[i]) = i

Stored == [id : {NoId, "x", "y"}, name : {<<"a">>, NoName}, server : {TRUE},
           port : 1 .. 2, key : {"k1", "k2", NoKey}]

IdentitiesDiffer(list) ==
  \A i, j \in DOMAIN list :
    /\ IdentityKey(list[i]) # {}
    /\ i # j => IdentityKey(list[i]) # IdentityKey(list[j])

(* What is read and written back unchanged keeps its keys, or is refused   *)
(* where a connection cannot be told from another.  In any order, too.     *)
ASSUME RoundTripChecked ==
  \A stored \in Lists(Stored, 2) :
    LET shown  == RedactSecretKeys(stored)
        keyed  == \A i \in DOMAIN stored : stored[i].key # NoKey
    IN  keyed =>
        /\ RestoreRedactedSecretKeys(shown, stored)
             = (IF IdentitiesDiffer(stored) THEN {stored} ELSE {})
        /\ RestoreRedactedSecretKeys(Reverse(shown), stored)
             = (IF IdentitiesDiffer(stored) THEN {Reverse(stored)} ELSE {})

(* A key is never that of another connection: the one it comes from has    *)
(* the same identity, and no other stored one has; and a connection that   *)
(* is given its id keeps its key.                                          *)
ASSUME RestoreChecked ==
  \A stored \in Lists(Stored, 2) :
  \A c \in {[s EXCEPT !.key = Redacted] : s \in Stored} :
    LET other == [c EXCEPT !.key = "k3", !.id = "z"]
        lists == {<<c>>, <<c, other>>, <<other, c>>}
    IN  \A list \in lists : \A i \in DOMAIN list :
          list[i] = c /\ RestoredKey(list, i, stored) # {} =>
            \E j \in DOMAIN stored :
              /\ RestoredKey(list, i, stored) = {stored[j].key}
              /\ \/ IdentityKey(stored[j]) = IdentityKey(c)
                 \/ LegacyIdentityKey(stored[j]) = LegacyIdentityKey(c)
              /\ \A k \in DOMAIN stored \ {j} :
                   IdentityKey(stored[k]) # IdentityKey(stored[j])

-----------------------------------------------------------------------------
Fields == PingFields \cup RefusedOnServer
            \cup {"udpAddress", "useValueDedup", "useCompactDeltas",
                  "useMsgpack", "epochBoundAuth", "authenticatedHeaders off"}
SomeFields == {PingFields \cup f : f \in SUBSET (Fields \ PingFields)}
                \cup {{"udpAddress"}, {"udpAddress", "useMsgpack"}}
Versions == {"none", "1", "2", "3", "basic", "advanced"}
SomeOptions == [server : BOOLEAN, fields : SomeFields, version : Versions]

(* What a request has accepted, sanitized, the next start accepts as it    *)
(* is, and sanitizing makes nothing legal illegal.                         *)
ASSUME SanitizeChecked ==
  \A o \in SomeOptions :
    LET s == SanitizeConnectionConfig(o)
    IN  /\ SanitizeConnectionConfig(s) = s
        /\ IsValidConnectionConfig(o) => IsValidConnectionConfig(s)
        /\ StartAccepts(o) <=> IsValidConnectionConfig(s)

(* A configuration is migrated if and only if the start accepts it, and is *)
(* accepted afterwards.                                                    *)
ASSUME MigrateChecked ==
  \A o \in SomeOptions :
    /\ MigrateAccepts(o) <=> StartAccepts(o)
    /\ StartAccepts(MigrateConfig(o)) <=> StartAccepts(o)

-----------------------------------------------------------------------------
(* Nothing is offered that saving it would discard. *)
ASSUME OfferedIsKept ==
  \A server, advanced \in BOOLEAN : \A version \in {"1", "3"} :
    LET kept(f) == SanitizeConnectionConfig(
                     [server |-> server, version |-> version, fields |-> f])
        form    == FormFields(server, version, advanced)
        admin   == AdminFields(server) \ PingFields
    IN  kept(form).fields = form /\ kept(admin).fields = admin

(* Without the alias "basic": Number("basic") < 2 is false, and a server   *)
(* of that version with useValueDedup, made a client, is refused for it    *)
(* while the form does not show it, until a version is chosen.             *)
FormOptions ==
  [server : BOOLEAN, version : Versions \ {"basic"},
   fields : {p \cup f : p \in {{}, PingFields},
               f \in SUBSET {"udpAddress", "useValueDedup", "useCompactDeltas",
                             "useMsgpack", "epochBoundAuth", "bonding",
                             "pathFilter"}}]

(* A change of the mode, of the version or of one field, in a form that    *)
(* still has the fields it does not show, or has lost them.                *)
Changes(conn, advanced) ==
  LET managed == FormFields(conn.server, conn.version, advanced)
      edits   == {[conn EXCEPT !.version = v] : v \in {"1", "3"}}
                   \cup {[conn EXCEPT !.fields = @ \cup {f}] : f \in managed}
                   \cup {[conn EXCEPT !.fields = @ \ {f}] : f \in managed}
  IN  edits \cup {[e EXCEPT !.fields = @ \cap managed] : e \in edits}
            \cup {[conn EXCEPT !.server = ~ @]}

(* No change leaves the connection with a field that is refused and that   *)
(* the form does not show; an edit keeps what the form does not show; and  *)
(* the settings of the paths survive a change of the mode and back.        *)
ASSUME FormChecked ==
  \A conn \in FormOptions : \A advanced \in BOOLEAN :
    LET there == HandleFormChange(conn, [conn EXCEPT !.server = ~ @], advanced)
        back  == HandleFormChange(there, [there EXCEPT !.server = ~ @], advanced)
    IN  /\ CanBeSaved(conn) =>
             \A next \in Changes(conn, advanced) :
               CanBeSaved(HandleFormChange(conn, next, advanced))
        /\ \A next \in Changes(conn, advanced) :
             next.server = conn.server =>
               conn.fields
                 \ (FormFields(conn.server, conn.version, advanced)
                       \cup GatedBy(conn.server, next.version))
                 \subseteq HandleFormChange(conn, next, advanced).fields
        /\ conn.fields \cap CommonFields \subseteq back.fields

-----------------------------------------------------------------------------
Fits(offers, ranges) ==
  /\ DOMAIN offers = DOMAIN ranges
  /\ \A k \in DOMAIN offers : \A i \in 1 .. 3 : InRange(offers[k][i], ranges[k])

(* What the forms offer is accepted, what they fill in at once as well. *)
ASSUME OffersChecked ==
  /\ Fits(RuleOffers, RuleRanges)
  /\ Fits(TimingOffers, TimingRanges)
  /\ Fits(PingOffers, PingRanges)
  /\ Fits(ClientReliabilityOffers, ReliabilityRanges(FALSE))
  /\ Fits(ServerReliabilityOffers, ReliabilityRanges(TRUE))
  /\ Fits(CongestionOffers, CongestionRanges)
  /\ Fits(FailoverOffers, FailoverRanges)
  /\ ReliabilityAccepted(Defaults(ClientReliabilityOffers), FALSE)
  /\ CongestionAccepted(Defaults(CongestionOffers))
  /\ LinksAccepted(OfferedLinks.primary, OfferedLinks.backup)
  /\ \A m \in DOMAIN AlertOffers : AlertAccepted(m, AlertOffers[m])

Agrees(offers, inEffect) ==
  \A k \in DOMAIN offers \cap DOMAIN inEffect : offers[k][2] = inEffect[k]

(* The defaults the forms show are what is in effect without a setting,    *)
(* but for the recovery burst, which is clamped.                           *)
ASSUME DefaultsChecked ==
  LET none == [k \in {} |-> 0]
      client == ReliabilityInEffect(none)
  IN  /\ Agrees(ClientReliabilityOffers,
                [client EXCEPT !.recoveryBurstSize = 100])
      /\ client.recoveryBurstSize = 20
      /\ Agrees(ServerReliabilityOffers, ServerReliabilityInEffect(none))
      /\ Agrees(FailoverOffers, FailoverInEffect(none))
      /\ LET b == CongestionInEffect(none)
         IN  Agrees(CongestionOffers, [minDeltaTimer |-> b.min,
               maxDeltaTimer |-> b.max, nominalDeltaTimer |-> b.nominal])

(* The groups that give some of the keys, each at an end of its range. *)
Corners(ranges) ==
  UNION {{g \in [given -> UNION {{ranges[k][1], ranges[k][2]} : k \in given}] :
            \A k \in given : g[k] \in {ranges[k][1], ranges[k][2]}} :
           given \in SUBSET DOMAIN ranges}

Pick(ranges, keys) == [k \in keys |-> ranges[k]]

(* Whatever accepted part of the bounds is given, the control law has the  *)
(* bounds it needs, and a millisecond is never lost in rounding.           *)
ASSUME CongestionChecked ==
  \A given \in Corners(CongestionRanges) : CongestionAccepted(given) =>
    /\ Law!BoundsOK(CongestionInEffect(given))
    /\ CongestionInEffect(given).min >= 50

(* A packet stays for retransmission at least retransmitMinAge and at most *)
(* the larger of the ages: the smaller retransmitMaxAge does not count     *)
(* where it alone is given and the default retransmitMinAge is larger.     *)
ASSUME AgesChecked ==
  \A given \in Corners(Pick(ReliabilityRanges(FALSE),
                 {"retransmitMinAge", "retransmitMaxAge", "ackIdleDrainAge",
                  "retransmitRttMultiplier"})) :
    ReliabilityAccepted(given, FALSE) =>
      LET s == ReliabilityInEffect(given)
          largest == IF s.retransmitMinAge > s.retransmitMaxAge
                     THEN s.retransmitMinAge ELSE s.retransmitMaxAge
      IN  /\ \A rtt \in {0, 1, 800, 100000}, idle \in {0, 10000, 300000} :
               EffectiveRetransmitAge(s, rtt, idle)
                 \in s.retransmitMinAge .. largest
          /\ s.retransmitMinAge > s.retransmitMaxAge =>
               "retransmitMinAge" \notin DOMAIN given

(* Recovery bursts, as many as fall into one window of the server's rate   *)
(* limit, never exceed it, for intervals up to the window.  One of a       *)
(* longer interval, which is accepted up to 5 s, does: from 2 s on.        *)
ASSUME BurstChecked ==
  \A interval \in 50 .. 5000 :
    LET size   == ClampedBurst(1000, interval)
        bursts == (UdpRateLimitWindow - 1) \div interval + 1
    IN  (bursts * size <= UdpRateLimitMaxPackets) <=> interval < 2010

=============================================================================
