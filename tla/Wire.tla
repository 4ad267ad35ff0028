-------------------------------- MODULE Wire --------------------------------
(***************************************************************************)
(* The packets of protocol v3 (src/codec/packet/): what a PacketBuilder    *)
(* writes into a header, and what a PacketParser and the dispatcher of the *)
(* server make of it.                                                      *)
(*                                                                         *)
(* A packet is the record of the fields that decide about its acceptance.  *)
(* The HMAC is the epoch it was computed over (0: over none): a tag        *)
(* verifies exactly when both ends use the same one, the key being shared. *)
(* Magic bytes, CRC and the declared length are one field, intact, which a *)
(* datagram loses when the network damages it.                             *)
(***************************************************************************)
EXTENDS Naturals

ControlTypes == {"ACK", "NAK", "HEARTBEAT", "HELLO", "META_REQUEST",
                 "FULL_STATUS_REQUEST"}
PayloadTypes == {"DATA", "METADATA"}
PacketTypes  == ControlTypes \cup PayloadTypes

(* What both peers are configured to: connection schema, same on each end. *)
AuthOptions == [authenticatedHeaders : BOOLEAN, epochBoundAuth : BOOLEAN]

(* The epoch a builder binds a packet to; HELLO establishes it and is      *)
(* never bound.                                                            *)
BoundEpoch(type, opts, epoch) ==
  IF type # "HELLO" /\ opts.epochBoundAuth THEN epoch ELSE 0

(* _buildPacket.  EPOCH_BOUND_AUTH is set iff boundEpoch > 0. *)
BuildPacket(type, sequence, opts, epoch) ==
  [type       |-> type,
   sequence   |-> sequence,
   authHeader |-> type \in PayloadTypes /\ opts.authenticatedHeaders,
   boundEpoch |-> BoundEpoch(type, opts, epoch),
   intact     |-> TRUE]

(* Which packets carry a tag that this parser verifies. *)
TagIsChecked(pkt, opts) ==
  pkt.type \in ControlTypes \/ opts.authenticatedHeaders

(* HELLO is exempt from the epoch requirement. *)
RequiresEpoch(pkt, opts) == pkt.type # "HELLO" /\ opts.epochBoundAuth

(* Defect: an epoch-bound tag is verified as if it were not bound. *)
AuthEpochIgnored(pkt, opts, epoch) == "ok"

(* _resolveAuthEpoch and the verification of the tag: a required binding   *)
(* that is missing, a binding to an epoch this end does not have, and a    *)
(* binding to another epoch are refused.                                   *)
AuthEpoch(pkt, opts, epoch) ==
  IF RequiresEpoch(pkt, opts) /\ pkt.boundEpoch = 0 THEN "notBound"
  ELSE IF pkt.boundEpoch > 0 /\ epoch = 0 THEN "noEpochYet"
  ELSE IF pkt.boundEpoch \notin {0, epoch} THEN "wrongTag"
  ELSE "ok"

(* parseHeader: what it throws, or "ok". *)
ParseHeader(pkt, opts, epoch) ==
  IF ~ pkt.intact THEN "malformed"
  ELSE IF ~ TagIsChecked(pkt, opts) THEN "ok"
  ELSE IF pkt.type \in PayloadTypes /\ ~ pkt.authHeader THEN "downgrade"
  ELSE AuthEpoch(pkt, opts, epoch)

(* isPacketAccepted: a peer that authenticates headers towards an end that *)
(* does not is refused.                                                    *)
IsPacketAccepted(pkt, opts) ==
  ~ (pkt.type \in PayloadTypes /\ pkt.authHeader
       /\ ~ opts.authenticatedHeaders)

(* The dispatcher hands the packet to the handler of its type. *)
PassesDispatcher(pkt, opts, epoch) ==
  ParseHeader(pkt, opts, epoch) = "ok" /\ IsPacketAccepted(pkt, opts)

=============================================================================
