---------------------------- MODULE OutboundRules ----------------------------
(***************************************************************************)
(* What a value must pass on its way from the Signal K tree to the wire    *)
(* (src/codec/delta-sanitizer.ts, delta-sanitizer/*.ts): sanitize, strip   *)
(* own data, path filter, quantize, throttle.                              *)
(*                                                                         *)
(* Every stage decides about one value entry after the other; an update    *)
(* without entries and a delta without updates are dropped.  So the stages *)
(* are operators on an entry.  A path is the sequence of its segments, a   *)
(* glob a path that may end in "*".                                        *)
(***************************************************************************)
EXTENDS Integers, Sequences, SequencesExt

CONSTANT ThrottleMax      \* PATH_THROTTLE_STATE_MAX

ASSUME ThrottleAssumption == ThrottleMax \in Nat \ {0}

(* isValidValuePath *)
IsValidPath(path) == path # << >>

-----------------------------------------------------------------------------
(* RTT_PATH_RE: networking.modem.rtt and networking.edgeLink.rtt, with or  *)
(* without the id of a connection.                                         *)
IsRttPath(path) ==
  /\ Len(path) \in {3, 4}
  /\ path[1] = "networking"
  /\ path[2] \in {"modem", "edgeLink"}
  /\ Last(path) = "rtt"

(* isOwnDataPath *)
IsOwnDataPath(path) ==
  IsPrefix(<<"networking", "edgeLink">>, path) /\ ~ IsRttPath(path)

-----------------------------------------------------------------------------
(* pathMatchesGlob: "a.*" matches what is below a, and not a itself. *)
PathMatchesGlob(path, glob) ==
  \/ glob = <<"*">>
  \/ Last(glob) = "*" /\ IsStrictPrefix(Front(glob), path)
  \/ Last(glob) # "*" /\ path = glob

(* isPathAllowed: deny narrows what allow lets through. *)
IsPathAllowed(path, filter) ==
  /\ filter.allow # {} => \E g \in filter.allow : PathMatchesGlob(path, g)
  /\ \A g \in filter.deny : ~ PathMatchesGlob(path, g)

-----------------------------------------------------------------------------
Abs(n) == IF n < 0 THEN -n ELSE n

(* roundTo: Math.round of v in units of the precision, which rounds a half *)
(* up, also below zero (\div rounds down).                                 *)
RoundTo(v, unit) == unit * ((2 * v + unit) \div (2 * unit))

-----------------------------------------------------------------------------
(* PathThrottleState.lastSent, a Map in insertion order: what was recorded *)
(* last for a key, and whether its minIntervalMs is still running.         *)
ThrottleEntry(keys, values) == [key : keys, value : values, fresh : BOOLEAN]

Lasts(lastSent, key) == {i \in DOMAIN lastSent : lastSent[i].key = key}

(* shouldDropValue; the rule is [interval : BOOLEAN, deadband : Nat], with *)
(* deadband 0 for none.                                                    *)
ShouldDropValue(lastSent, key, value, rule) ==
  \E i \in Lasts(lastSent, key) :
    \/ rule.interval /\ lastSent[i].fresh
    \/ rule.deadband > 0 /\ Abs(value - lastSent[i].value) < rule.deadband

(* recordSentValue: the key moves to the end; a new one evicts the first. *)
RecordSentValue(lastSent, key, value) ==
  LET kept == IF Lasts(lastSent, key) # {}
              THEN RemoveAt(lastSent, CHOOSE i \in Lasts(lastSent, key) : TRUE)
              ELSE IF Len(lastSent) >= ThrottleMax THEN Tail(lastSent)
              ELSE lastSent
  IN  Append(kept, [key |-> key, value |-> value, fresh |-> TRUE])

=============================================================================
