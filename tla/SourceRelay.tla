---------------------------- MODULE SourceRelay ----------------------------
(***************************************************************************)
(* Whose value it is: the $source of an update on its way over a chain of  *)
(* links (src/codec/source-dispatch.ts, values-snapshot.ts), and the       *)
(* registry of the sources a server has seen (src/domain/                  *)
(* source-registry.ts).                                                    *)
(*                                                                         *)
(* A reference "label.sub" is the sequence <<label, sub>>, and << >> is    *)
(* none.  The plugin's own references are stale: the value came from       *)
(* elsewhere, and who published it is no longer known from the reference.  *)
(***************************************************************************)
EXTENDS Naturals, Sequences, SequencesExt, FiniteSetsExt

CONSTANTS
  RegistryMax,     \* SOURCE_REGISTRY_MAX_RECORDS
  RegistryTtl      \* SOURCE_REGISTRY_TTL_MS

ASSUME RegistryAssumption == RegistryMax \in Nat \ {0} /\ RegistryTtl \in Nat

EdgeLink == "signalk-edge-link"
NoRef    == << >>
NoSource == [label |-> "", subs |-> << >>]

(* isStaleEdgeLinkRef: the bare label, or "label." or "label:" something. *)
IsStaleEdgeLinkRef(ref) == ref # NoRef /\ ref[1] = EdgeLink

(* deriveSourceRefFromObject: the first of the sub-keys a source has; a    *)
(* bare label stays bare.                                                  *)
DeriveSourceRef(source) ==
  IF source.label = "" THEN NoRef
  ELSE LET subs == SelectSeq(source.subs, LAMBDA s : s # "")
       IN  IF subs = << >> THEN <<source.label>>
           ELSE <<source.label, Head(subs)>>

(* resolveSourceRef: a stale reference gives way to a fresh one only. *)
ResolveSourceRef(update) ==
  LET derived == DeriveSourceRef(update.source) IN
  IF update.ref = NoRef THEN derived
  ELSE IF ~ IsStaleEdgeLinkRef(update.ref) THEN update.ref
  ELSE IF derived = NoRef \/ IsStaleEdgeLinkRef(derived) THEN update.ref
  ELSE derived

(* prepareUpdateForDispatch: the reference the leaf is stored under.  The  *)
(* plugin's own values have one bucket only.                               *)
PreparedRef(update) ==
  LET ref == ResolveSourceRef(update)
  IN  IF IsStaleEdgeLinkRef(ref) /\ update.own THEN <<EdgeLink>> ELSE ref

(* normalizeDeltaSourceRefs: a stale reference is dropped if the source    *)
(* object has a label of its own.                                          *)
NormalizeSourceRef(update) ==
  IF /\ IsStaleEdgeLinkRef(update.ref)
     /\ update.source.label \notin {"", EdgeLink}
  THEN [update EXCEPT !.ref = NoRef] ELSE update

(* One hop: what a server does to an update before app.handleMessage,      *)
(* which files a value without a reference under the plugin's id.          *)
Hop(update) ==
  LET ref == PreparedRef(NormalizeSourceRef(update))
  IN  IF ref = NoRef THEN <<EdgeLink>> ELSE ref

-----------------------------------------------------------------------------
(* The values snapshot reads references from the tree, and source objects  *)
(* from its sources section: a function, here, on some of the references.  *)

(* resolveSource: without an entry, the label is that of the reference. *)
ResolveSource(ref, sources) ==
  IF ref \in DOMAIN sources THEN sources[ref]
  ELSE [label |-> ref[1], subs |-> << >>]

(* shouldSkipOwnInjectedLeaf *)
ShouldSkipOwnInjectedLeaf(ref, sources) ==
  /\ IsStaleEdgeLinkRef(ref)
  /\ ref \in DOMAIN sources => sources[ref].label \in {"", EdgeLink}

(* buildSnapshotDeltas *)
SnapshotUpdate(ref, own, sources) ==
  [ref |-> ref, source |-> ResolveSource(ref, sources), own |-> own]

-----------------------------------------------------------------------------
(* The registry: records in the order they were touched, which is a Map    *)
(* that is deleted from and set again.  A record stands for its identity   *)
(* by one field, and for the time of the update behind it.                 *)
(* createSourceKey is the reference, or the hash of the identity.          *)
Record(keys, labels, times) ==
  [key : keys, label : labels \cup {""}, at : times, seen : times]

Known(records, key) == {i \in DOMAIN records : records[i].key = key}

(* evictStaleAndOverflow: from the head, as far as the records are stale,  *)
(* then as far as there are too many.                                      *)
EvictStaleAndOverflow(records, now) ==
  LET Stale(i) == records[i].seen + RegistryTtl < now
      stale == Max({n \in 0 .. Len(records) : \A i \in 1 .. n : Stale(i)})
      live  == SubSeq(records, stale + 1, Len(records))
  IN  IF Len(live) <= RegistryMax THEN live
      ELSE SubSeq(live, Len(live) - RegistryMax + 1, Len(live))

(* chooseValue *)
ChooseValue(current, incoming, currentAt, incomingAt) ==
  IF incoming = "" THEN current
  ELSE IF current = "" \/ incomingAt >= currentAt THEN incoming
  ELSE current

(* upsertSingleUpdate: merged with the record it meets, and to the end.    *)
(* The time stored is the incoming one, the older one too.                 *)
UpsertSingleUpdate(records, u, now) ==
  LET old  == Known(records, u.key)
      kept == SelectSeq(records, LAMBDA r : r.key # u.key)
      label == IF old = {} THEN u.label
               ELSE LET r == records[CHOOSE i \in old : TRUE]
                    IN  ChooseValue(r.label, u.label, r.at, u.at)
  IN  EvictStaleAndOverflow(
        Append(kept, [key |-> u.key, label |-> label, at |-> u.at,
                      seen |-> now]), now)

=============================================================================
