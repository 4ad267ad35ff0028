--------------------------- MODULE MCDeltaPipeline ---------------------------
(***************************************************************************)
(* Two leaves, a depth with a deadband and a name without any rule; and    *)
(* the pure parts of the pipeline, checked against what they are for, as   *)
(* assumptions that TLC evaluates.                                         *)
(***************************************************************************)
EXTENDS DeltaPipeline, SourceRelay, SourceSnapshot, TLC

(* A depth has been published before the connection starts. *)
MCFirstTree == [depth |-> [value |-> 0, at |-> 1],
                name  |-> [value |-> 0, at |-> 0]]

MCPathOf == [depth |-> <<"environment", "depth">>, name |-> <<"name">>]

MCPrecision == [depth |-> 1, name |-> 1]

MCRules == [depth |-> [interval |-> FALSE, deadband |-> 2],
            name  |-> [interval |-> FALSE, deadband |-> 0]]

MCFilter == [allow |-> {}, deny |-> {<<"navigation", "*">>}]

MCValuesOf == [depth |-> 1 .. 2, name |-> {0}]

-----------------------------------------------------------------------------
(* Paths of up to four segments. *)
Segments == {"networking", "edgeLink", "rtt", "id"}
SomePaths == UNION {[1 .. n -> Segments] : n \in 1 .. 4}

(* The plugin's own subtree is kept back but for the round-trip times, of  *)
(* the link or of one of its connections; everything else passes.          *)
ASSUME OwnDataChecked ==
  \A p \in SomePaths :
    IsOwnDataPath(p) <=>
      /\ Len(p) >= 2 /\ p[1] = "networking" /\ p[2] = "edgeLink"
      /\ Len(p) \in {3, 4} => p[Len(p)] # "rtt"

(* A glob stands for the paths below its prefix, not for the prefix. *)
ASSUME GlobChecked ==
  \A p, q \in SomePaths :
    Len(p) < 4 =>
      (PathMatchesGlob(q, Append(p, "*")) <=>
         Len(q) > Len(p) /\ SubSeq(q, 1, Len(p)) = p)

(* A rounded value is a multiple of the precision, at most half of it      *)
(* away, and rounding again changes nothing.                               *)
ASSUME RoundingChecked ==
  \A v \in -20 .. 20, unit \in 1 .. 6 :
    LET r == RoundTo(v, unit)
    IN  /\ r % unit = 0
        /\ 2 * Abs(r - v) <= unit
        /\ RoundTo(r, unit) = r

-----------------------------------------------------------------------------
Labels   == {"", EdgeLink, "gps"}
SomeRefs == {NoRef} \cup {<<l>> : l \in {EdgeLink, "boat"}}
                    \cup {<<l, "XX">> : l \in {EdgeLink, "boat"}}
SomeSources == [label : Labels, subs : {<< >>, <<"", "7">>, <<"can", "7">>}]
SomeUpdates == [ref : SomeRefs, source : SomeSources, own : BOOLEAN]

(* A fresh reference arrives as it was sent, over any number of hops, and  *)
(* what a hop has once given a fresh reference keeps it: a chain never     *)
(* goes back to the plugin's own.  Without a source object a reference     *)
(* passes unchanged.                                                       *)
ASSUME AttributionChecked ==
  \A u \in SomeUpdates :
    LET ref  == Hop(u)
        next == {Hop([ref |-> ref, source |-> s, own |-> u.own]) :
                   s \in {NoSource, [label |-> EdgeLink, subs |-> << >>]}}
    IN  /\ u.ref # NoRef /\ ~ IsStaleEdgeLinkRef(u.ref) => ref = u.ref
        /\ ~ IsStaleEdgeLinkRef(ref) => next = {ref}
        /\ u.own /\ IsStaleEdgeLinkRef(ref) => ref = <<EdgeLink>>

(* What a replay sends arrives under a fresh reference, also if the tree   *)
(* has it under one of the plugin's: those without an original are left    *)
(* out.                                                                    *)
ASSUME ReplayAttributionChecked ==
  \A ref \in SomeRefs \ {NoRef}, s \in SomeSources, b \in BOOLEAN :
    LET sources == IF b THEN (ref :> s) ELSE << >> IN
    ~ ShouldSkipOwnInjectedLeaf(ref, sources)
      => ~ IsStaleEdgeLinkRef(Hop(SnapshotUpdate(ref, FALSE, sources)))

-----------------------------------------------------------------------------
(* Three updates of two sources, each some time after the one before. *)
RegistryUpdates == [key : {"p", "q"}, label : {"a", "b"}, at : 1 .. 2,
                    wait : {0, 2}]

AfterUpdates(us) ==
  FoldLeft(LAMBDA s, u :
             [now |-> s.now + u.wait,
              records |-> UpsertSingleUpdate(s.records, u, s.now + u.wait)],
           [now |-> 0, records |-> << >>], us)

(* The records are bounded, one per source, in the order they were seen,   *)
(* which is what lets the eviction stop at the first one that is alive:    *)
(* none that is left is older than the TTL.                                *)
ASSUME RegistryChecked ==
  \A us \in UNION {[1 .. n -> RegistryUpdates] : n \in 1 .. 3} :
    LET s == AfterUpdates(us)
        r == s.records
    IN  /\ Len(r) <= RegistryMax
        /\ \A i \in DOMAIN r : r[i].seen + RegistryTtl >= s.now
        /\ \A i, j \in DOMAIN r : i < j => r[i].seen <= r[j].seen
                                           /\ r[i].key # r[j].key
        /\ Last(r).key = Last(us).key

(* Of two updates of a source the later one gives the label.  Of three it  *)
(* need not: the record takes over the time of an older update too.        *)
ASSUME LatestWinsOfTwo ==
  \A u, v \in RegistryUpdates :
    u.key = v.key /\ v.wait = 0 =>
      AfterUpdates(<<u, v>>).records[1].label
        = (IF v.at >= u.at THEN v.label ELSE u.label)

-----------------------------------------------------------------------------
TreePaths == {<<"a">>, <<"a", "x">>, <<"a", "y">>, <<"b">>}
SomeTrees == {t \in UNION {[P -> {1, 2, Empty}] : P \in SUBSET TreePaths} :
                IsTree(t)}

(* Chunks with any leaves of a tree, merged in either order, into any tree *)
(* of the receiver, leave it with every leaf of the incoming one, and the  *)
(* result does not depend on the order.                                    *)
ASSUME MergeChecked ==
  \A t, r \in SomeTrees :
    LET patches == FlattenSourcePatches(t)
        merged  == MergeChunk(r, patches)
    IN  /\ IsTree(merged)
        /\ MergeChunk(r, Reverse(patches)) = merged
        /\ MergeChunk(merged, patches) = merged
        /\ \A p \in DOMAIN t :
             t[p] # Empty => p \in DOMAIN merged /\ merged[p] = t[p]
        /\ r = << >> => merged = t

(* Whatever compression makes of a chunk, packing keeps the patches and    *)
(* their order, and no chunk that can still be cut is too long.            *)
ASSUME ChunkingChecked ==
  \A sizes \in UNION {[1 .. n -> 1 .. 3] : n \in 0 .. 5}, ratio \in 1 .. 4 :
    LET patches == [i \in DOMAIN sizes |-> <<i, sizes[i]>>]
        size    == [p \in Range(patches) |-> p[2]]
        packed  == [c \in {SubSeq(patches, i, j) : i, j \in DOMAIN patches}
                     |-> 1 + (SizeOf(c, size) * ratio) \div 2]
        chunks  == ChunkSourceSnapshot(patches, size, packed)
    IN  /\ FlattenSeq(chunks) = patches
        /\ \A i \in DOMAIN chunks :
             /\ chunks[i] # << >>
             /\ packed[chunks[i]] <= SafePayload \/ Len(chunks[i]) = 1

=============================================================================
