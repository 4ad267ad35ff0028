--------------------------- MODULE SourceSnapshot ---------------------------
(***************************************************************************)
(* The sources section of the tree as a whole: cut into patches and packed *)
(* into datagrams by the client (src/transport/pipeline/reliable-client/   *)
(* source-snapshot.ts), merged into its own tree by the server             *)
(* (src/codec/source-snapshot.ts).                                         *)
(*                                                                         *)
(* A tree is the function from the paths of its leaves to their values;    *)
(* Empty is the value of an object without entries.                        *)
(***************************************************************************)
EXTENDS Naturals, Sequences, SequencesExt, FiniteSets, FiniteSetsExt

CONSTANTS
  Empty,
  SafePayload,       \* MAX_SAFE_UDP_PAYLOAD
  BudgetFactor       \* SOURCE_SNAPSHOT_COMPRESSION_BUDGET_FACTOR

(* No leaf of a tree is below another. *)
IsTree(t) ==
  \A p, q \in DOMAIN t : IsPrefix(p, q) => p = q

(* mergePlain and mergeSourcePatch, for one leaf of the incoming tree: it  *)
(* replaces what is at its path, and an object replaces a leaf above it;   *)
(* an object without entries leaves an object as it is.                    *)
MergeLeaf(t, p, v) ==
  LET below == {q \in DOMAIN t : IsPrefix(p, q) /\ q # p}
      above == {q \in DOMAIN t : IsPrefix(q, p) /\ q # p}
      kept  == DOMAIN t \ (below \cup above \cup {p})
  IN  IF v = Empty /\ below # {} THEN t
      ELSE [q \in kept \cup {p} |-> IF q = p THEN v ELSE t[q]]

(* mergeSourceSnapshot: the leaves of a chunk, in their order. *)
MergeChunk(t, chunk) ==
  FoldLeft(LAMBDA acc, leaf : MergeLeaf(acc, leaf[1], leaf[2]), t, chunk)

-----------------------------------------------------------------------------
(* A patch is <<path, value>>; size[patch] is its serialized length, and   *)
(* packed[chunk] the length of the datagram that holds a chunk.            *)

(* flattenSourcePatches, in some order of the entries. *)
FlattenSourcePatches(t) == SetToSeq({<<p, t[p]>> : p \in DOMAIN t})

SizeOf(chunk, size) ==
  FoldLeft(LAMBDA n, patch : n + size[patch], 0, chunk)

(* packPatchesIntoChunks: filled greedily, by the estimate. *)
PackPatches(patches, size) ==
  FoldLeft(
    LAMBDA chunks, patch :
      IF chunks # << >> /\ SizeOf(Last(chunks), size) + size[patch]
                             <= SafePayload * BudgetFactor
      THEN Append(Front(chunks), Append(Last(chunks), patch))
      ELSE Append(chunks, <<patch>>),
    << >>, patches)

Oversized(chunks, packed) ==
  {i \in DOMAIN chunks : packed[chunks[i]] > SafePayload /\ Len(chunks[i]) > 1}

(* A chunk is cut in two, the first half the larger. *)
Halved(chunks, i) ==
  LET c == chunks[i]
      m == (Len(c) + 1) \div 2
  IN  SubSeq(chunks, 1, i - 1)
        \o <<SubSeq(c, 1, m), SubSeq(c, m + 1, Len(c))>>
        \o SubSeq(chunks, i + 1, Len(chunks))

(* The loop of chunkSourceSnapshot, which ends after n rounds at most: the *)
(* first chunk that is too long is cut in two, and all are built anew.     *)
SplitWhileOversized(chunks, n, packed) ==
  LET f[k \in 0 .. n] ==
        IF k = 0 THEN chunks
        ELSE LET over == Oversized(f[k - 1], packed)
             IN  IF over = {} THEN f[k - 1] ELSE Halved(f[k - 1], Min(over))
  IN  f[n]

(* chunkSourceSnapshot *)
ChunkSourceSnapshot(patches, size, packed) ==
  SplitWhileOversized(PackPatches(patches, size), Len(patches), packed)

=============================================================================
