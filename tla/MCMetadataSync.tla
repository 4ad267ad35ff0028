--------------------------- MODULE MCMetadataSync ---------------------------
(***************************************************************************)
(* Two keys, one of them the vessel's own; one entry per packet, so that a *)
(* snapshot has two chunks.                                                *)
(***************************************************************************)
EXTENDS MetadataSync

CONSTANTS k1, k2, v1, v2

=============================================================================
