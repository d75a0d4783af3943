------------------------- MODULE MCMetadataPipeline -------------------------
(* Small instances of MetadataPipeline for TLC. *)
EXTENDS MetadataPipeline

Symmetric == Permutations(Changes)
=============================================================================
