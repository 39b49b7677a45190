--------------------------- MODULE MCImagePipeline ---------------------------
(***************************************************************************)
(* A small instance of ImagePipeline for TLC; the bodies of its requests   *)
(* are those of the clients of MCImageAPI that keep to the protocol.       *)
(***************************************************************************)
EXTENDS ImagePipeline, MCImageAPI

VariantSymmetry == Permutations(Variants)
=============================================================================
