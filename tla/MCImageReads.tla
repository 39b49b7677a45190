---------------------------- MODULE MCImageReads ----------------------------
(***************************************************************************)
(* Small instances of ImageReads for TLC.                                  *)
(***************************************************************************)
EXTENDS ImageReads, MCImageAPI

\* Bodies that carry links of their own, from clients that take an image past its
\* variants.
MCLinkedImageBodies ==
  {[ImageBodyOf(s) EXCEPT !.links = "foreign"] : s \in {"uploaded", "imported", "deleted"}}

MCLinkedDownloadBodies ==
  {[DownloadBodyOf(s, NoType) EXCEPT !.links = "foreign"] :
     s \in {"importing", "imported", "completed"}}

ImageVariantSymmetry == Permutations(Images) \cup Permutations(Variants)
=============================================================================
