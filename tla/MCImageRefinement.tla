-------------------------- MODULE MCImageRefinement --------------------------
(***************************************************************************)
(* A small instance of ImageRefinement for TLC.                            *)
(***************************************************************************)
EXTENDS ImageRefinement, MCImageAPI

\* Clients that upload an image, and report every state a variant may be stored
\* in, with its type.
MCUploadImageBodies == {ImageBodyOf("uploaded")}
MCTypedDownloadBodies ==
  {DownloadBodyOf(s, "png") : s \in {"importing", "imported", "completed", "failed"}}
=============================================================================
