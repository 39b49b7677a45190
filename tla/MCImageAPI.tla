----------------------------- MODULE MCImageAPI -----------------------------
(***************************************************************************)
(* Small instances of ImageAPI for TLC: the request bodies of several      *)
(* kinds of clients.                                                       *)
(***************************************************************************)
EXTENDS DocumentedBehaviour, TLC

CONSTANTS
  Dotted,   \* the names with a dot, as "a.b"
  Broken    \* those with an empty part, as "a."

\* The part of every dotted name before its dot is one and the same plain name.
MCEntry ==
  [v \in Variants |->
     IF v \in Broken THEN NoName
     ELSE IF v \in Dotted THEN CHOOSE w \in Variants : w \notin Dotted \cup Broken
     ELSE v]

NewBody == [json |-> TRUE, longFilename |-> FALSE, state |-> "created", collection |-> TRUE]

\* POST /images: a good body, one that is not JSON, and two that fail a check.
MCNewImageBodies ==
  {NewBody,
   [NewBody EXCEPT !.json = FALSE],
   [NewBody EXCEPT !.state = "uploaded"],
   [NewBody EXCEPT !.collection = FALSE]}

\* POST /images from clients that never get it wrong.
MCGoodNewImageBodies == {NewBody}

ImageBodyOf(s) ==
  [json |-> TRUE, otherId |-> FALSE, longFilename |-> FALSE, state |-> s,
   upload |-> "complete", error |-> FALSE, links |-> "none"]

\* PUT /images/{id}: every state and none, and bodies that fail a check.
MCImageBodies ==
  {ImageBodyOf(s) : s \in State \cup {""}}
  \cup {[ImageBodyOf("deleted") EXCEPT !.otherId = TRUE],
        [ImageBodyOf("deleted") EXCEPT !.longFilename = TRUE],
        [ImageBodyOf("deleted") EXCEPT !.error = TRUE],
        [ImageBodyOf("uploaded") EXCEPT !.upload = "absent"],
        [ImageBodyOf("uploaded") EXCEPT !.upload = "no_path"]}

\* PUT /images/{id} from clients that leave the states past "uploaded" to the
\* API: they upload an image and delete it.
MCProtocolImageBodies == {ImageBodyOf("uploaded"), ImageBodyOf("deleted")}

DownloadBodyOf(s, t) ==
  [json |-> TRUE, otherId |-> FALSE, state |-> s, type |-> t, links |-> "none"]

\* POST and PUT of a download variant: every state, with and without a type,
\* an unknown one, and a body for another variant.
MCDownloadBodies ==
  {DownloadBodyOf(s, t) : s \in DownloadState \cup {"", "unknown"}, t \in Types}
  \cup {DownloadBodyOf("imported", NoType),
        [DownloadBodyOf("imported", NoType) EXCEPT !.otherId = TRUE]}

\* An importer that creates variants and reports them imported or failed, and a
\* publisher that reports them completed.
MCProtocolDownloadBodies ==
  {DownloadBodyOf(s, NoType) : s \in {"importing", "imported", "failed", "completed"}}

ProcSymmetry == Permutations(Procs)
ProcVariantSymmetry == Permutations(Procs) \cup Permutations(Variants \ (Dotted \cup Broken))
=============================================================================
