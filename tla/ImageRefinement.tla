--------------------------- MODULE ImageRefinement ---------------------------
(***************************************************************************)
(* The handlers implement the workflow: through their locks, their calls   *)
(* and the failures of these, each write of a document is one atomic step  *)
(* of the workflow taken from the document as it is, and every event they  *)
(* hand to Kafka is one the workflow may announce.                         *)
(***************************************************************************)
EXTENDS ImageAPI

\* The collections stand for themselves, what the producers have accepted for
\* what is announced; every other variable is hidden.
Workflow ==
  INSTANCE ImageWorkflow
  WITH uploads      <- Uploaded!Accepted,
       publications <- Published!Accepted,
       ClientStates <- {body.state : body \in ImageBodies},
       ClientErrors <- {body.error : body \in ImageBodies},
       Reports      <- {body.state : body \in DownloadBodies},
       Lossy        <- Faults \cap {"broker", "crash"} # {}

\* Every behaviour of the handlers, with any interleaving of requests, failures
\* and crashes, is one of the workflow: no update is applied to a document that
\* another request has changed since it was read, and no event is sent for what
\* is not stored.
ImplementsWorkflow == Workflow!Spec
=============================================================================
