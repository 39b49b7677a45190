\* What the promise implies for clients that keep to the protocol.
SPECIFICATION Spec
CONSTANTS
  NoImage = NoImage
  NoName = NoName
  Entry <- MCPlainEntry
  Images = {i1}
  Variants = {v1, v2, v3}
  Types = {"png"}
  ClientStates = {"uploaded", "deleted"}
  ClientErrors = {FALSE}
  Reports = {"importing", "imported", "failed", "completed"}
  Lossy = TRUE
SYMMETRY VariantSymmetry
INVARIANTS
  WorkflowTypeOK
  PublicationsAreTrue
  StatesSummarise
\* An image may end in "deleted".
CHECK_DEADLOCK FALSE
