\* The handlers against the workflow: calls fail, but what was sent arrives; the
\* name v2 is "<v1>.<something>".
SPECIFICATION Spec
CONSTANTS
  NoImage = NoImage
  NoName = NoName
  Entry <- MCEntry
  Dotted = {v2}
  Broken = {}
  Free = Free
  Orphaned = Orphaned
  Procs = {p1, p2}
  Images = {i1}
  Variants = {v1, v2}
  Types = {"png"}
  NewImageBodies <- MCGoodNewImageBodies
  ImageBodies <- MCUploadImageBodies
  DownloadBodies <- MCTypedDownloadBodies
  Faults = {"mongo", "marshal"}
  ChanCap = 1
SYMMETRY ProcSymmetry
INVARIANT AnswersAreTrue
PROPERTY ImplementsWorkflow
