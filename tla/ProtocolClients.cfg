\* Clients that keep to the protocol, two variants with names and one whose name
\* makes no path in the database, and everything may fail.
SPECIFICATION Spec
CONSTANTS
  NoImage = NoImage
  NoName = NoName
  Entry <- MCEntry
  Dotted = {}
  Broken = {v3}
  Free = Free
  Orphaned = Orphaned
  Procs = {p1, p2}
  Images = {i1}
  Variants = {v1, v2, v3}
  Types = {"png"}
  NewImageBodies <- MCGoodNewImageBodies
  ImageBodies <- MCProtocolImageBodies
  DownloadBodies <- MCProtocolDownloadBodies
  Faults = {"mongo", "marshal", "crash", "broker"}
  ChanCap = 1
SYMMETRY ProcVariantSymmetry
INVARIANTS
  NoStaleWrite
  ImageSummarisesDownloads
PROPERTIES
  DownloadStateMachine
