\* A reader next to clients that keep to the protocol, a store that fails.
SPECIFICATION ReadsSpec
CONSTANTS
  NoImage = NoImage
  NoName = NoName
  Entry <- MCEntry
  Dotted = {}
  Broken = {}
  Free = Free
  Orphaned = Orphaned
  Procs = {p1}
  Images = {i1}
  Variants = {v1, v2}
  Types = {"png"}
  NewImageBodies <- MCGoodNewImageBodies
  ImageBodies <- MCProtocolImageBodies
  DownloadBodies <- MCProtocolDownloadBodies
  Faults = {"mongo"}
  ChanCap = 1
  Readers = {c1}
  EnableURLRewriting = TRUE
  Unparsable = {}
SYMMETRY ImageVariantSymmetry
INVARIANTS
  ReadsTypeOK
  SeenStaysTrue
PROPERTY ListIsFinal
