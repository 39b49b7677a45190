\* Any clients, one request at a time, nothing fails, rewriting on.
SPECIFICATION ReadsSpec
CONSTANTS
  NoImage = NoImage
  NoName = NoName
  Entry <- MCEntry
  Dotted = {}
  Broken = {}
  Free = Free
  Orphaned = Orphaned
  Procs = {p1}
  Images = {i1}
  Variants = {v1}
  Types = {"png"}
  NewImageBodies <- MCGoodNewImageBodies
  ImageBodies <- MCProtocolImageBodies
  DownloadBodies <- MCProtocolDownloadBodies
  Faults = {}
  ChanCap = 1
  Readers = {c1}
  EnableURLRewriting = TRUE
  Unparsable = {}
INVARIANT MissingVariantIsNotFound
