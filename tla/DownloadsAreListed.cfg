\* Clients that keep to the protocol, one request at a time, nothing fails,
\* rewriting on; the name v2 is "<v1>.<something>".
SPECIFICATION ReadsSpec
CONSTANTS
  NoImage = NoImage
  NoName = NoName
  Entry <- MCEntry
  Dotted = {v2}
  Broken = {}
  Free = Free
  Orphaned = Orphaned
  Procs = {p1}
  Images = {i1}
  Variants = {v1, v2}
  Types = {"png"}
  NewImageBodies <- MCGoodNewImageBodies
  ImageBodies <- MCProtocolImageBodies
  DownloadBodies <- MCProtocolDownloadBodies
  Faults = {}
  ChanCap = 1
  Readers = {c1}
  EnableURLRewriting = TRUE
  Unparsable = {}
INVARIANT DownloadsAreListed
