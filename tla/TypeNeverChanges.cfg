\* Any clients, one request at a time, nothing fails.
SPECIFICATION FairSpec
CONSTANTS
  NoImage = NoImage
  NoName = NoName
  Entry <- MCEntry
  Dotted = {}
  Broken = {}
  Free = Free
  Orphaned = Orphaned
  Procs = {p1}
  Images = {i1}
  Variants = {v1}
  Types = {"png", "jpg"}
  NewImageBodies <- MCNewImageBodies
  ImageBodies <- MCImageBodies
  DownloadBodies <- MCDownloadBodies
  Faults = {}
  ChanCap = 1
PROPERTY TypeNeverChanges
