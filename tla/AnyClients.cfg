\* Clients that send any body to any endpoint, a store and marshallers that fail.
SPECIFICATION Spec
CONSTANTS
  NoImage = NoImage
  NoName = NoName
  Entry <- MCEntry
  Dotted = {}
  Broken = {}
  Free = Free
  Orphaned = Orphaned
  Procs = {p1, p2}
  Images = {i1}
  Variants = {v1}
  Types = {"png"}
  NewImageBodies <- MCNewImageBodies
  ImageBodies <- MCImageBodies
  DownloadBodies <- MCDownloadBodies
  Faults = {"mongo", "marshal"}
  ChanCap = 1
SYMMETRY ProcSymmetry
INVARIANTS
  TypeOK
  LockDiscipline
  NoLockLeftBehind
  NoStaleWrite
  DownloadsFollowUpload
  UploadAnnounced
  PublishedEventsMatch
PROPERTIES
  ImageStateMachine
  PublishedOnce
  UploadedOnce
