\* User, importer and publisher, everything may fail and messages come twice.
SPECIFICATION PipelineSpec
CONSTANTS
  NoImage = NoImage
  NoName = NoName
  Entry <- MCEntry
  Dotted = {}
  Broken = {}
  Free = Free
  Orphaned = Orphaned
  NoJob = NoJob
  Procs = {user, importer, publisher}
  user = user
  importer = importer
  publisher = publisher
  Images = {i1}
  Variants = {v1, v2, v3}
  Types = {"png"}
  NewImageBodies <- MCGoodNewImageBodies
  ImageBodies <- MCProtocolImageBodies
  DownloadBodies <- MCProtocolDownloadBodies
  Faults = {"mongo", "marshal", "crash", "broker"}
  ChanCap = 1
  MaxDeliveries = 2
SYMMETRY VariantSymmetry
INVARIANTS
  PipelineTypeOK
  ImportedMeansEverything
