\* User, importer and publisher while nothing fails: what is begun is finished.
SPECIFICATION FairPipelineSpec
CONSTANTS
  NoImage = NoImage
  NoName = NoName
  Entry <- MCEntry
  Dotted = {}
  Broken = {}
  Free = Free
  Orphaned = Orphaned
  NoJob = NoJob
  Procs = {user, importer, publisher}
  user = user
  importer = importer
  publisher = publisher
  Images = {i1}
  Variants = {v1, v2}
  Types = {"png"}
  NewImageBodies <- MCGoodNewImageBodies
  ImageBodies <- MCProtocolImageBodies
  DownloadBodies <- MCProtocolDownloadBodies
  Faults = {}
  ChanCap = 1
  MaxDeliveries = 2
INVARIANTS
  FirstReportsAreAccepted
  ImportsAreUnderWay
  PublicationsAreUnderWay
PROPERTIES
  Answered
  PublicationsReachKafka
  UploadsAreImported
  PublicationsAreCompleted
