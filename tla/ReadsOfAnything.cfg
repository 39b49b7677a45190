\* Links in the bodies of clients that keep to no order.  The name v2 is "<v1>.<something>"; v3, as
\* "%.", makes no URL and no path in the database.
SPECIFICATION ReadsSpec
CONSTANTS
  NoImage = NoImage
  NoName = NoName
  Entry <- MCEntry
  Dotted = {v2}
  Broken = {v3}
  Free = Free
  Orphaned = Orphaned
  Procs = {p1}
  Images = {i1}
  Variants = {v1, v2, v3}
  Types = {"png"}
  NewImageBodies <- MCGoodNewImageBodies
  ImageBodies <- MCLinkedImageBodies
  DownloadBodies <- MCLinkedDownloadBodies
  Faults = {"marshal"}
  ChanCap = 1
  Readers = {c1}
  EnableURLRewriting = TRUE
  Unparsable = {v3}
INVARIANTS
  LinksAreOwn
  ReadsAreServed
