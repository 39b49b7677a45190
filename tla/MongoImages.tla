---------------------------- MODULE MongoImages ----------------------------
(***************************************************************************)
(* The Mongo store (package mongo): the images collection and the lock     *)
(* collection, which every instance of the API shares.  Every write is a   *)
(* $set, which leaves alone the fields it does not name, and the bson tags *)
(* (omitempty) keep the empty fields of a model out of it.                 *)
(*                                                                         *)
(* The database driver and the lock library are not part of the            *)
(* repository: one call is one atomic step on one document, and a lock is  *)
(* what mongo.go says it is, exclusive and held until it is released.      *)
(***************************************************************************)
EXTENDS ImageModels

CONSTANTS
  Images,     \* image identifiers
  Procs,      \* the requests in flight, of all the instances together
  NoImage,    \* no document with this identifier
  Free,       \* the value of a lock nobody holds
  Orphaned    \* the value of a lock whose holder is gone without unlocking

ASSUME NoImageIsNoDocument == NoImage \notin Image

ASSUME LockValuesDiffer == Free # Orphaned /\ Free \notin Procs /\ Orphaned \notin Procs

VARIABLES
  images,     \* the images collection
  locks       \* the lock collection

mongoVars == <<images, locks>>

InitMongo ==
  /\ images = [id \in Images |-> NoImage]
  /\ locks = [id \in Images |-> Free]

MongoTypeOK ==
  /\ images \in [Images -> Image \cup {NoImage}]
  /\ locks \in [Images -> Procs \cup {Free, Orphaned}]

----------------------------------------------------------------------------
(* What the two writes make of the document stored before.                 *)

\* UpsertImage: a $set of the whole model.  A map of downloads that is not
\* empty replaces the stored one, an empty one leaves it alone.
Upserted(stored, image) ==
  IF stored = NoImage THEN image
  ELSE [state     |-> IF image.state # "" THEN image.state ELSE stored.state,
        error     |-> stored.error \/ image.error,
        links     |-> IF image.links # "none" THEN image.links ELSE stored.links,
        downloads |-> IF DOMAIN image.downloads # {} THEN image.downloads
                      ELSE stored.downloads]

\* createImageUpdateQuery: every non-empty field of the update is set on its
\* own, those of a download by the path "downloads.<variant>.<field>".  The
\* links of the image are not among them.  The path of a name with a dot leads
\* past the variant into the entry before the dot, which is made if it is not
\* there and of which the model has no field for what is set.
UpdatedDownload(stored, download) ==
  [state |-> IF download.state # "" THEN download.state ELSE stored.state,
   type  |-> IF download.type # NoType THEN download.type ELSE stored.type,
   links |-> IF download.links # "none" THEN download.links ELSE stored.links]

\* The entry of a map of downloads, or what the database makes of nothing.
EntryOf(downloads, v) == IF v \in DOMAIN downloads THEN downloads[v] ELSE EmptyDownload

Updated(stored, image) ==
  [state     |-> IF image.state # "" THEN image.state ELSE stored.state,
   error     |-> stored.error \/ image.error,
   links     |-> stored.links,
   downloads |->
     [v \in DOMAIN stored.downloads \cup {Entry[w] : w \in DOMAIN image.downloads} |->
        IF v \in DOMAIN image.downloads /\ Entry[v] = v
        THEN UpdatedDownload(EntryOf(stored.downloads, v), image.downloads[v])
        ELSE EntryOf(stored.downloads, v)]]

----------------------------------------------------------------------------
(* The operations of the store.                                            *)

\* The write of a document, and the write that answers an error although the
\* database may have applied it.
Put(id, image) == images' = [images EXCEPT ![id] = image]
PutFails(id, image) == Put(id, image) \/ UNCHANGED images

\* Mutant: the lock is taken over from its holder.
TakeImageLock(p, id) == locks' = [locks EXCEPT ![id] = p]

\* AcquireImageLock: blocks until the lock is free.
AcquireImageLock(p, id) ==
  /\ locks[id] = Free
  /\ locks' = [locks EXCEPT ![id] = p]

\* UnlockImage, by lock identifier: it touches no lock but the caller's own.
UnlockImage(p, id) ==
  locks' = [locks EXCEPT ![id] = IF @ = p THEN Free ELSE @]

\* The unlock never reaches the database, or the holder is gone.
LoseLock(p, id) ==
  locks' = [locks EXCEPT ![id] = IF @ = p THEN Orphaned ELSE @]

\* Mutant: the lock library gives up a lock whose holder is alive.
ReleaseAnyLock(id) ==
  /\ locks[id] # Free
  /\ locks' = [locks EXCEPT ![id] = Free]

\* The lock library gives up an orphaned lock.
ReleaseOrphan(id) ==
  /\ locks[id] = Orphaned
  /\ locks' = [locks EXCEPT ![id] = Free]
=============================================================================
