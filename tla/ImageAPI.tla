------------------------------ MODULE ImageAPI ------------------------------
(***************************************************************************)
(* The handlers that change an image (package api, in publishing mode),    *)
(* run by any number of instances over one Mongo store and two Kafka       *)
(* producers.  A process p is the slot of one request in flight.           *)
(*                                                                         *)
(* A handler is cut where it calls the store or a producer, because other  *)
(* requests run between two such calls.  pc[p] names the call p makes      *)
(* next; what p does between two calls is part of the step before.         *)
(*                                                                         *)
(*   insert                                  createImage                   *)
(*   lock get [sendUploaded] write unlock    updateImage                   *)
(*   lock get write unlock                   createDownload, updateDownload*)
(*   lock get write announce.. unlock        publish                       *)
(*                                                                         *)
(* A request refused before the lock goes to "answered", one refused under *)
(* the lock to "unlock", the deferred call.                                *)
(***************************************************************************)
EXTENDS MongoImages, Naturals, Sequences

CONSTANTS
  NewImageBodies,   \* bodies clients send to POST /images
  ImageBodies,      \* bodies clients send to PUT /images/{id}
  DownloadBodies,   \* bodies clients send to POST and PUT .../downloads
  Faults,           \* the kinds of failure that may happen
  ChanCap           \* events a producer holds undelivered

\* A request body: whether it is JSON, whether it carries an identifier other
\* than the path's, and the fields of the model the handlers decide on.
NewImageBody == [json : BOOLEAN, longFilename : BOOLEAN, state : StateField,
                 collection : BOOLEAN]
ImageBody    == [json : BOOLEAN, otherId : BOOLEAN, longFilename : BOOLEAN,
                 state : StateField, upload : UploadSection, error : BOOLEAN,
                 links : {"none", "foreign"}]
DownloadBody == [json : BOOLEAN, otherId : BOOLEAN, state : DownloadStateField,
                 type : Types \cup {NoType}, links : {"none", "foreign"}]

ASSUME BodiesAreBodies ==
  /\ NewImageBodies \subseteq NewImageBody
  /\ ImageBodies \subseteq ImageBody
  /\ DownloadBodies \subseteq DownloadBody

\* "mongo": a call to the store returns an error; "marshal": an event does not
\* marshal; "crash": an instance stops; "broker": a delivery fails.
ASSUME FaultsAreKnown == Faults \subseteq {"mongo", "marshal", "crash", "broker"}

ASSUME ChanCapIsPositive == ChanCap \in Nat \ {0}

Request ==
  [op : {"createImage"}, id : Images, body : NewImageBodies]
  \cup [op : {"updateImage"}, id : Images, body : ImageBodies]
  \cup [op : {"createDownload", "updateDownload"}, id : Images,
        variant : Variants, body : DownloadBodies]
  \cup [op : {"publish"}, id : Images]

NoRequest == [op |-> "none"]

VARIABLES
  pc,              \* the call each process makes next
  req,             \* the request it handles
  existing,        \* the document its GetImage read
  unsent,          \* the variants whose published event it has still to send
  answer,          \* the HTTP status it has settled on, 0 while it has none
  uploadedOut, uploadedTopic,     \* the producer of image-uploaded events
  publishedOut, publishedTopic    \* the producer of static-file-published events

Uploaded  == INSTANCE EventProducer
             WITH Event <- Images, out <- uploadedOut, topic <- uploadedTopic
Published == INSTANCE EventProducer
             WITH Event <- Images \X Variants, out <- publishedOut, topic <- publishedTopic

uploadedVars  == <<uploadedOut, uploadedTopic>>
publishedVars == <<publishedOut, publishedTopic>>
kafkaVars     == <<uploadedVars, publishedVars>>
handlerVars   == <<pc, req, existing, unsent, answer>>
vars          == <<mongoVars, handlerVars, kafkaVars>>

Label == {"idle", "insert", "lock", "get", "sendUploaded", "write", "announce",
          "unlock", "answered"}

Init ==
  /\ InitMongo
  /\ Uploaded!Init
  /\ Published!Init
  /\ pc = [p \in Procs |-> "idle"]
  /\ req = [p \in Procs |-> NoRequest]
  /\ existing = [p \in Procs |-> NoImage]
  /\ unsent = [p \in Procs |-> {}]
  /\ answer = [p \in Procs |-> 0]

----------------------------------------------------------------------------
(* Errors.                                                                 *)

ReadJSONBody(body) == Refuse(~body.json, "ErrUnableToParseJSON")

\* handleError: the status of each error; an error it does not list is a 500.
NotFound   == {"ErrImageNotFound", "ErrVariantNotFound"}
BadRequest == {"ErrUnableToParseJSON", "ErrImageFilenameTooLong", "ErrImageNoCollectionID",
               "ErrImageInvalidState", "ErrImageDownloadTypeMismatch",
               "ErrImageDownloadInvalidState", "ErrImageIDMismatch", "ErrVariantIDMismatch"}
Forbidden  == {"ErrImageAlreadyPublished", "ErrImageAlreadyCompleted",
               "ErrImageStateTransitionNotAllowed", "ErrImageBadInitialState",
               "ErrImageNotImporting", "ErrImageNotPublished", "ErrVariantAlreadyExists",
               "ErrVariantStateTransitionNotAllowed", "ErrImageDownloadBadInitialState"}

Status(error) == CASE error \in NotFound   -> 404
                   [] error \in BadRequest -> 400
                   [] error \in Forbidden  -> 403
                   [] OTHER                -> 500

\* The checks on a body, before anything is read.
CheckNewImage(body) ==
  ReadJSONBody(body)
  ?? Validate([longFilename |-> body.longFilename, state |-> body.state, upload |-> "absent"])
  ?? Refuse(body.state # "created", "ErrImageBadInitialState")
  ?? Refuse(~body.collection, "ErrImageNoCollectionID")

CheckImage(body) ==
  ReadJSONBody(body)
  ?? Validate(body)
  ?? Refuse(body.otherId, "ErrImageIDMismatch")

CheckNewDownload(body) ==
  ReadJSONBody(body)
  ?? ValidateDownload(body)
  ?? Refuse(body.state # "importing", "ErrImageDownloadBadInitialState")

CheckDownload(body) ==
  ReadJSONBody(body)
  ?? Refuse(body.otherId, "ErrVariantIDMismatch")
  ?? ValidateDownload(body)

\* The checks against the document read under the lock.
\* Mutant: the state of the image is not checked.
CheckNewVariantOnly(r, image) ==
  Refuse(r.variant \in DOMAIN image.downloads, "ErrVariantAlreadyExists")

CheckNewVariant(r, image) ==
  ValidateForImage(r.body, image)
  ?? Refuse(r.variant \in DOMAIN image.downloads, "ErrVariantAlreadyExists")

CheckVariant(r, image) ==
  IF r.variant \notin DOMAIN image.downloads THEN "ErrVariantNotFound"
  ELSE ValidateForImage(r.body, image)
       ?? ValidateDownloadTransitionFrom(r.body, image.downloads[r.variant])

CheckPublishable(image) ==
  Refuse(~StateTransitionAllowed(image, "published"), "ErrImageStateTransitionNotAllowed")

CheckAgainst(r, image) ==
  CASE r.op = "updateImage"    -> ValidateTransitionFrom(r.body, image)
    [] r.op = "createDownload" -> CheckNewVariant(r, image)
    [] r.op = "updateDownload" -> CheckVariant(r, image)
    [] r.op = "publish"        -> CheckPublishable(image)

----------------------------------------------------------------------------
(* A request arrives and its body is checked.                              *)

Goto(p, label) == pc' = [pc EXCEPT ![p] = label]
Settle(p, label, status) == Goto(p, label) /\ answer' = [answer EXCEPT ![p] = status]

Receive(p, r, error, label) ==
  /\ pc[p] = "idle"
  /\ req' = [req EXCEPT ![p] = r]
  /\ \/ error = NoError /\ Goto(p, label) /\ UNCHANGED answer
     \/ error # NoError /\ Settle(p, "answered", Status(error))
  /\ UNCHANGED <<existing, unsent, mongoVars, kafkaVars>>

\* NewID draws an identifier nobody has used.
Unused(id) == images[id] = NoImage /\ \A q \in Procs : pc[q] = "insert" => req[q].id # id

CreateImageHandler(p) == \E id \in Images, body \in NewImageBodies :
  /\ Unused(id)
  /\ Receive(p, [op |-> "createImage", id |-> id, body |-> body], CheckNewImage(body), "insert")

UpdateImageHandler(p) == \E id \in Images, body \in ImageBodies :
  Receive(p, [op |-> "updateImage", id |-> id, body |-> body], CheckImage(body), "lock")

CreateDownloadHandler(p) == \E id \in Images, v \in Variants, body \in DownloadBodies :
  Receive(p, [op |-> "createDownload", id |-> id, variant |-> v, body |-> body],
          CheckNewDownload(body), "lock")

\* The route of a variant needs a name.
UpdateDownloadHandler(p) == \E id \in Images, v \in Variants \ {NoName}, body \in DownloadBodies :
  Receive(p, [op |-> "updateDownload", id |-> id, variant |-> v, body |-> body],
          CheckDownload(body), "lock")

PublishImageHandler(p) == \E id \in Images :
  Receive(p, [op |-> "publish", id |-> id], NoError, "lock")

----------------------------------------------------------------------------
(* The calls to the store.                                                 *)

\* The URLs that url.Builder makes of identifiers; whose they are is all that
\* matters here.
createLinksForImage    == "own"
createLinksForDownload == "own"

NewImage ==
  [state |-> "created", error |-> FALSE, links |-> createLinksForImage, downloads |-> NoDownloads]

InsertImage(p) ==
  /\ pc[p] = "insert"
  /\ LET id == req[p].id
         new == Upserted(images[id], NewImage)
     IN  \/ Put(id, new) /\ Settle(p, "answered", 201)
         \/ "mongo" \in Faults /\ PutFails(id, new) /\ Settle(p, "answered", 500)
  /\ UNCHANGED <<locks, req, existing, unsent, kafkaVars>>

Lock(p) ==
  /\ pc[p] = "lock"
  /\ AcquireImageLock(p, req[p].id)
  /\ Goto(p, "get")
  /\ UNCHANGED <<images, req, existing, unsent, answer, kafkaVars>>

\* Mutant: the error of AcquireImageLock is ignored.
GoOnWithoutLock(p) ==
  /\ "mongo" \in Faults
  /\ pc[p] = "lock"
  /\ Goto(p, "get")
  /\ UNCHANGED <<req, existing, unsent, answer, mongoVars, kafkaVars>>

LockFails(p) ==
  /\ "mongo" \in Faults
  /\ pc[p] = "lock"
  /\ Settle(p, "answered", 500)
  /\ UNCHANGED <<req, existing, unsent, mongoVars, kafkaVars>>

\* Where a request goes once its document is read and its checks have passed.
AfterGet(r) ==
  IF r.op = "updateImage" /\ r.body.state = "uploaded" THEN "sendUploaded" ELSE "write"

\* Mutant: a refusal returns without the unlock.
RefuseWithoutUnlock(p) ==
  /\ pc[p] = "get"
  /\ LET image == images[req[p].id]
         error == IF image = NoImage THEN "ErrImageNotFound" ELSE CheckAgainst(req[p], image)
     IN  \/ /\ error = NoError
            /\ existing' = [existing EXCEPT ![p] = image]
            /\ Goto(p, AfterGet(req[p]))
            /\ UNCHANGED answer
         \/ /\ error # NoError
            /\ Settle(p, "answered", Status(error))
            /\ UNCHANGED existing
  /\ UNCHANGED <<req, unsent, mongoVars, kafkaVars>>

GetImage(p) ==
  /\ pc[p] = "get"
  /\ LET image == images[req[p].id]
         error == IF image = NoImage THEN "ErrImageNotFound" ELSE CheckAgainst(req[p], image)
     IN  \/ /\ error = NoError
            /\ existing' = [existing EXCEPT ![p] = image]
            /\ Goto(p, AfterGet(req[p]))
            /\ UNCHANGED answer
         \/ /\ error # NoError
            /\ Settle(p, "unlock", Status(error))
            /\ UNCHANGED existing
  /\ UNCHANGED <<req, unsent, mongoVars, kafkaVars>>

GetImageFails(p) ==
  /\ "mongo" \in Faults
  /\ pc[p] = "get"
  /\ Settle(p, "unlock", 500)
  /\ UNCHANGED <<req, existing, unsent, mongoVars, kafkaVars>>

\* The model each handler passes to the store, made of the request and the
\* document it read.
WithDownload(image, v, download) ==
  [w \in DOMAIN image.downloads \cup {v} |->
     IF w = v THEN download ELSE image.downloads[w]]

\* Mutant: the links of the body are not replaced by the stored ones.
LinksOfBody(r, image) ==
  [state |-> r.body.state, error |-> r.body.error, links |-> r.body.links,
   downloads |-> NoDownloads]

ImageUpdate(r, image) ==
  [state |-> r.body.state, error |-> r.body.error, links |-> image.links,
   downloads |-> NoDownloads]

\* The download of the body, with the links the handler gives it; a new one has
\* been checked to be importing.
NewDownload(r) ==
  [state |-> "importing", type |-> r.body.type, links |-> createLinksForDownload]
DownloadOf(r, links) == [state |-> r.body.state, type |-> r.body.type, links |-> links]

\* Mutant: the state of the image is not updated.
DownloadAddedOnly(r, image) ==
  [image EXCEPT !.downloads = WithDownload(image, r.variant, NewDownload(r))]

DownloadAdded(r, image) ==
  [image EXCEPT !.downloads = WithDownload(image, r.variant, NewDownload(r)),
                !.state = "importing"]

\* Mutants: the image takes the state of the download; its state is derived from
\* the downloads before the update; its error is not set.
StateTakenFromDownload(r, image) ==
  [image EXCEPT
     !.downloads = WithDownload(image, r.variant,
                                DownloadOf(r, image.downloads[r.variant].links)),
     !.state = r.body.state]
StateOfOldDownloads(r, image) ==
  [image EXCEPT
     !.downloads = WithDownload(image, r.variant,
                                DownloadOf(r, image.downloads[r.variant].links)),
     !.state = UpdatedState(image),
     !.error = @ \/ r.body.state = "failed"]
ErrorNotSet(r, image) ==
  LET new == [image EXCEPT !.downloads =
                WithDownload(image, r.variant, DownloadOf(r, image.downloads[r.variant].links))]
  IN  [new EXCEPT !.state = UpdatedState(new)]

DownloadReplaced(r, image) ==
  LET new == [image EXCEPT !.downloads =
                WithDownload(image, r.variant, DownloadOf(r, image.downloads[r.variant].links))]
  IN  [new EXCEPT !.state = UpdatedState(new),
                  !.error = @ \/ r.body.state = "failed"]

PublishUpdate(image) ==
  [state |-> "published", error |-> FALSE, links |-> "none",
   downloads |-> [v \in DOMAIN image.downloads |->
                    [state |-> "published", type |-> NoType, links |-> "none"]]]

\* Mutant: the error of the write is ignored.
WriteUnchecked(p, op, new, label, status) ==
  /\ pc[p] = "write"
  /\ req[p].op = op
  /\ existing' = [existing EXCEPT ![p] = NoImage]
  /\ \/ Put(req[p].id, new)
     \/ "mongo" \in Faults /\ PutFails(req[p].id, new)
  /\ Settle(p, label, status)
  /\ UNCHANGED <<locks, req, kafkaVars>>

\* The write of the document, and the deferred unlock when it returns an error.
Write(p, op, new, label, status) ==
  /\ pc[p] = "write"
  /\ req[p].op = op
  /\ existing' = [existing EXCEPT ![p] = NoImage]
  /\ \/ Put(req[p].id, new) /\ Settle(p, label, status)
     \/ "mongo" \in Faults /\ PutFails(req[p].id, new) /\ Settle(p, "unlock", 500)
  /\ UNCHANGED <<locks, req, kafkaVars>>

UpdateImage(p) ==
  /\ Write(p, "updateImage", Upserted(images[req[p].id], ImageUpdate(req[p], existing[p])), "unlock", 200)
  /\ UNCHANGED unsent

AddDownload(p) ==
  /\ Write(p, "createDownload",
           Upserted(images[req[p].id], DownloadAdded(req[p], existing[p])), "unlock", 201)
  /\ UNCHANGED unsent

ReplaceDownload(p) ==
  /\ Write(p, "updateDownload",
           Upserted(images[req[p].id], DownloadReplaced(req[p], existing[p])), "unlock", 200)
  /\ UNCHANGED unsent

\* Whether each path "downloads.<variant>.state" has a name between its dots: the
\* database refuses one that has not.
PathsAreComplete(image) == \A v \in DOMAIN image.downloads : Entry[v] # NoName

MarkPublishedRefused(p) ==
  /\ pc[p] = "write"
  /\ req[p].op = "publish"
  /\ ~PathsAreComplete(existing[p])
  /\ existing' = [existing EXCEPT ![p] = NoImage]
  /\ Settle(p, "unlock", 500)
  /\ UNCHANGED <<req, unsent, mongoVars, kafkaVars>>

\* Mutant: the whole model is set instead of its fields.
MarkPublishedWhole(p) ==
  /\ Write(p, "publish", Upserted(images[req[p].id], PublishUpdate(existing[p])), "announce", 0)
  /\ PathsAreComplete(existing[p])
  /\ unsent' = [unsent EXCEPT ![p] = IF pc'[p] = "announce"
                                     THEN DOMAIN existing[p].downloads ELSE {}]

MarkPublished(p) ==
  /\ Write(p, "publish", Updated(images[req[p].id], PublishUpdate(existing[p])), "announce", 0)
  /\ PathsAreComplete(existing[p])
  /\ unsent' = [unsent EXCEPT ![p] = IF pc'[p] = "announce"
                                     THEN DOMAIN existing[p].downloads ELSE {}]

----------------------------------------------------------------------------
(* The events.                                                             *)

SendUploaded(p) ==
  /\ pc[p] = "sendUploaded"
  /\ Uploaded!Send(req[p].id)
  /\ Goto(p, "write")
  /\ UNCHANGED <<req, existing, unsent, answer, mongoVars, publishedVars>>

\* Mutant: the error of ImageUploaded is ignored.
WriteUnannounced(p) ==
  /\ "marshal" \in Faults
  /\ pc[p] = "sendUploaded"
  /\ Goto(p, "write")
  /\ UNCHANGED <<req, existing, unsent, answer, mongoVars, kafkaVars>>

SendUploadedFails(p) ==
  /\ "marshal" \in Faults
  /\ pc[p] = "sendUploaded"
  /\ existing' = [existing EXCEPT ![p] = NoImage]
  /\ Settle(p, "unlock", 500)
  /\ UNCHANGED <<req, unsent, mongoVars, kafkaVars>>

\* One event per variant, in the order in which Go ranges over the map.
SendPublished(p) ==
  /\ pc[p] = "announce"
  /\ \E v \in unsent[p] :
       /\ Published!Send(<<req[p].id, v>>)
       /\ unsent' = [unsent EXCEPT ![p] = @ \ {v}]
  /\ UNCHANGED <<pc, req, existing, answer, mongoVars, uploadedVars>>

\* Mutant: an event that does not marshal is skipped.
SkipPublished(p) ==
  /\ "marshal" \in Faults
  /\ pc[p] = "announce"
  /\ \E v \in unsent[p] : unsent' = [unsent EXCEPT ![p] = @ \ {v}]
  /\ UNCHANGED <<pc, req, existing, answer, mongoVars, kafkaVars>>

SendPublishedFails(p) ==
  /\ "marshal" \in Faults
  /\ pc[p] = "announce" /\ unsent[p] # {}
  /\ unsent' = [unsent EXCEPT ![p] = {}]
  /\ Settle(p, "unlock", 500)
  /\ UNCHANGED <<req, existing, mongoVars, kafkaVars>>

\* Mutant: the loop over the events ends too early.
SomePublished(p) ==
  /\ pc[p] = "announce"
  /\ Settle(p, "unlock", 204)
  /\ UNCHANGED <<req, existing, unsent, mongoVars, kafkaVars>>

AllPublished(p) ==
  /\ pc[p] = "announce" /\ unsent[p] = {}
  /\ Settle(p, "unlock", 204)
  /\ UNCHANGED <<req, existing, unsent, mongoVars, kafkaVars>>

----------------------------------------------------------------------------
(* The end of a request.                                                   *)

Forget(p) ==
  /\ Settle(p, "idle", 0)
  /\ req' = [req EXCEPT ![p] = NoRequest]
  /\ existing' = [existing EXCEPT ![p] = NoImage]
  /\ unsent' = [unsent EXCEPT ![p] = {}]
  /\ UNCHANGED <<images, kafkaVars>>

Unlock(p) ==
  /\ pc[p] = "unlock"
  /\ UnlockImage(p, req[p].id)
  /\ Forget(p)

\* UnlockImage returns no error, and the context it is given is the request's:
\* a client that has gone away cancels it.
UnlockFails(p) ==
  /\ "mongo" \in Faults
  /\ pc[p] = "unlock"
  /\ LoseLock(p, req[p].id)
  /\ Forget(p)

Return(p) ==
  /\ pc[p] = "answered"
  /\ Forget(p)
  /\ UNCHANGED locks

\* The instance that runs p stops.
Crash(p) ==
  /\ "crash" \in Faults
  /\ pc[p] # "idle"
  /\ LoseLock(p, req[p].id)
  /\ Forget(p)

----------------------------------------------------------------------------
(* What is not a handler: the lock library and the Kafka clients.  The     *)
(* events an instance holds when it stops are lost with it.                *)

ReleaseOrphanedLock ==
  /\ \E id \in Images : ReleaseOrphan(id)
  /\ UNCHANGED <<images, handlerVars, kafkaVars>>

DeliverUploaded ==
  /\ Uploaded!Deliver
  /\ UNCHANGED <<mongoVars, handlerVars, publishedVars>>

DeliverPublished ==
  /\ Published!Deliver
  /\ UNCHANGED <<mongoVars, handlerVars, uploadedVars>>

LoseEvent ==
  /\ Faults \cap {"broker", "crash"} # {}
  /\ \/ Uploaded!Drop /\ UNCHANGED publishedVars
     \/ Published!Drop /\ UNCHANGED uploadedVars
  /\ UNCHANGED <<mongoVars, handlerVars>>

----------------------------------------------------------------------------

Arrive(p) ==
  \/ CreateImageHandler(p) \/ UpdateImageHandler(p) \/ PublishImageHandler(p)
  \/ CreateDownloadHandler(p) \/ UpdateDownloadHandler(p)

\* Every step of a request except the wait for the lock.
Work(p) ==
  \/ InsertImage(p) \/ LockFails(p) \/ GetImage(p) \/ GetImageFails(p)
  \/ UpdateImage(p) \/ AddDownload(p) \/ ReplaceDownload(p)
  \/ MarkPublished(p) \/ MarkPublishedRefused(p)
  \/ SendUploaded(p) \/ SendUploadedFails(p)
  \/ SendPublished(p) \/ SendPublishedFails(p) \/ AllPublished(p)
  \/ Unlock(p) \/ UnlockFails(p) \/ Return(p)

Environment ==
  ReleaseOrphanedLock \/ DeliverUploaded \/ DeliverPublished \/ LoseEvent

Next ==
  \/ \E p \in Procs : Arrive(p) \/ Lock(p) \/ Work(p) \/ Crash(p)
  \/ Environment

Spec == Init /\ [][Next]_vars

\* A handler that can take a step takes it and the Kafka clients keep
\* delivering.  A request that waits for a lock gets it if it is released again
\* and again: AcquireImageLock "will block until it's released, at which point
\* we acquire the lock and return".
Fairness ==
  /\ \A p \in Procs : WF_vars(Work(p)) /\ SF_vars(Lock(p))
  /\ WF_vars(DeliverUploaded) /\ WF_vars(DeliverPublished)

FairSpec == Spec /\ Fairness
----------------------------------------------------------------------------
(* Properties.                                                             *)

\* The requests that hold the lock of their image, and those that are between
\* their read of the document and the write they base on it.
Holding(p) == pc[p] \in {"get", "sendUploaded", "write", "announce", "unlock"}
Deciding(p) == pc[p] \in {"sendUploaded", "write"}

LockedOps == {"updateImage", "createDownload", "updateDownload", "publish"}

Ops(label) == CASE label = "idle"         -> {"none"}
                [] label = "insert"       -> {"createImage"}
                [] label = "sendUploaded" -> {"updateImage"}
                [] label = "announce"     -> {"publish"}
                [] label = "answered"     -> LockedOps \cup {"createImage"}
                [] OTHER                  -> LockedOps

\* The statuses a handler answers, and 0 before it has one.
Answer == {0, 200, 201, 204, 400, 403, 404, 500}

\* The requests that hold a slot, with the handler each label belongs to.
HandlerTypeOK ==
  /\ pc \in [Procs -> Label]
  /\ req \in [Procs -> Request \cup {NoRequest}]
  /\ \A p \in Procs : req[p].op \in Ops(pc[p])
  /\ existing \in [Procs -> Image \cup {NoImage}]
  /\ unsent \in [Procs -> SUBSET Variants]
  /\ answer \in [Procs -> Answer]

\* Type correctness: whatever bodies clients send, only documents with a known
\* state and typed downloads are stored, and every step belongs to its handler.
TypeOK ==
  /\ MongoTypeOK
  /\ HandlerTypeOK
  /\ Uploaded!TypeOK
  /\ Published!TypeOK

\* From the return of AcquireImageLock to the deferred unlockImage a handler
\* owns the lock of its image, whatever fails in between.
LockDiscipline == \A p \in Procs : Holding(p) => locks[req[p].id] = p

\* A lock is owned by nobody but a request that is between its
\* AcquireImageLock and its deferred unlock on that image: no return path, of
\* whatever refusal or failure, leaves a lock behind that keeps the requests
\* after it waiting.
NoLockLeftBehind ==
  \A id \in Images : locks[id] \in Procs =>
    Holding(locks[id]) /\ req[locks[id]].id = id

\* What a handler read and checked under the lock is still what is stored when
\* it writes (and when it announces the upload, before it writes): no other
\* request, of this or of another instance, gets its update lost.
NoStaleWrite ==
  \A p \in Procs : Deciding(p) =>
    /\ images[req[p].id] # NoImage
    /\ existing[p] = images[req[p].id]
    /\ CheckAgainst(req[p], existing[p]) = NoError

\* CreateImageHandler takes no lock: its upsert must never meet a document.
InsertsAreFresh ==
  \A p \in Procs : pc[p] = "insert" =>
    /\ images[req[p].id] = NoImage
    /\ \A q \in Procs \ {p} : pc[q] = "insert" => req[q].id # req[p].id

\* No client can change or remove a link: the links of every stored image and
\* download are those the API built, which the handlers that list downloads
\* dereference without a check, although every write passes a model made of a
\* request body to the store.  The only entry without links is the empty one
\* that publishing an image leaves for a variant with a dot in its name, and no
\* report makes a variant of it.
LinksAreOwn ==
  \A id \in Images : images[id] # NoImage =>
    /\ images[id].links = "own"
    /\ \A v \in DOMAIN images[id].downloads :
         images[id].downloads[v].links = "own" \/ Leftover(images[id], v)

\* Between two stored versions of a document its state either stays or takes
\* one transition of the table in models/state.go, a completed image keeps its
\* state, and no document or download disappears.
ImageStateMachine ==
  [][\A id \in Images : images[id] # NoImage =>
       /\ images'[id] # NoImage
       /\ \/ images'[id].state = images[id].state
          \/ /\ TransitionAllowed(images[id].state, images'[id].state)
             /\ images[id].state # "completed"
       /\ DOMAIN images[id].downloads \subseteq DOMAIN images'[id].downloads]_vars

\* An image has download variants only once it has been uploaded and an
\* importer has begun to add them.
DownloadsFollowUpload ==
  \A id \in Images : images[id] # NoImage /\ images[id].state \in {"created", "uploaded"} =>
    DOMAIN images[id].downloads = {}

\* No image gets beyond "created" (to be deleted apart) without its
\* image-uploaded event having been handed to Kafka, even if the write that
\* follows the event fails or the request does.
UploadAnnounced ==
  \A id \in Images : images[id] # NoImage /\ images[id].state \notin {"created", "deleted"} =>
    id \in Uploaded!Accepted

\* An image that was announced for import is announced again only to make good
\* for a write that failed: nobody who has announced it is still to store it, and
\* what is stored is not uploaded.  This holds however many clients upload the
\* image at the same time, and however often one that was refused tries again.
UploadedOnce ==
  [][\A id \in Images :
       id \in Uploaded!Accepted /\ uploadedOut' = Append(uploadedOut, id) =>
         /\ images[id].state = "created"
         /\ ~\E p \in Procs : pc[p] = "write" /\ req[p].id = id]_vars

\* A static-file-published event is sent only for a variant that the database
\* says is published: the publisher that gets it finds the image and the
\* variant in a state in which it may report completion.  (The state of a
\* variant with a dot in its name is not what publish has written.)
PublishedEventsMatch ==
  \A id \in Images, v \in Variants : <<id, v>> \in Published!Accepted =>
    /\ images[id] # NoImage
    /\ images[id].state \in {"published", "completed", "failed_publish", "deleted"}
    /\ v \in DOMAIN images[id].downloads
    /\ Entry[v] = v => images[id].downloads[v].state \in {"published", "completed"}

\* No variant is announced to the publisher twice, by racing or repeated
\* publish requests.
PublishedOnce ==
  [][\A e \in Images \X Variants : e \in Published!Accepted =>
       publishedOut' # Append(publishedOut, e)]_vars

\* A success is only answered once what it says is true: the document holds
\* what the request asked for, and 204 means that the image is stored as
\* published (not "publishing", as swagger.yaml:252 has it) and every one of its
\* variants is announced, whichever of the events fails.
AnswersAreTrue ==
  \A p \in Procs : pc[p] = "unlock" /\ answer[p] \in {200, 201, 204} =>
    LET image == images[req[p].id]
        r == req[p]
    IN  CASE r.op = "updateImage" -> image.state = r.body.state
          [] r.op \in {"createDownload", "updateDownload"} ->
               /\ r.variant \in DOMAIN image.downloads
               /\ image.downloads[r.variant].state = r.body.state
               /\ image.downloads[r.variant].type = r.body.type
          [] r.op = "publish" ->
               /\ image.state = "published"
               /\ \A v \in DOMAIN image.downloads :
                    <<r.id, v>> \in Published!Accepted \/ Leftover(image, v)

\* The state of an image tells where its variants are, when the states of an
\* image past "uploaded" are left to the API (clients only upload and delete
\* images, and report variants, which have plain names, as imported, failed or
\* completed).
VariantStates(id) ==
  {images[id].downloads[v].state : v \in DOMAIN images[id].downloads}

ImageSummarisesDownloads ==
  \A id \in Images : images[id] # NoImage =>
    LET image == images[id]
        states == VariantStates(id)
    IN  /\ image.state = "importing" =>
             "importing" \in states /\ states \subseteq {"importing", "imported"}
        /\ image.state = "imported" => states = {"imported"}
        /\ image.state = "published" =>
             "published" \in states /\ states \subseteq {"published", "completed"}
        /\ image.state = "completed" => states = {"completed"}
        /\ image.state = "failed_import" => "failed" \in states
        /\ image.state # "failed_publish"
        /\ image.error <=> "failed" \in states

\* Under the same clients, every stored variant moves along the table in
\* models/download_state.go: publish, which sets all variants to "published"
\* without looking at them, only meets imported ones.
DownloadStateMachine ==
  [][\A id \in Images : images[id] # NoImage =>
       \A v \in DOMAIN images[id].downloads :
         LET before == images[id].downloads[v].state
             after  == images'[id].downloads[v].state
         IN  before = after \/ DownloadTransitionAllowed(before, after)]_vars

\* Every request is answered and its slot freed: no lock is left behind on any
\* return path, and a send that blocks under the lock gets through.
Answered == \A p \in Procs : pc[p] # "idle" ~> pc[p] = "idle"

\* Every image the API has published is announced to the publisher, variant by
\* variant, on the topic.
PublicationsReachKafka ==
  \A id \in Images, v \in Variants :
    (images[id] # NoImage /\ images[id].state = "published" /\ v \in DOMAIN images[id].downloads)
      ~> (<<id, v>> \in publishedTopic)
=============================================================================
