--------------------------- MODULE ImageAPIProofs ---------------------------
(***************************************************************************)
(* Proofs about ImageAPI, for any set of images, variants, requests in     *)
(* flight and request bodies, any capacity of the producers and any of the *)
(* faults.                                                                 *)
(***************************************************************************)
EXTENDS ImageAPI, TLAPS

----------------------------------------------------------------------------
(* Lemmas about the documents.                                             *)

\* A function from some of the variants to downloads is a map of downloads.
LEMMA DownloadsIntro ==
  ASSUME NEW S \in SUBSET Variants, NEW f \in [S -> Download]
  PROVE  f \in Downloads
BY DEF Downloads

\* And the other way round.
LEMMA DownloadsElim ==
  ASSUME NEW d \in Downloads
  PROVE  DOMAIN d \in SUBSET Variants /\ d \in [DOMAIN d -> Download]
BY DEF Downloads

LEMMA NoDownloadsType == NoDownloads \in Downloads /\ DOMAIN NoDownloads = {}
<1>1. NoDownloads \in [{} -> Download] /\ DOMAIN NoDownloads = {}
  BY DEF NoDownloads
<1>2. QED
  BY <1>1, DownloadsIntro

\* The derived state of an image is a state.
LEMMA UpdatedStateType ==
  ASSUME NEW image, image.state \in State
  PROVE  UpdatedState(image) \in State
BY DEF UpdatedState, State

\* Setting one variant makes a map of downloads of a map of downloads.
LEMMA WithDownloadType ==
  ASSUME NEW image, image.downloads \in Downloads, NEW v \in Variants, NEW d \in Download
  PROVE  WithDownload(image, v, d) \in Downloads
<1>1. /\ DOMAIN image.downloads \in SUBSET Variants
      /\ image.downloads \in [DOMAIN image.downloads -> Download]
  BY DownloadsElim
<1> DEFINE S == DOMAIN image.downloads \cup {v}
<1>2. WithDownload(image, v, d) \in [S -> Download]
  BY <1>1 DEF WithDownload
<1>3. QED
  BY <1>1, <1>2, DownloadsIntro

\* A model that a handler passes to UpsertImage makes a document of a document,
\* and one with a state makes a document of nothing.
LEMMA UpsertedType ==
  ASSUME NEW stored \in Image \cup {NoImage}, NEW image,
         image.state \in State \cup {""}, image.error \in BOOLEAN, image.links \in Links,
         image.downloads \in Downloads,
         stored = NoImage => image \in Image
  PROVE  Upserted(stored, image) \in Image
<1>1. CASE stored = NoImage
  BY <1>1 DEF Upserted
<1>2. CASE stored # NoImage
  BY <1>2 DEF Upserted, Image
<1>3. QED
  BY <1>1, <1>2

\* What publishing writes, spelled out: a variant with a plain name is
\* published, every other entry stays, and new entries are empty.
LEMMA PublishedDocument ==
  ASSUME NEW stored \in Image, NEW image, NEW new, new = Updated(stored, PublishUpdate(image))
  PROVE  /\ new.state = "published" /\ new.error = stored.error /\ new.links = stored.links
         /\ DOMAIN new.downloads = DOMAIN stored.downloads
                                    \cup {Entry[w] : w \in DOMAIN image.downloads}
         /\ \A v \in DOMAIN new.downloads :
              LET old == EntryOf(stored.downloads, v)
                  marked == v \in DOMAIN image.downloads /\ Entry[v] = v
              IN  /\ ~marked => new.downloads[v] = old
                  /\ marked => new.downloads[v] =
                               [state |-> "published", type |-> old.type, links |-> old.links]
<1> DEFINE update == PublishUpdate(image)
           mark == [state |-> "published", type |-> NoType, links |-> "none"]
<1>1. /\ update.state = "published" /\ update.error = FALSE
      /\ DOMAIN update.downloads = DOMAIN image.downloads
      /\ \A v \in DOMAIN image.downloads : update.downloads[v] = mark
  BY DEF PublishUpdate
<1> DEFINE S == DOMAIN stored.downloads \cup {Entry[w] : w \in DOMAIN image.downloads}
           d == [v \in S |-> IF v \in DOMAIN image.downloads /\ Entry[v] = v
                            THEN UpdatedDownload(EntryOf(stored.downloads, v), mark)
                            ELSE EntryOf(stored.downloads, v)]
<1>2. new = [state |-> "published", error |-> stored.error \/ FALSE,
             links |-> stored.links, downloads |-> d]
  <2>1. Updated(stored, update).downloads = d
    BY <1>1 DEF Updated
  <2>2. QED
    BY <2>1 DEF Updated, PublishUpdate
<1>3. /\ new.state = "published" /\ new.error = stored.error /\ new.links = stored.links
      /\ new.downloads = d
  <2>1. stored.error \in BOOLEAN
    BY DEF Image
  <2> HIDE DEF d
  <2>2. QED
    BY <1>2, <2>1
<1>4. /\ DOMAIN new.downloads = S
      /\ \A v \in DOMAIN new.downloads :
           new.downloads[v] = IF v \in DOMAIN image.downloads /\ Entry[v] = v
                              THEN UpdatedDownload(EntryOf(stored.downloads, v), mark)
                              ELSE EntryOf(stored.downloads, v)
  BY <1>3
<1>5. ASSUME NEW x
      PROVE  UpdatedDownload(x, mark) = [state |-> "published", type |-> x.type, links |-> x.links]
  BY DEF UpdatedDownload
<1>6. QED
  <2> HIDE DEF mark, d
  <2>1. QED
    BY <1>3, <1>4, <1>5

\* Publishing keeps a document a document.
LEMMA PublishedType ==
  ASSUME NEW stored \in Image, NEW image \in Image, PathsAreComplete(image)
  PROVE  Updated(stored, PublishUpdate(image)) \in Image
<1>1. PICK new : new = Updated(stored, PublishUpdate(image))
  OBVIOUS
<1> DEFINE S == DOMAIN stored.downloads \cup {Entry[w] : w \in DOMAIN image.downloads}
<1>2. /\ DOMAIN stored.downloads \in SUBSET Variants
      /\ stored.downloads \in [DOMAIN stored.downloads -> Download]
  BY DownloadsElim DEF Image
<1>3. DOMAIN image.downloads \in SUBSET Variants
  BY DownloadsElim DEF Image
<1>4. S \in SUBSET Variants
  BY <1>2, <1>3, EntriesAreNames DEF PathsAreComplete
<1>5. ASSUME NEW x \in Download
      PROVE  [state |-> "published", type |-> x.type, links |-> x.links] \in Download
  BY DEF Download, DownloadState
<1>6. \A v \in S : EntryOf(stored.downloads, v) \in Download
  BY <1>2 DEF EntryOf, EmptyDownload, Download, Links
<1>7. /\ DOMAIN new.downloads = S
      /\ \A v \in S : LET old == EntryOf(stored.downloads, v)
                       IN  \/ new.downloads[v] = old
                           \/ new.downloads[v] =
                                [state |-> "published", type |-> old.type, links |-> old.links]
  <2> HIDE DEF S
  <2>1. DOMAIN new.downloads = S
    BY <1>1, PublishedDocument DEF S
  <2>2. ASSUME NEW v \in DOMAIN new.downloads
        PROVE  LET old == EntryOf(stored.downloads, v)
                   marked == v \in DOMAIN image.downloads /\ Entry[v] = v
               IN  /\ ~marked => new.downloads[v] = old
                   /\ marked => new.downloads[v] =
                                [state |-> "published", type |-> old.type, links |-> old.links]
    BY <1>1, <2>2, PublishedDocument
  <2>3. QED
    BY <2>1, <2>2
<1>8. ASSUME NEW v \in S
      PROVE  new.downloads[v] \in Download
  <2>1. PICK old \in Download : old = EntryOf(stored.downloads, v)
    BY <1>6
  <2>2. \/ new.downloads[v] = old
        \/ new.downloads[v] = [state |-> "published", type |-> old.type, links |-> old.links]
    BY <1>7, <2>1
  <2>3. QED
    BY <1>5, <2>2
<1>9. /\ new.downloads = [v \in S |-> new.downloads[v]]
      /\ new = [state |-> new.state, error |-> new.error, links |-> new.links,
                downloads |-> new.downloads]
  <2>1. PICK s, e, l, d : new = [state |-> s, error |-> e, links |-> l, downloads |-> d]
    BY <1>1 DEF Updated
  <2>2. new.downloads = [v \in DOMAIN new.downloads |-> new.downloads[v]]
    BY <1>1 DEF Updated
  <2>3. QED
    BY <1>7, <2>1, <2>2
<1>10. new.downloads \in Downloads
  BY <1>4, <1>8, <1>9, DownloadsIntro
<1>11. new.state = "published" /\ new.error = stored.error /\ new.links = stored.links
  BY <1>1, PublishedDocument
<1>12. stored.error \in BOOLEAN /\ stored.links \in Links /\ "published" \in State
  BY DEF Image, State
<1>13. PICK s, e, l, d : new = [state |-> s, error |-> e, links |-> l, downloads |-> d]
  BY <1>9
<1>14. s \in State /\ e \in BOOLEAN /\ l \in Links /\ d \in Downloads
  BY <1>10, <1>11, <1>12, <1>13
<1>15. QED
  BY <1>1, <1>13, <1>14 DEF Image

\* Every error has a status.
LEMMA StatusType ==
  ASSUME NEW error
  PROVE  Status(error) \in Answer
BY DEF Status, Answer

----------------------------------------------------------------------------
(* Lemmas about requests.                                                  *)

\* The handlers each label belongs to, spelled out.
LEMMA OpsOf ==
  /\ Ops("idle") = {"none"}
  /\ Ops("insert") = {"createImage"}
  /\ Ops("sendUploaded") = {"updateImage"}
  /\ Ops("announce") = {"publish"}
  /\ Ops("answered") = LockedOps \cup {"createImage"}
  /\ \A label \in {"lock", "get", "write", "unlock"} : Ops(label) = LockedOps
BY DEF Ops

\* The fields of a request, by handler.
LEMMA RequestFields ==
  ASSUME NEW r \in Request
  PROVE  /\ r.id \in Images
         /\ r.op \in LockedOps \cup {"createImage"}
         /\ r.op = "updateImage" => r.body \in ImageBody
         /\ r.op \in {"createDownload", "updateDownload"} =>
              r.variant \in Variants /\ r.body \in DownloadBody
BY BodiesAreBodies DEF Request, LockedOps

\* A slot that is not idle holds a request.
LEMMA BusyHasRequest ==
  ASSUME HandlerTypeOK, NEW p \in Procs, pc[p] # "idle"
  PROVE  req[p] \in Request /\ req[p].id \in Images /\ pc[p] \in Label \ {"idle"}
<1>1. req[p].op # "none"
  BY DEF HandlerTypeOK, Ops, LockedOps
<1>2. req[p] \in Request
  BY <1>1 DEF HandlerTypeOK, NoRequest
<1>3. QED
  BY <1>2, RequestFields DEF HandlerTypeOK

\* The document a locked handler writes is a document.
LEMMA WrittenType ==
  ASSUME TypeOK, NoStaleWrite, NEW p \in Procs, pc[p] = "write"
  PROVE  LET id == req[p].id
         IN  /\ req[p].op = "updateImage" =>
                  Upserted(images[id], ImageUpdate(req[p], existing[p])) \in Image
             /\ req[p].op = "createDownload" =>
                  Upserted(images[id], DownloadAdded(req[p], existing[p])) \in Image
             /\ req[p].op = "updateDownload" =>
                  Upserted(images[id], DownloadReplaced(req[p], existing[p])) \in Image
             /\ req[p].op = "publish" /\ PathsAreComplete(existing[p]) =>
                  Updated(images[id], PublishUpdate(existing[p])) \in Image
<1> DEFINE r == req[p]
           image == existing[p]
<1>1. /\ r \in Request /\ r.id \in Images
      /\ r.op = "updateImage" => r.body \in ImageBody
      /\ r.op \in {"createDownload", "updateDownload"} =>
           r.variant \in Variants /\ r.body \in DownloadBody
  BY BusyHasRequest, RequestFields DEF TypeOK
<1>2. images[r.id] = image /\ image \in Image /\ image # NoImage
  BY <1>1 DEF NoStaleWrite, Deciding, TypeOK, MongoTypeOK
<1>3. CheckAgainst(r, image) = NoError
  BY DEF NoStaleWrite, Deciding
<1>4. /\ image.state \in State /\ image.error \in BOOLEAN /\ image.links \in Links
      /\ image.downloads \in Downloads
  BY <1>2 DEF Image
<1>5. CASE r.op = "updateImage"
  <2>1. r.body.state = "" \/ r.body.state \in State
    BY <1>3, <1>5 DEF CheckAgainst, ValidateTransitionFrom, Refuse, ??, NoError,
                      StateTransitionAllowed
  <2>2. QED
    BY <1>1, <1>2, <1>4, <1>5, <2>1, UpsertedType, NoDownloadsType DEF ImageUpdate, ImageBody
<1>6. CASE r.op = "createDownload"
  <2>1. NewDownload(r) \in Download
    BY <1>1, <1>6 DEF NewDownload, createLinksForDownload, Download, DownloadState, DownloadBody, Links
  <2>2. DownloadAdded(r, image).downloads \in Downloads
    BY <1>1, <1>4, <1>6, <2>1, WithDownloadType DEF DownloadAdded
  <2>3. DownloadAdded(r, image) \in Image
    BY <1>2, <2>2 DEF DownloadAdded, Image, State
  <2>4. QED
    BY <1>2, <1>6, <2>3, UpsertedType DEF Image
<1>7. CASE r.op = "updateDownload"
  <2>1. r.body.state \in DownloadState
    BY <1>3, <1>7 DEF CheckAgainst, CheckVariant, ValidateDownloadTransitionFrom,
                      Refuse, ??, NoError,
                      DownloadStateTransitionAllowed
  <2>2. DownloadOf(r, image.downloads[r.variant].links) \in Download
    <3>1. r.variant \in DOMAIN image.downloads
      BY <1>3, <1>7 DEF CheckAgainst, CheckVariant, NoError
    <3>2. image.downloads[r.variant].links \in Links
      BY <1>4, <3>1, DownloadsElim DEF Download
    <3>3. QED
      BY <1>1, <1>7, <2>1, <3>2 DEF DownloadOf, Download, DownloadBody
  <2> DEFINE downloads == WithDownload(image, r.variant,
                            DownloadOf(r, image.downloads[r.variant].links))
             new == [image EXCEPT !.downloads = downloads]
  <2>3. downloads \in Downloads
    BY <1>1, <1>4, <1>7, <2>2, WithDownloadType
  <2>4. new \in Image /\ UpdatedState(new) \in State
    BY <1>2, <2>3, UpdatedStateType DEF Image
  <2>5. DownloadReplaced(r, image) =
          [new EXCEPT !.state = UpdatedState(new), !.error = @ \/ r.body.state = "failed"]
    BY DEF DownloadReplaced
  <2>6. DownloadReplaced(r, image) \in Image
    BY <2>4, <2>5 DEF Image
  <2>7. QED
    BY <1>2, <1>7, <2>6, UpsertedType DEF Image
<1>8. CASE r.op = "publish" /\ PathsAreComplete(image)
  BY <1>2, <1>8, PublishedType
<1>9. QED
  BY <1>1, <1>5, <1>6, <1>7, <1>8

----------------------------------------------------------------------------
(* Type correctness, one lemma per kind of step.                           *)

\* Taking the oldest element of a queue.
LEMMA TakeType ==
  ASSUME NEW S, NEW q \in Seq(S), q # <<>>, NEW n \in Nat, Len(q) <= n
  PROVE  Head(q) \in S /\ Tail(q) \in Seq(S) /\ Len(Tail(q)) <= n
OBVIOUS

\* The producers.
LEMMA SendUploadedType ==
  ASSUME Uploaded!TypeOK, NEW id \in Images, Uploaded!Send(id)
  PROVE  Uploaded!TypeOK'
BY ChanCapIsPositive DEF Uploaded!TypeOK, Uploaded!Send

LEMMA SendPublishedType ==
  ASSUME Published!TypeOK, NEW e \in Images \X Variants, Published!Send(e)
  PROVE  Published!TypeOK'
BY ChanCapIsPositive DEF Published!TypeOK, Published!Send

LEMMA TakeUploadedType ==
  ASSUME Uploaded!TypeOK, Uploaded!Deliver \/ Uploaded!Drop
  PROVE  Uploaded!TypeOK'
<1> DEFINE Events == Images
<1>1. uploadedOut' = Tail(uploadedOut)
  BY DEF Uploaded!Deliver, Uploaded!Drop
<1>2. uploadedOut \in Seq(Events) /\ uploadedOut # <<>> /\ Len(uploadedOut) <= ChanCap
  BY DEF Uploaded!TypeOK, Uploaded!Deliver, Uploaded!Drop
<1>3. /\ Head(uploadedOut) \in Events /\ Tail(uploadedOut) \in Seq(Events)
      /\ Len(Tail(uploadedOut)) <= ChanCap
  <2> HIDE DEF Events
  <2>1. QED
    BY <1>2, TakeType, ChanCapIsPositive
<1>4. QED
  BY <1>1, <1>3 DEF Uploaded!TypeOK, Uploaded!Deliver, Uploaded!Drop

LEMMA TakePublishedType ==
  ASSUME Published!TypeOK, Published!Deliver \/ Published!Drop
  PROVE  Published!TypeOK'
<1> DEFINE Events == Images \X Variants
<1>1. publishedOut' = Tail(publishedOut)
  BY DEF Published!Deliver, Published!Drop
<1>2. publishedOut \in Seq(Events) /\ publishedOut # <<>> /\ Len(publishedOut) <= ChanCap
  BY DEF Published!TypeOK, Published!Deliver, Published!Drop
<1>3. /\ Head(publishedOut) \in Events /\ Tail(publishedOut) \in Seq(Events)
      /\ Len(Tail(publishedOut)) <= ChanCap
  <2> HIDE DEF Events
  <2>1. QED
    BY <1>2, TakeType, ChanCapIsPositive
<1>4. QED
  BY <1>1, <1>3 DEF Published!TypeOK, Published!Deliver, Published!Drop

\* What leaves the producers alone.
LEMMA KafkaUnchangedType ==
  /\ Uploaded!TypeOK /\ UNCHANGED uploadedVars => Uploaded!TypeOK'
  /\ Published!TypeOK /\ UNCHANGED publishedVars => Published!TypeOK'
BY DEF Uploaded!TypeOK, Published!TypeOK, uploadedVars, publishedVars

\* What leaves the requests alone.
LEMMA HandlerUnchangedType ==
  HandlerTypeOK /\ UNCHANGED handlerVars => HandlerTypeOK'
BY DEF HandlerTypeOK, handlerVars

\* A step of one request within its handler: a label that belongs to it.
LEMMA HandlerStepType ==
  ASSUME HandlerTypeOK, NEW p \in Procs, NEW label \in Label,
         pc' = [pc EXCEPT ![p] = label], UNCHANGED req, req[p].op \in Ops(label),
         answer' \in [Procs -> Answer],
         existing' \in [Procs -> Image \cup {NoImage}],
         unsent' \in [Procs -> SUBSET Variants]
  PROVE  HandlerTypeOK'
<1>1. \A q \in Procs : pc'[q] = IF q = p THEN label ELSE pc[q]
  BY DEF HandlerTypeOK
<1>2. \A q \in Procs : req'[q].op \in Ops(pc'[q])
  BY <1>1 DEF HandlerTypeOK
<1>3. pc' \in [Procs -> Label] /\ req' \in [Procs -> Request \cup {NoRequest}]
  BY DEF HandlerTypeOK
<1>4. QED
  BY <1>2, <1>3 DEF HandlerTypeOK

\* A request arrives.
LEMMA ReceiveType ==
  ASSUME TypeOK, NEW p \in Procs, NEW r \in Request, NEW error, NEW label \in {"insert", "lock"},
         label = "insert" <=> r.op = "createImage", Receive(p, r, error, label)
  PROVE  TypeOK'
<1>1. PICK l \in {label, "answered"} :
        /\ pc' = [pc EXCEPT ![p] = l]
        /\ \/ UNCHANGED answer
           \/ answer' = [answer EXCEPT ![p] = Status(error)]
  BY DEF Receive, Goto, Settle
<1>2. r.op \in Ops(l) /\ l \in Label
  BY RequestFields DEF Ops, LockedOps, Label
<1>3. \A q \in Procs : /\ pc'[q] = IF q = p THEN l ELSE pc[q]
                       /\ req'[q] = IF q = p THEN r ELSE req[q]
  BY <1>1 DEF TypeOK, HandlerTypeOK, Receive
<1>4. \A q \in Procs : req'[q].op \in Ops(pc'[q])
  BY <1>2, <1>3 DEF TypeOK, HandlerTypeOK
<1>5. HandlerTypeOK'
  BY <1>1, <1>2, <1>4, StatusType DEF TypeOK, HandlerTypeOK, Receive
<1>6. QED
  BY <1>5, KafkaUnchangedType DEF TypeOK, MongoTypeOK, Receive, mongoVars, kafkaVars

\* A request ends.
LEMMA ForgetType ==
  ASSUME TypeOK, NEW p \in Procs, Forget(p), locks' \in [Images -> Procs \cup {Free, Orphaned}]
  PROVE  TypeOK'
<1>1. \A q \in Procs : /\ pc'[q] = IF q = p THEN "idle" ELSE pc[q]
                       /\ req'[q] = IF q = p THEN NoRequest ELSE req[q]
  BY DEF TypeOK, HandlerTypeOK, Forget, Settle, Goto
<1>2. \A q \in Procs : req'[q].op \in Ops(pc'[q])
  BY <1>1 DEF TypeOK, HandlerTypeOK, NoRequest, Ops
<1>3. HandlerTypeOK'
  BY <1>2 DEF TypeOK, HandlerTypeOK, Forget, Settle, Goto, Label, Answer
<1>4. QED
  BY <1>3, KafkaUnchangedType DEF TypeOK, MongoTypeOK, Forget, kafkaVars

\* A handler writes the document.
LEMMA WriteType ==
  ASSUME TypeOK, NEW p \in Procs, NEW op \in LockedOps, NEW new \in Image,
         NEW label \in {"unlock", "announce"}, NEW status \in {0, 200, 201},
         op \in Ops(label), Write(p, op, new, label, status),
         unsent' \in [Procs -> SUBSET Variants]
  PROVE  TypeOK'
<1>1. req[p] \in Request /\ req[p].id \in Images
  BY BusyHasRequest DEF TypeOK, Write
<1>2. MongoTypeOK'
  BY DEF Write, TypeOK, MongoTypeOK, Put, PutFails
<1>3. PICK l \in {label, "unlock"} : pc' = [pc EXCEPT ![p] = l]
  BY DEF Write, Settle, Goto
<1>4. l \in Label /\ req[p].op \in Ops(l)
  BY OpsOf DEF Write, Label, LockedOps
<1>5. /\ UNCHANGED req
      /\ answer' \in [Procs -> Answer]
      /\ existing' \in [Procs -> Image \cup {NoImage}]
  BY DEF Write, Settle, TypeOK, HandlerTypeOK, Answer
<1>6. HandlerTypeOK'
  BY <1>3, <1>4, <1>5, HandlerStepType DEF TypeOK
<1>7. QED
  BY <1>2, <1>6, KafkaUnchangedType DEF TypeOK, Write, kafkaVars

LEMMA WorkType ==
  ASSUME TypeOK, NoStaleWrite, NEW p \in Procs, Work(p)
  PROVE  TypeOK'
<1> USE DEF Label
<1>0. /\ pc[p] \in Label
      /\ pc[p] # "idle" => req[p] \in Request /\ req[p].id \in Images
      /\ req[p].op \in Ops(pc[p])
  BY BusyHasRequest DEF TypeOK, HandlerTypeOK
<1>1. CASE InsertImage(p)
  <2> DEFINE id == req[p].id
             new == Upserted(images[id], NewImage)
  <2>1. new \in Image
    BY <1>0, <1>1, UpsertedType, NoDownloadsType
       DEF InsertImage, TypeOK, MongoTypeOK, NewImage, createLinksForImage, Image, State, Links
  <2>2. MongoTypeOK'
    BY <1>1, <2>1 DEF InsertImage, TypeOK, MongoTypeOK, Put, PutFails
  <2>3. /\ pc' = [pc EXCEPT ![p] = "answered"]
        /\ answer' \in [Procs -> Answer]
    BY <1>1 DEF InsertImage, Settle, Goto, TypeOK, HandlerTypeOK, Answer
  <2>4. /\ req[p].op \in Ops("answered") /\ UNCHANGED req
        /\ existing' \in [Procs -> Image \cup {NoImage}]
        /\ unsent' \in [Procs -> SUBSET Variants]
    BY <1>0, <1>1, OpsOf DEF InsertImage, TypeOK, HandlerTypeOK
  <2>5. HandlerTypeOK'
    BY <2>3, <2>4, HandlerStepType DEF TypeOK
  <2>6. QED
    BY <1>1, <2>2, <2>5, KafkaUnchangedType DEF InsertImage, TypeOK, kafkaVars
<1>2. CASE LockFails(p)
  <2>1. req[p].op \in Ops("answered")
    BY <1>0, <1>2, OpsOf DEF LockFails, LockedOps
  <2>2. /\ pc' = [pc EXCEPT ![p] = "answered"]
        /\ answer' \in [Procs -> Answer]
        /\ UNCHANGED req
        /\ existing' \in [Procs -> Image \cup {NoImage}]
        /\ unsent' \in [Procs -> SUBSET Variants]
    BY <1>2 DEF LockFails, Settle, Goto, TypeOK, HandlerTypeOK, Answer
  <2>3. HandlerTypeOK'
    BY <2>1, <2>2, HandlerStepType DEF TypeOK
  <2>4. QED
    BY <1>2, <2>3, KafkaUnchangedType
       DEF LockFails, TypeOK, MongoTypeOK, mongoVars, kafkaVars
<1>3. CASE GetImage(p)
  <2>1. PICK l \in {AfterGet(req[p]), "unlock"} : pc' = [pc EXCEPT ![p] = l]
    BY <1>3 DEF GetImage, Settle, Goto
  <2>2. l \in Label /\ req[p].op \in Ops(l)
    BY OpsOf, <1>0, <1>3 DEF GetImage, AfterGet, LockedOps
  <2>3. /\ UNCHANGED req
        /\ answer' \in [Procs -> Answer]
        /\ existing' \in [Procs -> Image \cup {NoImage}]
        /\ unsent' \in [Procs -> SUBSET Variants]
    BY <1>0, <1>3, StatusType DEF GetImage, Settle, TypeOK, MongoTypeOK, HandlerTypeOK
  <2>4. HandlerTypeOK'
    BY <2>1, <2>2, <2>3, HandlerStepType DEF TypeOK
  <2>5. QED
    BY <1>3, <2>4, KafkaUnchangedType DEF GetImage, TypeOK, MongoTypeOK, mongoVars, kafkaVars
<1>4. CASE GetImageFails(p)
  <2>1. req[p].op \in Ops("unlock")
    BY <1>0, <1>4, OpsOf DEF GetImageFails, LockedOps
  <2>2. /\ pc' = [pc EXCEPT ![p] = "unlock"]
        /\ answer' \in [Procs -> Answer]
        /\ UNCHANGED req
        /\ existing' \in [Procs -> Image \cup {NoImage}]
        /\ unsent' \in [Procs -> SUBSET Variants]
    BY <1>4 DEF GetImageFails, Settle, Goto, TypeOK, HandlerTypeOK, Answer
  <2>3. HandlerTypeOK'
    BY <2>1, <2>2, HandlerStepType DEF TypeOK
  <2>4. QED
    BY <1>4, <2>3, KafkaUnchangedType
       DEF GetImageFails, TypeOK, MongoTypeOK, mongoVars, kafkaVars
<1>5. CASE UpdateImage(p)
  <2> DEFINE new == Upserted(images[req[p].id], ImageUpdate(req[p], existing[p]))
  <2>1. Write(p, "updateImage", new, "unlock", 200) /\ UNCHANGED unsent
    BY <1>5 DEF UpdateImage
  <2>2. new \in Image
    BY <2>1, WrittenType DEF Write
  <2>3. unsent' \in [Procs -> SUBSET Variants]
    BY <2>1 DEF TypeOK, HandlerTypeOK
  <2>4. "updateImage" \in LockedOps /\ "updateImage" \in Ops("unlock")
    BY OpsOf DEF LockedOps
  <2>5. QED
    <3> HIDE DEF new
    <3>1. QED
      BY <2>1, <2>2, <2>3, <2>4, WriteType
<1>6. CASE AddDownload(p)
  <2> DEFINE new == Upserted(images[req[p].id], DownloadAdded(req[p], existing[p]))
  <2>1. Write(p, "createDownload", new, "unlock", 201) /\ UNCHANGED unsent
    BY <1>6 DEF AddDownload
  <2>2. new \in Image
    BY <2>1, WrittenType DEF Write
  <2>3. unsent' \in [Procs -> SUBSET Variants]
    BY <2>1 DEF TypeOK, HandlerTypeOK
  <2>4. "createDownload" \in LockedOps /\ "createDownload" \in Ops("unlock")
    BY OpsOf DEF LockedOps
  <2>5. QED
    <3> HIDE DEF new
    <3>1. QED
      BY <2>1, <2>2, <2>3, <2>4, WriteType
<1>7. CASE ReplaceDownload(p)
  <2> DEFINE new == Upserted(images[req[p].id], DownloadReplaced(req[p], existing[p]))
  <2>1. Write(p, "updateDownload", new, "unlock", 200) /\ UNCHANGED unsent
    BY <1>7 DEF ReplaceDownload
  <2>2. new \in Image
    BY <2>1, WrittenType DEF Write
  <2>3. unsent' \in [Procs -> SUBSET Variants]
    BY <2>1 DEF TypeOK, HandlerTypeOK
  <2>4. "updateDownload" \in LockedOps /\ "updateDownload" \in Ops("unlock")
    BY OpsOf DEF LockedOps
  <2>5. QED
    <3> HIDE DEF new
    <3>1. QED
      BY <2>1, <2>2, <2>3, <2>4, WriteType
<1>8. CASE MarkPublished(p)
  <2>1. existing[p] \in Image
    BY <1>0, <1>8 DEF MarkPublished, Write, NoStaleWrite, Deciding, TypeOK, HandlerTypeOK,
                      MongoTypeOK
  <2>2. DOMAIN existing[p].downloads \in SUBSET Variants
    BY <2>1, DownloadsElim DEF Image
  <2>3. unsent' \in [Procs -> SUBSET Variants]
    BY <1>8, <2>2 DEF MarkPublished, TypeOK, HandlerTypeOK
  <2> DEFINE new == Updated(images[req[p].id], PublishUpdate(existing[p]))
  <2>4. Write(p, "publish", new, "announce", 0) /\ PathsAreComplete(existing[p])
    BY <1>8 DEF MarkPublished
  <2>5. new \in Image
    BY <2>4, WrittenType DEF Write
  <2>6. "publish" \in LockedOps /\ "publish" \in Ops("announce")
    BY OpsOf DEF LockedOps
  <2>7. QED
    <3> HIDE DEF new
    <3>1. QED
      BY <2>3, <2>4, <2>5, <2>6, WriteType
<1>9. CASE SendUploaded(p)
  <2>1. req[p].op \in Ops("write")
    BY <1>0, <1>9, OpsOf DEF SendUploaded, LockedOps
  <2>2. /\ pc' = [pc EXCEPT ![p] = "write"]
        /\ answer' \in [Procs -> Answer]
        /\ UNCHANGED req
        /\ existing' \in [Procs -> Image \cup {NoImage}]
        /\ unsent' \in [Procs -> SUBSET Variants]
    BY <1>9 DEF SendUploaded, Goto, TypeOK, HandlerTypeOK, Answer
  <2>3. HandlerTypeOK'
    BY <2>1, <2>2, HandlerStepType DEF TypeOK
  <2>4. QED
    BY <1>0, <1>9, <2>3, SendUploadedType, KafkaUnchangedType
       DEF SendUploaded, TypeOK, MongoTypeOK, mongoVars
<1>10. CASE SendUploadedFails(p) \/ MarkPublishedRefused(p)
  <2>1. req[p].op \in Ops("unlock")
    BY <1>0, <1>10, OpsOf DEF SendUploadedFails, MarkPublishedRefused, LockedOps
  <2>2. /\ pc' = [pc EXCEPT ![p] = "unlock"]
        /\ answer' \in [Procs -> Answer]
        /\ UNCHANGED req
        /\ existing' \in [Procs -> Image \cup {NoImage}]
        /\ unsent' \in [Procs -> SUBSET Variants]
    BY <1>10 DEF SendUploadedFails, MarkPublishedRefused, Settle, Goto, TypeOK, HandlerTypeOK, Answer
  <2>3. HandlerTypeOK'
    BY <2>1, <2>2, HandlerStepType DEF TypeOK
  <2>4. QED
    BY <1>10, <2>3, KafkaUnchangedType
       DEF SendUploadedFails, MarkPublishedRefused, TypeOK, MongoTypeOK, mongoVars, kafkaVars
<1>11. CASE SendPublished(p)
  <2>1. PICK v \in unsent[p] :
          /\ Published!Send(<<req[p].id, v>>)
          /\ unsent' = [unsent EXCEPT ![p] = @ \ {v}]
    BY <1>11 DEF SendPublished
  <2>2. <<req[p].id, v>> \in Images \X Variants
    BY <1>0, <1>11, <2>1 DEF SendPublished, TypeOK, HandlerTypeOK
  <2>3. Published!TypeOK'
    BY <2>1, <2>2, SendPublishedType DEF TypeOK
  <2>4. HandlerTypeOK'
    BY <1>11, <2>1 DEF SendPublished, TypeOK, HandlerTypeOK
  <2>5. QED
    BY <1>11, <2>3, <2>4, KafkaUnchangedType
       DEF SendPublished, TypeOK, MongoTypeOK, mongoVars
<1>12. CASE SendPublishedFails(p)
  <2>1. req[p].op \in Ops("unlock")
    BY <1>0, <1>12, OpsOf DEF SendPublishedFails, LockedOps
  <2>2. /\ pc' = [pc EXCEPT ![p] = "unlock"]
        /\ answer' \in [Procs -> Answer]
        /\ UNCHANGED req
        /\ existing' \in [Procs -> Image \cup {NoImage}]
        /\ unsent' \in [Procs -> SUBSET Variants]
    BY <1>12 DEF SendPublishedFails, Settle, Goto, TypeOK, HandlerTypeOK, Answer
  <2>3. HandlerTypeOK'
    BY <2>1, <2>2, HandlerStepType DEF TypeOK
  <2>4. QED
    BY <1>12, <2>3, KafkaUnchangedType
       DEF SendPublishedFails, TypeOK, MongoTypeOK, mongoVars, kafkaVars
<1>13. CASE AllPublished(p)
  <2>1. req[p].op \in Ops("unlock")
    BY <1>0, <1>13, OpsOf DEF AllPublished, LockedOps
  <2>2. /\ pc' = [pc EXCEPT ![p] = "unlock"]
        /\ answer' \in [Procs -> Answer]
        /\ UNCHANGED req
        /\ existing' \in [Procs -> Image \cup {NoImage}]
        /\ unsent' \in [Procs -> SUBSET Variants]
    BY <1>13 DEF AllPublished, Settle, Goto, TypeOK, HandlerTypeOK, Answer
  <2>3. HandlerTypeOK'
    BY <2>1, <2>2, HandlerStepType DEF TypeOK
  <2>4. QED
    BY <1>13, <2>3, KafkaUnchangedType
       DEF AllPublished, TypeOK, MongoTypeOK, mongoVars, kafkaVars
<1>14. CASE Unlock(p)
  <2>1. locks' \in [Images -> Procs \cup {Free, Orphaned}]
    BY <1>14 DEF Unlock, UnlockImage, TypeOK, MongoTypeOK
  <2>2. QED
    BY <1>14, <2>1, ForgetType DEF Unlock
<1>15. CASE UnlockFails(p)
  <2>1. locks' \in [Images -> Procs \cup {Free, Orphaned}]
    BY <1>15 DEF UnlockFails, LoseLock, TypeOK, MongoTypeOK
  <2>2. QED
    BY <1>15, <2>1, ForgetType DEF UnlockFails
<1>16. CASE Return(p)
  BY <1>16, ForgetType DEF Return, TypeOK, MongoTypeOK
<1>17. QED
  BY <1>1, <1>2, <1>3, <1>4, <1>5, <1>6, <1>7, <1>8, <1>9, <1>10, <1>11, <1>12, <1>13,
     <1>14, <1>15, <1>16 DEF Work

----------------------------------------------------------------------------
(* What a step of one request may touch.                                   *)

OnlyMoves(p) ==
  \A q \in Procs \ {p} :
    pc'[q] = pc[q] /\ req'[q] = req[q] /\ existing'[q] = existing[q]

\* No step of a request touches another request.
LEMMA StepMovesOne ==
  ASSUME HandlerTypeOK, NEW p \in Procs, Arrive(p) \/ Lock(p) \/ Work(p) \/ Crash(p)
  PROVE  OnlyMoves(p)
<1> USE DEF HandlerTypeOK, OnlyMoves, Goto, Settle
<1>1. CASE Arrive(p)
  BY <1>1 DEF Arrive, CreateImageHandler, UpdateImageHandler, PublishImageHandler,
              CreateDownloadHandler, UpdateDownloadHandler, Receive
<1>2. CASE Lock(p) \/ LockFails(p) \/ InsertImage(p)
  BY <1>2 DEF Lock, LockFails, InsertImage
<1>3. CASE GetImage(p) \/ GetImageFails(p)
  BY <1>3 DEF GetImage, GetImageFails
<1>4. CASE UpdateImage(p) \/ AddDownload(p) \/ ReplaceDownload(p) \/ MarkPublished(p)
  BY <1>4 DEF UpdateImage, AddDownload, ReplaceDownload, MarkPublished, Write
<1>5. CASE SendUploaded(p) \/ SendUploadedFails(p) \/ MarkPublishedRefused(p)
  BY <1>5 DEF SendUploaded, SendUploadedFails, MarkPublishedRefused
<1>6. CASE SendPublished(p) \/ SendPublishedFails(p) \/ AllPublished(p)
  BY <1>6 DEF SendPublished, SendPublishedFails, AllPublished
<1>7. CASE Unlock(p) \/ UnlockFails(p) \/ Return(p) \/ Crash(p)
  BY <1>7 DEF Unlock, UnlockFails, Return, Crash, Forget
<1>8. QED
  BY <1>1, <1>2, <1>3, <1>4, <1>5, <1>6, <1>7 DEF Work

\* A document is changed only by the request that inserts it or writes it under
\* the lock.
LEMMA WhoWrites ==
  ASSUME MongoTypeOK, NEW p \in Procs, Arrive(p) \/ Lock(p) \/ Work(p) \/ Crash(p),
         NEW id \in Images, images'[id] # images[id]
  PROVE  pc[p] \in {"insert", "write"} /\ req[p].id = id
<1>1. CASE Arrive(p)
  BY <1>1 DEF Arrive, CreateImageHandler, UpdateImageHandler, PublishImageHandler,
              CreateDownloadHandler, UpdateDownloadHandler, Receive, mongoVars
<1>2. CASE InsertImage(p)
  BY <1>2 DEF InsertImage, MongoTypeOK, Put, PutFails
<1>3. CASE UpdateImage(p) \/ AddDownload(p) \/ ReplaceDownload(p) \/ MarkPublished(p)
  BY <1>3 DEF UpdateImage, AddDownload, ReplaceDownload, MarkPublished, Write,
              MongoTypeOK, Put, PutFails
<1>4. CASE Lock(p) \/ LockFails(p) \/ GetImage(p) \/ GetImageFails(p)
  BY <1>4 DEF Lock, LockFails, GetImage, GetImageFails, mongoVars
<1>5. CASE SendUploaded(p) \/ SendUploadedFails(p) \/ MarkPublishedRefused(p) \/ SendPublished(p)
           \/ SendPublishedFails(p) \/ AllPublished(p)
  BY <1>5 DEF SendUploaded, SendUploadedFails, MarkPublishedRefused, SendPublished, SendPublishedFails,
              AllPublished, mongoVars
<1>6. CASE Unlock(p) \/ UnlockFails(p) \/ Return(p) \/ Crash(p)
  BY <1>6 DEF Unlock, UnlockFails, Return, Crash, Forget
<1>7. QED
  BY <1>1, <1>2, <1>3, <1>4, <1>5, <1>6 DEF Work

\* A request takes a free lock when it waits for it and changes no other lock
\* than one it owns.
LEMMA WhoLocks ==
  ASSUME MongoTypeOK, HandlerTypeOK, NEW p \in Procs,
         Arrive(p) \/ Lock(p) \/ Work(p) \/ Crash(p),
         NEW id \in Images, locks'[id] # locks[id]
  PROVE  \/ Lock(p) /\ id = req[p].id /\ locks[id] = Free /\ locks'[id] = p
         \/ locks[id] = p /\ pc'[p] = "idle" /\ locks'[id] \in {Free, Orphaned}
<1>1. CASE Arrive(p)
  BY <1>1 DEF Arrive, CreateImageHandler, UpdateImageHandler, PublishImageHandler,
              CreateDownloadHandler, UpdateDownloadHandler, Receive, mongoVars
<1>2. CASE Lock(p)
  BY <1>2 DEF Lock, AcquireImageLock, MongoTypeOK
<1>3. CASE InsertImage(p) \/ LockFails(p) \/ GetImage(p) \/ GetImageFails(p) \/ Return(p)
  BY <1>3 DEF InsertImage, LockFails, GetImage, GetImageFails, Return, mongoVars
<1>4. CASE UpdateImage(p) \/ AddDownload(p) \/ ReplaceDownload(p) \/ MarkPublished(p)
  BY <1>4 DEF UpdateImage, AddDownload, ReplaceDownload, MarkPublished, Write
<1>5. CASE SendUploaded(p) \/ SendUploadedFails(p) \/ MarkPublishedRefused(p) \/ SendPublished(p)
           \/ SendPublishedFails(p) \/ AllPublished(p)
  BY <1>5 DEF SendUploaded, SendUploadedFails, MarkPublishedRefused, SendPublished, SendPublishedFails,
              AllPublished, mongoVars
<1>6. CASE Unlock(p) \/ UnlockFails(p) \/ Crash(p)
  <2>1. locks[id] = p /\ locks'[id] \in {Free, Orphaned}
    BY <1>6 DEF Unlock, UnlockFails, Crash, UnlockImage, LoseLock, MongoTypeOK
  <2>2. pc'[p] = "idle"
    BY <1>6 DEF Unlock, UnlockFails, Crash, Forget, Settle, Goto, HandlerTypeOK
  <2>3. QED
    BY <2>1, <2>2
<1>7. QED
  BY <1>1, <1>2, <1>3, <1>4, <1>5, <1>6 DEF Work

----------------------------------------------------------------------------
(* The inductive invariant.  NoStaleWrite alone is not inductive: that no  *)
(* other request writes a document between a read and the write based on   *)
(* it needs the lock of its image (LockDiscipline) against the handlers    *)
(* that lock, and InsertsAreFresh against the one that does not.           *)

IInv == TypeOK /\ LockDiscipline /\ NoStaleWrite /\ InsertsAreFresh

Step(p) == Arrive(p) \/ Lock(p) \/ Work(p) \/ Crash(p)

LEMMA InitIInv == Init => IInv
<1> SUFFICES ASSUME Init PROVE IInv
  OBVIOUS
<1>1. \A p \in Procs : pc[p] = "idle" /\ req[p].op = "none"
  BY DEF Init, NoRequest
<1>2. MongoTypeOK
  BY DEF Init, InitMongo, MongoTypeOK
<1>3. HandlerTypeOK
  BY <1>1, OpsOf DEF Init, HandlerTypeOK, Label, Answer
<1>4. Uploaded!TypeOK /\ Published!TypeOK
  BY ChanCapIsPositive DEF Init, Uploaded!Init, Published!Init, Uploaded!TypeOK, Published!TypeOK
<1>5. LockDiscipline /\ NoStaleWrite /\ InsertsAreFresh
  BY <1>1 DEF LockDiscipline, NoStaleWrite, InsertsAreFresh, Holding, Deciding
<1>6. QED
  BY <1>2, <1>3, <1>4, <1>5 DEF IInv, TypeOK

LEMMA StepType ==
  ASSUME IInv, NEW p \in Procs, Step(p)
  PROVE  TypeOK'
<1> USE DEF IInv
<1>1. CASE CreateImageHandler(p)
  <2>1. PICK id \in Images, body \in NewImageBodies :
          Receive(p, [op |-> "createImage", id |-> id, body |-> body],
                  CheckNewImage(body), "insert")
    BY <1>1 DEF CreateImageHandler
  <2> DEFINE r == [op |-> "createImage", id |-> id, body |-> body]
  <2>2. r \in Request /\ r.op = "createImage"
    BY DEF Request
  <2>3. QED
    BY <2>1, <2>2, ReceiveType
<1>2. CASE UpdateImageHandler(p)
  <2>1. PICK id \in Images, body \in ImageBodies :
          Receive(p, [op |-> "updateImage", id |-> id, body |-> body],
                  CheckImage(body), "lock")
    BY <1>2 DEF UpdateImageHandler
  <2> DEFINE r == [op |-> "updateImage", id |-> id, body |-> body]
  <2>2. r \in Request /\ r.op # "createImage"
    BY DEF Request
  <2>3. QED
    BY <2>1, <2>2, ReceiveType
<1>3. CASE CreateDownloadHandler(p)
  <2>1. PICK id \in Images, v \in Variants, body \in DownloadBodies :
          Receive(p, [op |-> "createDownload", id |-> id, variant |-> v, body |-> body],
                  CheckNewDownload(body), "lock")
    BY <1>3 DEF CreateDownloadHandler
  <2> DEFINE r == [op |-> "createDownload", id |-> id, variant |-> v, body |-> body]
  <2>2. r \in Request /\ r.op # "createImage"
    BY DEF Request
  <2>3. QED
    BY <2>1, <2>2, ReceiveType
<1>4. CASE UpdateDownloadHandler(p)
  <2>1. PICK id \in Images, v \in Variants, body \in DownloadBodies :
          Receive(p, [op |-> "updateDownload", id |-> id, variant |-> v, body |-> body],
                  CheckDownload(body), "lock")
    BY <1>4 DEF UpdateDownloadHandler
  <2> DEFINE r == [op |-> "updateDownload", id |-> id, variant |-> v, body |-> body]
  <2>2. r \in Request /\ r.op # "createImage"
    BY DEF Request
  <2>3. QED
    BY <2>1, <2>2, ReceiveType
<1>5. CASE PublishImageHandler(p)
  <2>1. PICK id \in Images : Receive(p, [op |-> "publish", id |-> id], NoError, "lock")
    BY <1>5 DEF PublishImageHandler
  <2> DEFINE r == [op |-> "publish", id |-> id]
  <2>2. r \in Request /\ r.op # "createImage"
    BY DEF Request
  <2>3. QED
    BY <2>1, <2>2, ReceiveType
<1>6. CASE Lock(p)
  <2>1. req[p] \in Request /\ req[p].id \in Images
    BY <1>6, BusyHasRequest DEF Lock, TypeOK
  <2>2. MongoTypeOK'
    BY <1>6, <2>1 DEF Lock, AcquireImageLock, TypeOK, MongoTypeOK
  <2>3. req[p].op \in Ops("get")
    BY <1>6, OpsOf DEF Lock, TypeOK, HandlerTypeOK
  <2>4. /\ pc' = [pc EXCEPT ![p] = "get"] /\ UNCHANGED req
        /\ answer' \in [Procs -> Answer]
        /\ existing' \in [Procs -> Image \cup {NoImage}]
        /\ unsent' \in [Procs -> SUBSET Variants]
    BY <1>6 DEF Lock, Goto, TypeOK, HandlerTypeOK
  <2>5. HandlerTypeOK'
    BY <2>3, <2>4, HandlerStepType DEF TypeOK, Label
  <2>6. QED
    BY <1>6, <2>2, <2>5, KafkaUnchangedType DEF Lock, TypeOK, kafkaVars
<1>7. CASE Work(p)
  BY <1>7, WorkType
<1>8. CASE Crash(p)
  <2>1. locks' \in [Images -> Procs \cup {Free, Orphaned}]
    BY <1>8 DEF Crash, LoseLock, TypeOK, MongoTypeOK
  <2>2. QED
    BY <1>8, <2>1, ForgetType DEF Crash
<1>9. QED
  BY <1>1, <1>2, <1>3, <1>4, <1>5, <1>6, <1>7, <1>8 DEF Step, Arrive

LEMMA EnvironmentType ==
  ASSUME IInv, Environment
  PROVE  TypeOK'
<1> USE DEF IInv, TypeOK
<1>1. CASE ReleaseOrphanedLock
  BY <1>1, HandlerUnchangedType, KafkaUnchangedType
     DEF ReleaseOrphanedLock, ReleaseOrphan, MongoTypeOK, kafkaVars
<1>2. CASE DeliverUploaded
  BY <1>2, HandlerUnchangedType, KafkaUnchangedType, TakeUploadedType
     DEF DeliverUploaded, MongoTypeOK, mongoVars
<1>3. CASE DeliverPublished
  BY <1>3, HandlerUnchangedType, KafkaUnchangedType, TakePublishedType
     DEF DeliverPublished, MongoTypeOK, mongoVars
<1>4. CASE LoseEvent
  BY <1>4, HandlerUnchangedType, KafkaUnchangedType, TakeUploadedType, TakePublishedType
     DEF LoseEvent, MongoTypeOK, mongoVars
<1>5. QED
  BY <1>1, <1>2, <1>3, <1>4 DEF Environment
----------------------------------------------------------------------------
(* LockDiscipline is preserved.                                            *)

\* A request gets to the steps it makes under the lock by taking it, or is
\* there already; either way it goes on with the same request.
LEMMA HowToHold ==
  ASSUME HandlerTypeOK, NEW p \in Procs, Step(p), Holding(p)'
  PROVE  req'[p] = req[p] /\ (Lock(p) \/ Holding(p))
<1> USE DEF HandlerTypeOK, Holding, Goto, Settle
<1>1. CASE Arrive(p)
  BY <1>1 DEF Arrive, CreateImageHandler, UpdateImageHandler, PublishImageHandler,
              CreateDownloadHandler, UpdateDownloadHandler, Receive
<1>2. CASE Lock(p)
  BY <1>2 DEF Lock
<1>3. CASE InsertImage(p) \/ LockFails(p)
  BY <1>3 DEF InsertImage, LockFails
<1>4. CASE GetImage(p) \/ GetImageFails(p)
  BY <1>4 DEF GetImage, GetImageFails
<1>5. CASE UpdateImage(p) \/ AddDownload(p) \/ ReplaceDownload(p) \/ MarkPublished(p)
  BY <1>5 DEF UpdateImage, AddDownload, ReplaceDownload, MarkPublished, Write
<1>6. CASE SendUploaded(p) \/ SendUploadedFails(p) \/ MarkPublishedRefused(p)
  BY <1>6 DEF SendUploaded, SendUploadedFails, MarkPublishedRefused
<1>7. CASE SendPublished(p) \/ SendPublishedFails(p) \/ AllPublished(p)
  BY <1>7 DEF SendPublished, SendPublishedFails, AllPublished
<1>8. CASE Unlock(p) \/ UnlockFails(p) \/ Return(p) \/ Crash(p)
  BY <1>8 DEF Unlock, UnlockFails, Return, Crash, Forget
<1>9. QED
  BY <1>1, <1>2, <1>3, <1>4, <1>5, <1>6, <1>7, <1>8 DEF Step, Work

LEMMA StepLocks ==
  ASSUME IInv, NEW p \in Procs, Step(p)
  PROVE  LockDiscipline'
<1>0. MongoTypeOK /\ HandlerTypeOK /\ LockDiscipline
  BY DEF IInv, TypeOK
<1> SUFFICES ASSUME NEW q \in Procs, Holding(q)'
             PROVE  locks'[req'[q].id] = q
  BY DEF LockDiscipline
<1>1. OnlyMoves(p)
  BY <1>0, StepMovesOne DEF Step
<1>2. CASE q # p
  <2>1. req'[q] = req[q] /\ Holding(q)
    BY <1>1, <1>2 DEF OnlyMoves, Holding
  <2>2. locks[req[q].id] = q /\ req[q].id \in Images
    BY <1>0, <2>1, BusyHasRequest DEF LockDiscipline, Holding
  <2>3. locks'[req[q].id] = locks[req[q].id]
    BY <1>0, <1>2, <2>2, WhoLocks, LockValuesDiffer DEF Step
  <2>4. QED
    BY <2>1, <2>2, <2>3
<1>3. CASE q = p
  <2>1. req'[p] = req[p] /\ (Lock(p) \/ Holding(p))
    BY <1>0, <1>3, HowToHold
  <2>2. CASE Lock(p)
    <3>1. req[p].id \in Images
      BY <1>0, <2>2, BusyHasRequest DEF Lock
    <3>2. locks'[req[p].id] = p
      BY <1>0, <2>2, <3>1 DEF Lock, AcquireImageLock, MongoTypeOK
    <3>3. QED
      BY <1>3, <2>1, <3>2
  <2>3. CASE Holding(p)
    <3>1. locks[req[p].id] = p /\ req[p].id \in Images
      BY <1>0, <2>3, BusyHasRequest DEF LockDiscipline, Holding
    <3>2. pc'[p] # "idle"
      BY <1>3 DEF Holding
    <3>3. locks'[req[p].id] = p
      BY <1>0, <3>1, <3>2, WhoLocks, LockValuesDiffer DEF Step
    <3>4. QED
      BY <1>3, <2>1, <3>3
  <2>4. QED
    BY <2>1, <2>2, <2>3
<1>4. QED
  BY <1>2, <1>3

----------------------------------------------------------------------------
(* NoStaleWrite is preserved.                                              *)

\* Two requests that write or insert never have the same document in hand.
LEMMA WritersApart ==
  ASSUME LockDiscipline, NoStaleWrite, InsertsAreFresh,
         NEW p \in Procs, pc[p] \in {"insert", "write"},
         NEW q \in Procs \ {p}, pc[q] \in {"insert", "sendUploaded", "write"}
  PROVE  req[p].id # req[q].id
<1>1. CASE pc[p] = "insert"
  BY <1>1 DEF InsertsAreFresh, NoStaleWrite, Deciding
<1>2. CASE pc[p] = "write" /\ pc[q] = "insert"
  BY <1>2 DEF InsertsAreFresh, NoStaleWrite, Deciding
<1>3. CASE pc[p] = "write" /\ pc[q] # "insert"
  BY <1>3 DEF LockDiscipline, Holding
<1>4. QED
  BY <1>1, <1>2, <1>3

\* A request comes to the point of writing from its read, whose checks have
\* passed, or from the announcement of the upload.
LEMMA HowToDecide ==
  ASSUME HandlerTypeOK, NEW p \in Procs, Step(p), Deciding(p)'
  PROVE  /\ req'[p] = req[p] /\ images' = images
         /\ \/ /\ pc[p] = "get" /\ images[req[p].id] # NoImage
               /\ existing'[p] = images[req[p].id]
               /\ CheckAgainst(req[p], images[req[p].id]) = NoError
            \/ Deciding(p) /\ existing'[p] = existing[p]
<1> USE DEF HandlerTypeOK, Deciding, Goto, Settle
<1>1. CASE Arrive(p)
  BY <1>1 DEF Arrive, CreateImageHandler, UpdateImageHandler, PublishImageHandler,
              CreateDownloadHandler, UpdateDownloadHandler, Receive
<1>2. CASE Lock(p) \/ LockFails(p) \/ InsertImage(p)
  BY <1>2 DEF Lock, LockFails, InsertImage
<1>3. CASE GetImage(p)
  <2> DEFINE image == images[req[p].id]
             error == IF image = NoImage THEN "ErrImageNotFound"
                      ELSE CheckAgainst(req[p], image)
  <2>1. pc[p] = "get" /\ UNCHANGED <<req, images>>
    BY <1>3 DEF GetImage, mongoVars
  <2>2. \/ error = NoError /\ existing' = [existing EXCEPT ![p] = image]
        \/ pc' = [pc EXCEPT ![p] = "unlock"]
    BY <1>3 DEF GetImage
  <2>3. error = NoError /\ existing'[p] = image
    BY <2>2
  <2>4. image # NoImage /\ CheckAgainst(req[p], image) = NoError
    BY <2>3 DEF NoError
  <2>5. QED
    BY <2>1, <2>3, <2>4
<1>4. CASE GetImageFails(p)
  BY <1>4 DEF GetImageFails
<1>5. CASE UpdateImage(p) \/ AddDownload(p) \/ ReplaceDownload(p) \/ MarkPublished(p)
  BY <1>5 DEF UpdateImage, AddDownload, ReplaceDownload, MarkPublished, Write
<1>6. CASE SendUploaded(p) \/ SendUploadedFails(p) \/ MarkPublishedRefused(p)
  BY <1>6 DEF SendUploaded, SendUploadedFails, MarkPublishedRefused, mongoVars
<1>7. CASE SendPublished(p) \/ SendPublishedFails(p) \/ AllPublished(p)
  BY <1>7 DEF SendPublished, SendPublishedFails, AllPublished
<1>8. CASE Unlock(p) \/ UnlockFails(p) \/ Return(p) \/ Crash(p)
  BY <1>8 DEF Unlock, UnlockFails, Return, Crash, Forget
<1>9. QED
  BY <1>1, <1>2, <1>3, <1>4, <1>5, <1>6, <1>7, <1>8 DEF Step, Work

LEMMA StepNoStale ==
  ASSUME IInv, NEW p \in Procs, Step(p)
  PROVE  NoStaleWrite'
<1>0. MongoTypeOK /\ HandlerTypeOK /\ LockDiscipline /\ NoStaleWrite /\ InsertsAreFresh
  BY DEF IInv, TypeOK
<1> SUFFICES ASSUME NEW q \in Procs, Deciding(q)'
             PROVE  /\ images'[req'[q].id] # NoImage
                    /\ existing'[q] = images'[req'[q].id]
                    /\ CheckAgainst(req'[q], existing'[q]) = NoError
  BY DEF NoStaleWrite
<1>1. CASE q # p
  <2>1. /\ pc'[q] = pc[q] /\ req'[q] = req[q] /\ existing'[q] = existing[q]
        /\ Deciding(q)
    BY <1>0, <1>1, StepMovesOne DEF Step, OnlyMoves, Deciding
  <2>2. req[q].id \in Images
    BY <1>0, <2>1, BusyHasRequest DEF Deciding
  <2>3. images'[req[q].id] = images[req[q].id]
    BY <1>0, <1>1, <2>1, <2>2, WhoWrites, WritersApart DEF Step, Deciding
  <2>4. QED
    BY <1>0, <2>1, <2>3 DEF NoStaleWrite
<1>2. CASE q = p
  BY <1>0, <1>2, HowToDecide DEF NoStaleWrite
<1>3. QED
  BY <1>1, <1>2

----------------------------------------------------------------------------
(* InsertsAreFresh is preserved.                                           *)

\* A request comes to its insert only by arriving with an unused identifier.
LEMMA HowToInsert ==
  ASSUME HandlerTypeOK, NEW p \in Procs, Step(p), pc'[p] = "insert"
  PROVE  images' = images /\ Unused(req'[p].id)
<1> USE DEF HandlerTypeOK, Goto, Settle
<1>1. CASE CreateImageHandler(p)
  <2>1. PICK id \in Images, body \in NewImageBodies :
          /\ Unused(id)
          /\ Receive(p, [op |-> "createImage", id |-> id, body |-> body],
                     CheckNewImage(body), "insert")
    BY <1>1 DEF CreateImageHandler
  <2>2. req'[p].id = id /\ images' = images
    BY <2>1 DEF Receive, mongoVars
  <2>3. QED
    BY <2>1, <2>2
<1>2. CASE UpdateImageHandler(p) \/ PublishImageHandler(p)
           \/ CreateDownloadHandler(p) \/ UpdateDownloadHandler(p)
  BY <1>2 DEF UpdateImageHandler, PublishImageHandler, CreateDownloadHandler,
              UpdateDownloadHandler, Receive
<1>3. CASE Lock(p) \/ LockFails(p) \/ InsertImage(p)
  BY <1>3 DEF Lock, LockFails, InsertImage
<1>4. CASE GetImage(p) \/ GetImageFails(p)
  BY <1>4 DEF GetImage, GetImageFails, AfterGet
<1>5. CASE UpdateImage(p) \/ AddDownload(p) \/ ReplaceDownload(p) \/ MarkPublished(p)
  BY <1>5 DEF UpdateImage, AddDownload, ReplaceDownload, MarkPublished, Write
<1>6. CASE SendUploaded(p) \/ SendUploadedFails(p) \/ MarkPublishedRefused(p)
  BY <1>6 DEF SendUploaded, SendUploadedFails, MarkPublishedRefused
<1>7. CASE SendPublished(p) \/ SendPublishedFails(p) \/ AllPublished(p)
  BY <1>7 DEF SendPublished, SendPublishedFails, AllPublished
<1>8. CASE Unlock(p) \/ UnlockFails(p) \/ Return(p) \/ Crash(p)
  BY <1>8 DEF Unlock, UnlockFails, Return, Crash, Forget
<1>9. QED
  BY <1>1, <1>2, <1>3, <1>4, <1>5, <1>6, <1>7, <1>8 DEF Step, Arrive, Work

LEMMA StepFresh ==
  ASSUME IInv, NEW p \in Procs, Step(p)
  PROVE  InsertsAreFresh'
<1>0. MongoTypeOK /\ HandlerTypeOK /\ LockDiscipline /\ NoStaleWrite /\ InsertsAreFresh
  BY DEF IInv, TypeOK
<1>1. ASSUME NEW q \in Procs \ {p}
      PROVE  pc'[q] = pc[q] /\ req'[q] = req[q]
  BY <1>0, StepMovesOne DEF Step, OnlyMoves
<1>2. ASSUME NEW q \in Procs, pc'[q] = "insert"
      PROVE  images'[req'[q].id] = NoImage
  <2>1. CASE q = p
    BY <1>0, <1>2, <2>1, HowToInsert DEF Unused
  <2>2. CASE q # p
    <3>1. pc[q] = "insert" /\ req'[q] = req[q] /\ req[q].id \in Images
      BY <1>0, <1>1, <1>2, <2>2, BusyHasRequest
    <3>2. images'[req[q].id] = images[req[q].id]
      BY <1>0, <2>2, <3>1, WhoWrites, WritersApart DEF Step
    <3>3. QED
      BY <1>0, <3>1, <3>2 DEF InsertsAreFresh
  <2>3. QED
    BY <2>1, <2>2
<1>3. ASSUME NEW q \in Procs, pc'[q] = "insert", NEW r \in Procs \ {q}, pc'[r] = "insert"
      PROVE  req'[r].id # req'[q].id
  <2>1. CASE q = p \/ r = p
    BY <1>0, <1>1, <1>3, <2>1, HowToInsert DEF Unused
  <2>2. CASE q # p /\ r # p
    BY <1>0, <1>1, <1>3, <2>2 DEF InsertsAreFresh
  <2>3. QED
    BY <2>1, <2>2
<1>4. QED
  BY <1>2, <1>3 DEF InsertsAreFresh

----------------------------------------------------------------------------
(* The invariant and what it implies.                                      *)

\* The lock library only gives up locks whose holder is gone, and the Kafka
\* clients touch no request and no document.
LEMMA EnvironmentIInv ==
  ASSUME IInv, Environment
  PROVE  IInv'
<1>1. TypeOK'
  BY EnvironmentType
<1>2. UNCHANGED <<images, handlerVars>>
  BY DEF Environment, ReleaseOrphanedLock, DeliverUploaded, DeliverPublished, LoseEvent,
         mongoVars
<1>3. NoStaleWrite' /\ InsertsAreFresh'
  BY <1>2 DEF IInv, NoStaleWrite, InsertsAreFresh, Deciding, handlerVars
<1>4. ASSUME NEW id \in Images, locks[id] \in Procs
      PROVE  locks'[id] = locks[id]
  BY <1>4, LockValuesDiffer
     DEF Environment, ReleaseOrphanedLock, ReleaseOrphan, DeliverUploaded, DeliverPublished,
         LoseEvent, mongoVars, IInv, TypeOK, MongoTypeOK
<1>5. LockDiscipline'
  <2> SUFFICES ASSUME NEW p \in Procs, Holding(p)'
               PROVE  locks'[req'[p].id] = p
    BY DEF LockDiscipline
  <2>1. Holding(p) /\ req'[p] = req[p]
    BY <1>2 DEF Holding, handlerVars
  <2>2. locks[req[p].id] = p /\ req[p].id \in Images
    BY <2>1, BusyHasRequest DEF IInv, TypeOK, LockDiscipline, Holding
  <2>3. QED
    BY <1>4, <2>1, <2>2
<1>6. QED
  BY <1>1, <1>3, <1>5 DEF IInv

LEMMA NextIInv == IInv /\ [Next]_vars => IInv'
<1> SUFFICES ASSUME IInv, [Next]_vars PROVE IInv'
  OBVIOUS
<1>1. ASSUME NEW p \in Procs, Step(p)
      PROVE  IInv'
  BY <1>1, StepType, StepLocks, StepNoStale, StepFresh DEF IInv
<1>2. CASE Environment
  BY <1>2, EnvironmentIInv
<1>3. CASE UNCHANGED vars
  <2>1. UNCHANGED <<mongoVars, handlerVars, uploadedVars, publishedVars>>
    BY <1>3 DEF vars, kafkaVars
  <2>2. TypeOK'
    BY <2>1, HandlerUnchangedType, KafkaUnchangedType DEF IInv, TypeOK, MongoTypeOK, mongoVars
  <2>3. LockDiscipline' /\ NoStaleWrite' /\ InsertsAreFresh'
    BY <2>1 DEF IInv, LockDiscipline, NoStaleWrite, InsertsAreFresh, Holding, Deciding,
                mongoVars, handlerVars
  <2>4. QED
    BY <2>2, <2>3 DEF IInv
<1>4. QED
  BY <1>1, <1>2, <1>3 DEF Next, Step

LEMMA Invariance == Spec => []IInv
<1>1. QED
  BY InitIInv, NextIInv, PTL DEF Spec

\* Whatever bodies clients send and whatever fails, only documents with a known
\* state and typed downloads are stored, and every request is at a call of its
\* own handler.
THEOREM TypeCorrectness == Spec => []TypeOK
<1>1. IInv => TypeOK
  BY DEF IInv
<1>2. QED
  BY <1>1, Invariance, PTL

\* A handler owns the lock of its image from AcquireImageLock to the deferred
\* unlockImage.
THEOREM LockIsHeld == Spec => []LockDiscipline
<1>1. IInv => LockDiscipline
  BY DEF IInv
<1>2. QED
  BY <1>1, Invariance, PTL

\* A request that does not go on under the lock has let go of it.
LEMMA HowToLetGo ==
  ASSUME MongoTypeOK, HandlerTypeOK, NEW p \in Procs, Step(p), Holding(p), locks'[req[p].id] = p
  PROVE  Holding(p)' /\ req'[p] = req[p]
<1> USE DEF HandlerTypeOK, Holding, Goto, Settle
<1>0. req[p].id \in Images
  BY BusyHasRequest
<1>1. CASE Arrive(p) \/ Lock(p)
  BY <1>1 DEF Arrive, CreateImageHandler, UpdateImageHandler, PublishImageHandler,
              CreateDownloadHandler, UpdateDownloadHandler, Receive, Lock
<1>2. CASE InsertImage(p) \/ LockFails(p) \/ Return(p)
  BY <1>2 DEF InsertImage, LockFails, Return
<1>3. CASE GetImage(p) \/ GetImageFails(p)
  BY <1>3 DEF GetImage, GetImageFails, AfterGet
<1>4. CASE UpdateImage(p) \/ AddDownload(p) \/ ReplaceDownload(p) \/ MarkPublished(p)
  BY <1>4 DEF UpdateImage, AddDownload, ReplaceDownload, MarkPublished, Write
<1>5. CASE SendUploaded(p) \/ SendUploadedFails(p) \/ MarkPublishedRefused(p)
  BY <1>5 DEF SendUploaded, SendUploadedFails, MarkPublishedRefused
<1>6. CASE SendPublished(p) \/ SendPublishedFails(p) \/ AllPublished(p)
  BY <1>6 DEF SendPublished, SendPublishedFails, AllPublished
<1>7. CASE Unlock(p) \/ UnlockFails(p) \/ Crash(p)
  <2>1. locks'[req[p].id] # p
    BY <1>0, <1>7, LockValuesDiffer
       DEF Unlock, UnlockFails, Crash, UnlockImage, LoseLock, MongoTypeOK
  <2>2. QED
    BY <2>1
<1>8. QED
  BY <1>1, <1>2, <1>3, <1>4, <1>5, <1>6, <1>7 DEF Step, Work

\* Every lock that is owned is owned by a request under way on that image,
\* whatever requests are refused, calls fail and instances stop.
THEOREM LocksAreReturned == Spec => []NoLockLeftBehind
<1>1. Init => NoLockLeftBehind
  BY LockValuesDiffer DEF Init, InitMongo, NoLockLeftBehind
<1>2. TypeOK /\ NoLockLeftBehind /\ [Next]_vars => NoLockLeftBehind'
  <2> SUFFICES ASSUME TypeOK, NoLockLeftBehind, [Next]_vars,
                      NEW id \in Images, NEW q \in Procs, locks'[id] = q
               PROVE  Holding(q)' /\ req'[q].id = id
    BY DEF NoLockLeftBehind, Holding
  <2>0. MongoTypeOK /\ HandlerTypeOK
    BY DEF TypeOK
  <2>1. ASSUME NEW p \in Procs, Step(p)
        PROVE  Holding(q)' /\ req'[q].id = id
    <3>1. CASE locks[id] = q
      <4>1. Holding(q) /\ req[q].id = id
        BY <3>1 DEF NoLockLeftBehind
      <4>2. CASE q = p
        BY <2>0, <2>1, <4>1, <4>2, HowToLetGo
      <4>3. CASE q # p
        BY <2>0, <2>1, <4>1, <4>3, StepMovesOne DEF Step, OnlyMoves, Holding
      <4>4. QED
        BY <4>2, <4>3
    <3>2. CASE locks[id] # q
      <4>1. Lock(p) /\ id = req[p].id /\ q = p
        BY <2>0, <2>1, <3>2, WhoLocks, LockValuesDiffer DEF Step
      <4>2. pc'[p] = "get" /\ req' = req
        BY <2>0, <4>1 DEF Lock, Goto, HandlerTypeOK
      <4>3. QED
        BY <4>1, <4>2 DEF Holding
    <3>3. QED
      BY <3>1, <3>2
  <2>2. CASE Environment \/ UNCHANGED vars
    <3>1. UNCHANGED handlerVars
      BY <2>2 DEF Environment, ReleaseOrphanedLock, DeliverUploaded, DeliverPublished, LoseEvent, vars
    <3>2. locks'[id] = locks[id] \/ locks'[id] = Free
      BY <2>0, <2>2
         DEF Environment, ReleaseOrphanedLock, ReleaseOrphan, DeliverUploaded, DeliverPublished,
             LoseEvent, vars, mongoVars, MongoTypeOK
    <3>3. QED
      BY <3>1, <3>2, LockValuesDiffer DEF NoLockLeftBehind, Holding, handlerVars
  <2>3. QED
    BY <2>1, <2>2 DEF Next, Step
<1>3. QED
  BY <1>1, <1>2, TypeCorrectness, PTL DEF Spec

\* So no two handlers are between the lock and the unlock of one image.
THEOREM MutualExclusion ==
  Spec => [](\A p, q \in Procs : Holding(p) /\ Holding(q) /\ req[p].id = req[q].id => p = q)
<1>1. IInv => \A p, q \in Procs : Holding(p) /\ Holding(q) /\ req[p].id = req[q].id => p = q
  BY DEF IInv, LockDiscipline
<1>2. QED
  BY <1>1, Invariance, PTL

\* No update is lost: the document a handler read and checked is the stored one
\* when it announces an upload and when it writes.
THEOREM NoLostUpdate == Spec => []NoStaleWrite
<1>1. IInv => NoStaleWrite
  BY DEF IInv
<1>2. QED
  BY <1>1, Invariance, PTL

----------------------------------------------------------------------------
(* The state machine of an image.  One more fact is carried from the       *)
(* arrival of a request to its write: a variant is only ever created as    *)
(* importing.                                                              *)

CreatedAsImporting ==
  \A p \in Procs :
    pc[p] \in {"lock", "get", "write"} /\ req[p].op = "createDownload" =>
      req[p].body.state = "importing"

LEMMA StepCreatedAsImporting ==
  ASSUME HandlerTypeOK, CreatedAsImporting, NEW p \in Procs, Step(p)
  PROVE  CreatedAsImporting'
<1> SUFFICES ASSUME NEW q \in Procs, pc'[q] \in {"lock", "get", "write"},
                    req'[q].op = "createDownload"
             PROVE  req'[q].body.state = "importing"
  BY DEF CreatedAsImporting
<1>1. CASE q # p
  BY <1>1, StepMovesOne DEF Step, OnlyMoves, CreatedAsImporting
<1>2. CASE q = p
  <2> USE <1>2 DEF HandlerTypeOK, Goto, Settle
  <2>1. CASE CreateDownloadHandler(p)
    <3>1. PICK id \in Images, v \in Variants, body \in DownloadBodies :
            Receive(p, [op |-> "createDownload", id |-> id, variant |-> v, body |-> body],
                    CheckNewDownload(body), "lock")
      BY <2>1 DEF CreateDownloadHandler
    <3>2. CheckNewDownload(body) = NoError
      BY <3>1 DEF Receive
    <3>3. body.state = "importing"
      BY <3>2 DEF CheckNewDownload, Refuse, ??, NoError
    <3>4. req'[p].body = body
      BY <3>1 DEF Receive
    <3>5. QED
      BY <3>3, <3>4
  <2>2. CASE UpdateImageHandler(p) \/ PublishImageHandler(p)
             \/ CreateImageHandler(p) \/ UpdateDownloadHandler(p)
    BY <2>2 DEF UpdateImageHandler, PublishImageHandler, CreateImageHandler,
                UpdateDownloadHandler, Receive
  <2>3. CASE Lock(p) \/ LockFails(p) \/ InsertImage(p)
    BY <2>3 DEF Lock, LockFails, InsertImage, CreatedAsImporting
  <2>4. CASE GetImage(p) \/ GetImageFails(p)
    BY <2>4 DEF GetImage, GetImageFails, CreatedAsImporting
  <2>5. CASE UpdateImage(p) \/ AddDownload(p) \/ ReplaceDownload(p) \/ MarkPublished(p)
    BY <2>5 DEF UpdateImage, AddDownload, ReplaceDownload, MarkPublished, Write,
                CreatedAsImporting
  <2>6. CASE SendUploaded(p) \/ SendUploadedFails(p) \/ MarkPublishedRefused(p)
    <3>1. req[p].op = "updateImage" /\ req' = req
      BY <2>6, OpsOf DEF SendUploaded, SendUploadedFails, MarkPublishedRefused
    <3>2. QED
      BY <3>1
  <2>7. CASE SendPublished(p) \/ SendPublishedFails(p) \/ AllPublished(p)
    BY <2>7 DEF SendPublished, SendPublishedFails, AllPublished
  <2>8. CASE Unlock(p) \/ UnlockFails(p) \/ Return(p) \/ Crash(p)
    BY <2>8 DEF Unlock, UnlockFails, Return, Crash, Forget
  <2>9. QED
    BY <2>1, <2>2, <2>3, <2>4, <2>5, <2>6, <2>7, <2>8 DEF Step, Arrive, Work
<1>3. QED
  BY <1>1, <1>2

\* What ImageStateMachine allows a write to make of a document.
Moves(old, new) ==
  /\ new # NoImage
  /\ \/ new.state = old.state
     \/ TransitionAllowed(old.state, new.state) /\ old.state # "completed"
  /\ DOMAIN old.downloads \subseteq DOMAIN new.downloads

\* The derived state is one transition away, or the same.
LEMMA UpdatedStateMoves ==
  ASSUME NEW image
  PROVE  \/ UpdatedState(image) = image.state
         \/ TransitionAllowed(image.state, UpdatedState(image)) /\ image.state # "completed"
BY DEF UpdatedState, TransitionAllowed

\* A write that passed the checks makes a move of the state machine.
LEMMA WrittenMoves ==
  ASSUME TypeOK, NoStaleWrite, CreatedAsImporting, NEW p \in Procs, pc[p] = "write"
  PROVE  LET id == req[p].id
         IN  /\ req[p].op = "updateImage" =>
                  Moves(images[id], Upserted(images[id], ImageUpdate(req[p], existing[p])))
             /\ req[p].op = "createDownload" =>
                  Moves(images[id], Upserted(images[id], DownloadAdded(req[p], existing[p])))
             /\ req[p].op = "updateDownload" =>
                  Moves(images[id], Upserted(images[id], DownloadReplaced(req[p], existing[p])))
             /\ req[p].op = "publish" /\ PathsAreComplete(existing[p]) =>
                  Moves(images[id], Updated(images[id], PublishUpdate(existing[p])))
<1> DEFINE r == req[p]
           image == existing[p]
<1>1. r.id \in Images /\ r.op \in LockedOps
  BY OpsOf, BusyHasRequest DEF TypeOK, HandlerTypeOK
<1>2. images[r.id] = image /\ image \in Image /\ image # NoImage
  BY <1>1 DEF NoStaleWrite, Deciding, TypeOK, MongoTypeOK
<1>3. CheckAgainst(r, image) = NoError
  BY DEF NoStaleWrite, Deciding
<1>4. image.state \in State
  BY <1>2 DEF Image
<1>5. ASSUME NEW s, StateTransitionAllowed(image, s)
      PROVE  TransitionAllowed(image.state, s)
  BY <1>4, <1>5 DEF StateTransitionAllowed
<1>6. \A new \in Image : new # NoImage
  BY NoImageIsNoDocument
<1>7. CASE r.op = "updateImage"
  <2>1. r.body.state # "" => StateTransitionAllowed(image, r.body.state)
    BY <1>3, <1>7 DEF CheckAgainst, ValidateTransitionFrom, Refuse, ??, NoError
  <2>2. image.state # "completed"
    BY <1>3, <1>7 DEF CheckAgainst, ValidateTransitionFrom, Refuse, ??, NoError
  <2> DEFINE new == Upserted(images[r.id], ImageUpdate(r, image))
  <2>3. new \in Image
    BY <1>7, WrittenType
  <2>4. /\ new.state = IF r.body.state # "" THEN r.body.state ELSE image.state
        /\ new.downloads = image.downloads
    BY <1>2, NoDownloadsType DEF Upserted, ImageUpdate
  <2>5. QED
    <3> HIDE DEF new
    <3>1. Moves(image, new)
      BY <1>5, <1>6, <2>1, <2>2, <2>3, <2>4 DEF Moves
    <3>2. QED
      BY <1>2, <1>7, <3>1 DEF new
<1>8. CASE r.op = "createDownload"
  <2>1. r.body.state = "importing"
    BY <1>8 DEF CreatedAsImporting
  <2>2. image.state \in {"uploaded", "importing"}
    BY <1>3, <1>8, <2>1 DEF CheckAgainst, CheckNewVariant, ValidateForImage, Refuse, ??, NoError
  <2> DEFINE new == Upserted(images[r.id], DownloadAdded(r, image))
  <2>3. new \in Image
    BY <1>8, WrittenType
  <2>4. new.state = "importing"
    BY <1>2 DEF Upserted, DownloadAdded, Image
  <2>5. DOMAIN new.downloads = DOMAIN image.downloads \cup {r.variant}
    BY <1>2 DEF Upserted, DownloadAdded, WithDownload, Image
  <2>6. QED
    <3> HIDE DEF new
    <3>1. Moves(image, new)
      BY <1>6, <2>2, <2>3, <2>4, <2>5 DEF Moves, TransitionAllowed
    <3>2. QED
      BY <1>2, <1>8, <3>1 DEF new
<1>9. CASE r.op = "updateDownload"
  <2> DEFINE downloads == WithDownload(image, r.variant,
                            DownloadOf(r, image.downloads[r.variant].links))
             derived == [image EXCEPT !.downloads = downloads]
             new == Upserted(images[r.id], DownloadReplaced(r, image))
  <2>1. new \in Image
    BY <1>9, WrittenType
  <2>2. DOMAIN downloads = DOMAIN image.downloads \cup {r.variant}
    BY DEF WithDownload
  <2>3. derived.state = image.state /\ derived.downloads = downloads
    BY <1>2 DEF Image
  <2>4. /\ DownloadReplaced(r, image).state = UpdatedState(derived)
        /\ DownloadReplaced(r, image).downloads = downloads
    BY <1>2, <2>3 DEF DownloadReplaced, Image
  <2>5. UpdatedState(derived) # ""
    <3> HIDE DEF derived
    <3>1. UpdatedState(derived) \in State
      BY <1>4, <2>3, UpdatedStateType
    <3>2. QED
      BY <3>1 DEF State
  <2>6. new.state = UpdatedState(derived) /\ new.downloads = downloads
    BY <1>2, <2>2, <2>4, <2>5 DEF Upserted
  <2>7. QED
    <3> HIDE DEF new, derived, downloads
    <3>1. Moves(image, new)
      BY <1>6, <2>1, <2>2, <2>3, <2>6, UpdatedStateMoves DEF Moves
    <3>2. QED
      BY <1>2, <1>9, <3>1 DEF new
<1>10. CASE r.op = "publish" /\ PathsAreComplete(image)
  <2>1. StateTransitionAllowed(image, "published")
    BY <1>3, <1>10 DEF CheckAgainst, CheckPublishable, Refuse, NoError
  <2>2. TransitionAllowed(image.state, "published") /\ image.state # "completed"
    BY <1>5, <2>1 DEF TransitionAllowed
  <2> DEFINE new == Updated(images[r.id], PublishUpdate(image))
  <2>3. new \in Image
    BY <1>10, WrittenType
  <2>4. new.state = "published" /\ DOMAIN image.downloads \subseteq DOMAIN new.downloads
    BY <1>2, PublishedDocument
  <2>5. QED
    <3> HIDE DEF new
    <3>1. Moves(image, new)
      BY <1>6, <2>2, <2>3, <2>4 DEF Moves
    <3>2. QED
      BY <1>2, <1>10, <3>1 DEF new
<1>11. QED
  BY <1>1, <1>7, <1>8, <1>9, <1>10 DEF LockedOps

LEMMA StepMoves ==
  ASSUME IInv, CreatedAsImporting, NEW p \in Procs, Step(p),
         NEW id \in Images, images[id] # NoImage, images'[id] # images[id]
  PROVE  Moves(images[id], images'[id])
<1>0. TypeOK /\ MongoTypeOK /\ NoStaleWrite /\ InsertsAreFresh
  BY DEF IInv, TypeOK
<1>1. pc[p] = "write" /\ req[p].id = id
  BY <1>0, WhoWrites DEF Step, InsertsAreFresh
<1>2. ASSUME NEW op, NEW new, NEW label, NEW status, Write(p, op, new, label, status)
      PROVE  images'[id] = new
  BY <1>0, <1>1, <1>2 DEF Write, Put, PutFails, MongoTypeOK
<1>3. CASE UpdateImage(p)
  BY <1>0, <1>1, <1>2, <1>3, WrittenMoves DEF UpdateImage, Write
<1>4. CASE AddDownload(p)
  BY <1>0, <1>1, <1>2, <1>4, WrittenMoves DEF AddDownload, Write
<1>5. CASE ReplaceDownload(p)
  BY <1>0, <1>1, <1>2, <1>5, WrittenMoves DEF ReplaceDownload, Write
<1>6. CASE MarkPublished(p)
  <2> DEFINE new == Updated(images[req[p].id], PublishUpdate(existing[p]))
  <2>1. /\ req[p].op = "publish" /\ PathsAreComplete(existing[p])
        /\ Write(p, "publish", new, "announce", 0)
    BY <1>6 DEF MarkPublished, Write
  <2>2. images'[id] = new
    BY <1>2, <2>1
  <2>3. Moves(images[id], new)
    BY <1>0, <1>1, <2>1, WrittenMoves
  <2>4. QED
    BY <2>2, <2>3
<1>7. UpdateImage(p) \/ AddDownload(p) \/ ReplaceDownload(p) \/ MarkPublished(p)
  BY <1>1 DEF Step, Arrive, CreateImageHandler, UpdateImageHandler, PublishImageHandler,
              CreateDownloadHandler, UpdateDownloadHandler, Receive, Work, Lock, LockFails,
              InsertImage, GetImage, GetImageFails, SendUploaded, SendUploadedFails, MarkPublishedRefused,
              SendPublished, SendPublishedFails, AllPublished, Unlock, UnlockFails, Return,
              Crash, Forget, mongoVars
<1>8. QED
  BY <1>3, <1>4, <1>5, <1>6, <1>7

LEMMA CreatedAsImportingInvariance == Spec => []CreatedAsImporting
<1>1. Init => CreatedAsImporting
  BY DEF Init, CreatedAsImporting
<1>2. IInv /\ CreatedAsImporting /\ [Next]_vars => CreatedAsImporting'
  <2> SUFFICES ASSUME IInv, CreatedAsImporting, [Next]_vars PROVE CreatedAsImporting'
    OBVIOUS
  <2>1. ASSUME NEW p \in Procs, Step(p) PROVE CreatedAsImporting'
    BY <2>1, StepCreatedAsImporting DEF IInv, TypeOK
  <2>2. CASE Environment \/ UNCHANGED vars
    <3>1. UNCHANGED handlerVars
      BY <2>2 DEF Environment, ReleaseOrphanedLock, DeliverUploaded, DeliverPublished,
                  LoseEvent, vars
    <3>2. QED
      BY <3>1 DEF CreatedAsImporting, handlerVars
  <2>3. QED
    BY <2>1, <2>2 DEF Next, Step
<1>3. QED
  BY <1>1, <1>2, Invariance, PTL DEF Spec

\* Every stored image keeps to the table of states, a completed one keeps its
\* state, and neither documents nor variants disappear, through any race of
\* requests and any failure.
THEOREM StateMachineIsKept == Spec => ImageStateMachine
<1> DEFINE Kept == \A id \in Images : images[id] # NoImage =>
              /\ images'[id] # NoImage
              /\ \/ images'[id].state = images[id].state
                 \/ /\ TransitionAllowed(images[id].state, images'[id].state)
                    /\ images[id].state # "completed"
              /\ DOMAIN images[id].downloads \subseteq DOMAIN images'[id].downloads
<1>1. IInv /\ CreatedAsImporting /\ [Next]_vars => [Kept]_vars
  <2> SUFFICES ASSUME IInv, CreatedAsImporting, Next,
                      NEW id \in Images, images[id] # NoImage, images'[id] # images[id]
               PROVE  Moves(images[id], images'[id])
    BY DEF Moves
  <2>1. ASSUME NEW p \in Procs, Step(p) PROVE Moves(images[id], images'[id])
    BY <2>1, StepMoves
  <2>2. ~Environment
    BY DEF Environment, ReleaseOrphanedLock, DeliverUploaded, DeliverPublished, LoseEvent,
           mongoVars
  <2>3. QED
    BY <2>1, <2>2 DEF Next, Step
<1>2. QED
  BY <1>1, Invariance, CreatedAsImportingInvariance, PTL DEF Spec, ImageStateMachine
=============================================================================
