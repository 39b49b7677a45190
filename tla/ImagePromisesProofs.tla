------------------------- MODULE ImagePromisesProofs -------------------------
(***************************************************************************)
(* What the workflow is proved to promise (ImageWorkflowProofs), brought   *)
(* down to the handlers that implement it (ImageRefinementProofs), and     *)
(* what the workflow does not speak of: answers, and events sent twice.    *)
(***************************************************************************)
EXTENDS ImageRefinementProofs

\* The workflow as in ImageRefinement, with the theorems about it.
Promise ==
  INSTANCE ImageWorkflowProofs
  WITH uploads      <- Uploaded!Accepted,
       publications <- Published!Accepted,
       ClientStates <- {body.state : body \in ImageBodies},
       ClientErrors <- {body.error : body \in ImageBodies},
       Reports      <- {body.state : body \in DownloadBodies},
       Lossy        <- Faults \cap {"broker", "crash"} # {}

----------------------------------------------------------------------------
(* It is the same workflow, and its assumptions hold.                      *)

LEMMA AssumptionsHold ==
  /\ NoImage \notin Promise!Image
  /\ Promise!NoType \notin Types
  /\ /\ Entry \in [Variants -> Variants \cup {NoName}]
     /\ \A v \in Variants : Entry[v] # NoName => Entry[Entry[v]] = Entry[v]
     /\ NoName \in Variants => Entry[NoName] = NoName
  /\ /\ {body.state : body \in ImageBodies} \subseteq Promise!StateField
     /\ {body.error : body \in ImageBodies} \subseteq BOOLEAN
     /\ {body.state : body \in DownloadBodies} \subseteq Promise!DownloadStateField
     /\ (Faults \cap {"broker", "crash"} # {}) \in BOOLEAN
<1>1. NoImage \notin Promise!Image
  BY NoImageIsNoDocument
     DEF Promise!Image, Promise!State, Promise!Links, Promise!Downloads, Promise!Download,
         Promise!DownloadState, Promise!NoType,
         Image, State, Links, Downloads, Download, DownloadState, NoType
<1>2. /\ {body.state : body \in ImageBodies} \subseteq Promise!StateField
      /\ {body.error : body \in ImageBodies} \subseteq BOOLEAN
      /\ {body.state : body \in DownloadBodies} \subseteq Promise!DownloadStateField
  BY BodiesAreBodies
     DEF Promise!StateField, Promise!State, Promise!DownloadStateField, Promise!DownloadState,
         ImageBody, DownloadBody, StateField, State, DownloadStateField, DownloadState
<1>3. QED
  BY <1>1, <1>2, TypesAreNonEmpty, EntriesAreNames DEF NoType, Promise!NoType

LEMMA SameWorkflow == Workflow!Spec => Promise!Spec
<1>1. Workflow!Init => Promise!Init
  BY DEF Workflow!Init, Promise!Init
<1>2. Workflow!vars = Promise!vars
  BY DEF Workflow!vars, Promise!vars
<1>3. Workflow!Next => Promise!Next
  BY Zenon DEF Workflow!Next, Workflow!Change, Workflow!Announce, Workflow!Create, Workflow!SetState,
     Workflow!Publish, Workflow!AddVariant, Workflow!MayAdd, Workflow!ReportVariant, Workflow!MayReport,
     Workflow!AnnounceUpload, Workflow!AnnouncePublication, Workflow!LoseUpload, Workflow!LosePublication,
     Workflow!Exists, Workflow!Becomes, Workflow!Hosts, Workflow!SetDownload, Workflow!State,
     Workflow!NoType, Workflow!NoDownloads, Workflow!TransitionAllowed, Workflow!DownloadTransitionAllowed,
     Workflow!DownloadStateTransitionAllowed, Workflow!DownloadState,
     Workflow!PublishedDownloads, Workflow!EmptyDownload,
     Workflow!UpdatedState, Workflow!AllDownloadsOfState, Workflow!AnyDownloadsOfState,
     Promise!Next, Promise!Change, Promise!Announce, Promise!Create, Promise!SetState,
     Promise!Publish, Promise!AddVariant, Promise!MayAdd, Promise!ReportVariant, Promise!MayReport,
     Promise!AnnounceUpload, Promise!AnnouncePublication, Promise!LoseUpload, Promise!LosePublication,
     Promise!Exists, Promise!Becomes, Promise!Hosts, Promise!SetDownload, Promise!State,
     Promise!NoType, Promise!NoDownloads, Promise!TransitionAllowed, Promise!DownloadTransitionAllowed,
     Promise!DownloadStateTransitionAllowed, Promise!DownloadState,
     Promise!PublishedDownloads, Promise!EmptyDownload,
     Promise!UpdatedState, Promise!AllDownloadsOfState, Promise!AnyDownloadsOfState
<1>4. [Workflow!Next]_(Workflow!vars) => [Promise!Next]_(Promise!vars)
  BY <1>3 DEF Workflow!vars, Promise!vars
<1>5. QED
  BY <1>1, <1>4, PTL DEF Workflow!Spec, Promise!Spec

LEMMA KeepsPromise == Spec => Promise!Spec
<1>1. QED
  BY Implementation, SameWorkflow, PTL DEF ImplementsWorkflow

----------------------------------------------------------------------------

\* No request, of whatever body and whatever name of a variant, changes or
\* removes a link of an image or a download: what the handlers that list
\* downloads dereference is there, but in the empty entries that publishing an
\* image leaves for its variants with dots in their names.
THEOREM LinksAreKept == Spec => []LinksAreOwn
<1>1. Promise!LinksStay => LinksAreOwn
  <2>1. Promise!EmptyDownload = EmptyDownload
    BY DEF Promise!EmptyDownload, EmptyDownload, Promise!NoType, NoType
  <2>2. \A image, v : Promise!Leftover(image, v) => Leftover(image, v)
    BY <2>1 DEF Promise!Leftover, Leftover
  <2>3. QED
    BY <2>2 DEF Promise!LinksStay, LinksAreOwn, Promise!Exists
<1>2. Spec => []Promise!LinksStay
  BY Promise!LinksNeverChange, KeepsPromise, AssumptionsHold, PTL
<1>3. QED
  BY <1>1, <1>2, PTL

\* Whatever is asked for and whatever fails, no image has a variant before it
\* has been uploaded and an importer has begun.
THEOREM DownloadsComeAfterUpload == Spec => []DownloadsFollowUpload
<1>1. Promise!ImportsFollowAnnouncements => DownloadsFollowUpload
  BY DEF Promise!ImportsFollowAnnouncements, DownloadsFollowUpload, Promise!Exists
<1>2. Spec => []Promise!ImportsFollowAnnouncements
  BY Promise!AnnouncedFirst, KeepsPromise, AssumptionsHold, PTL
<1>3. QED
  BY <1>1, <1>2, PTL

\* As long as neither instances nor deliveries fail, every image past "created"
\* has been announced to the importer, whichever calls of the handlers to the
\* store or the producer fail.
THEOREM UploadsAreAnnounced ==
  Faults \cap {"broker", "crash"} = {} => (Spec => []UploadAnnounced)
<1> SUFFICES ASSUME Faults \cap {"broker", "crash"} = {}
             PROVE  Spec => []UploadAnnounced
  OBVIOUS
<1>1. Promise!ImportsFollowAnnouncements => UploadAnnounced
  BY DEF Promise!ImportsFollowAnnouncements, UploadAnnounced, Promise!Exists
<1>2. Spec => []Promise!ImportsFollowAnnouncements
  BY Promise!AnnouncedFirst, KeepsPromise, AssumptionsHold, PTL
<1>3. QED
  BY <1>1, <1>2, PTL

\* Whoever gets a static-file-published event finds the image and the variant
\* published, whatever fails and whatever clients do in between, unless the name
\* of the variant has a dot.
THEOREM PublishedEventsAreTrue == Spec => []PublishedEventsMatch
<1>1. Promise!PublicationsAreTrue => PublishedEventsMatch
  BY DEF Promise!PublicationsAreTrue, PublishedEventsMatch, Promise!Exists
<1>2. Spec => []Promise!PublicationsAreTrue
  BY Promise!AnnouncedArePublished, KeepsPromise, AssumptionsHold, PTL
<1>3. QED
  BY <1>1, <1>2, PTL

\* With clients that leave the states of an image past "uploaded" to the API, and
\* name its variants without dots, the state of an image says where its variants
\* are, however many there are and however their reports race, fail or are
\* repeated.
ProtocolBodies ==
  /\ PlainNames
  /\ \A body \in ImageBodies : body.state \in {"uploaded", "deleted"} /\ body.error = FALSE
  /\ \A body \in DownloadBodies : body.state \in {"importing", "imported", "failed", "completed"}

THEOREM StatesSummarise == ProtocolBodies => (Spec => []ImageSummarisesDownloads)
<1> SUFFICES ASSUME ProtocolBodies
             PROVE  Spec => []ImageSummarisesDownloads
  OBVIOUS
<1>1. Promise!ProtocolClients
  BY DEF ProtocolBodies, Promise!ProtocolClients, PlainNames, Promise!PlainNames
<1>2. Promise!StatesSummarise => ImageSummarisesDownloads
  BY <1>1, Zenon DEF Promise!StatesSummarise, ImageSummarisesDownloads, VariantStates,
                     Promise!Summary, Promise!Exists
<1>3. Spec => []Promise!StatesSummarise
  BY Promise!StatesAlwaysSummarise, KeepsPromise, AssumptionsHold, PTL
<1>4. QED
  BY <1>2, <1>3, PTL

----------------------------------------------------------------------------
(* What a success says.                                                    *)

\* While a publish request announces, what it has not to send any more is sent.
AnnouncedSoFar ==
  \A p \in Procs : pc[p] = "announce" =>
    \A v \in DOMAIN images[req[p].id].downloads :
      \/ v \in unsent[p] \/ <<req[p].id, v>> \in Published!Accepted
      \/ Leftover(images[req[p].id], v)

Succeeded == {200, 201, 204}

\* What AnswersAreTrue says of one request, for a document that is there.
SaysTrue(p) ==
  LET image == images[req[p].id]
      r == req[p]
  IN  /\ image # NoImage
      /\ r.op = "updateImage" => image.state = r.body.state
      /\ r.op \in {"createDownload", "updateDownload"} =>
           /\ r.variant \in DOMAIN image.downloads
           /\ image.downloads[r.variant].state = r.body.state
           /\ image.downloads[r.variant].type = r.body.type
      /\ r.op = "publish" =>
           /\ image.state = "published"
           /\ \A v \in DOMAIN image.downloads :
                <<r.id, v>> \in Published!Accepted \/ Leftover(image, v)

SuccessesAreTrue == \A p \in Procs : pc[p] = "unlock" /\ answer[p] \in Succeeded => SaysTrue(p)

AInv == RInv /\ AnnouncedSoFar /\ SuccessesAreTrue

LEMMA OthersKeepAnswer ==
  ASSUME HandlerTypeOK, NEW p \in Procs, Step(p), NEW q \in Procs \ {p}
  PROVE  answer'[q] = answer[q]
<1> USE DEF HandlerTypeOK, Settle, Goto
<1>1. CASE Arrive(p) \/ Lock(p) \/ Crash(p)
  BY <1>1 DEF Arrive, CreateImageHandler, UpdateImageHandler, PublishImageHandler,
              CreateDownloadHandler, UpdateDownloadHandler, Receive, Lock, Crash, Forget
<1>2. CASE LockFails(p) \/ InsertImage(p) \/ GetImage(p) \/ GetImageFails(p)
  BY <1>2 DEF LockFails, InsertImage, GetImage, GetImageFails
<1>3. CASE UpdateImage(p) \/ AddDownload(p) \/ ReplaceDownload(p) \/ MarkPublished(p)
  BY <1>3 DEF UpdateImage, AddDownload, ReplaceDownload, MarkPublished, Write
<1>4. CASE SendUploaded(p) \/ SendUploadedFails(p) \/ MarkPublishedRefused(p)
  BY <1>4 DEF SendUploaded, SendUploadedFails, MarkPublishedRefused
<1>5. CASE SendPublished(p) \/ SendPublishedFails(p) \/ AllPublished(p)
  BY <1>5 DEF SendPublished, SendPublishedFails, AllPublished
<1>6. CASE Unlock(p) \/ UnlockFails(p) \/ Return(p)
  BY <1>6 DEF Unlock, UnlockFails, Return, Forget
<1>7. QED
  BY <1>1, <1>2, <1>3, <1>4, <1>5, <1>6 DEF Step, Work

\* Nobody changes the stored document of a request that holds its lock.
LEMMA HeldIsKept ==
  ASSUME IInv, NEW p \in Procs, Step(p), NEW q \in Procs \ {p},
         Holding(q), images[req[q].id] # NoImage
  PROVE  images'[req[q].id] = images[req[q].id]
<1>0. MongoTypeOK /\ HandlerTypeOK /\ LockDiscipline /\ InsertsAreFresh
  BY DEF IInv, TypeOK
<1>1. req[q].id \in Images
  BY <1>0, BusyHasRequest DEF Holding
<1> SUFFICES ASSUME images'[req[q].id] # images[req[q].id] PROVE FALSE
  OBVIOUS
<1>2. pc[p] \in {"insert", "write"} /\ req[p].id = req[q].id
  BY <1>0, <1>1, WhoWrites DEF Step
<1>3. pc[p] = "insert"
  BY <1>0, <1>2 DEF LockDiscipline, Holding
<1>4. QED
  BY <1>0, <1>2, <1>3 DEF InsertsAreFresh

\* How a request comes to answer a success, and to announce.
LEMMA HowToSucceed ==
  ASSUME HandlerTypeOK, NEW p \in Procs, Step(p)
  PROVE  /\ pc'[p] = "unlock" /\ answer'[p] \in Succeeded =>
              UpdateImage(p) \/ AddDownload(p) \/ ReplaceDownload(p) \/ AllPublished(p)
         /\ pc'[p] = "announce" => MarkPublished(p) \/ SendPublished(p)
<1> USE DEF HandlerTypeOK, Settle, Goto, Succeeded
<1>1. CASE Arrive(p) \/ Lock(p) \/ Crash(p)
  BY <1>1 DEF Arrive, CreateImageHandler, UpdateImageHandler, PublishImageHandler,
              CreateDownloadHandler, UpdateDownloadHandler, Receive, Lock, Crash, Forget
<1>2. CASE LockFails(p) \/ InsertImage(p) \/ GetImageFails(p)
  BY <1>2 DEF LockFails, InsertImage, GetImageFails
<1>3. CASE GetImage(p)
  <2>1. \A error : Status(error) \notin Succeeded
    BY DEF Status
  <2>2. QED
    <3> HIDE DEF Succeeded
    <3>1. QED
      BY <1>3, <2>1 DEF GetImage, AfterGet
<1>4. CASE UpdateImage(p) \/ AddDownload(p) \/ ReplaceDownload(p)
  BY <1>4 DEF UpdateImage, AddDownload, ReplaceDownload, Write
<1>5. CASE MarkPublished(p)
  BY <1>5 DEF MarkPublished, Write
<1>6. CASE SendUploaded(p) \/ SendUploadedFails(p) \/ MarkPublishedRefused(p)
  BY <1>6 DEF SendUploaded, SendUploadedFails, MarkPublishedRefused
<1>7. CASE SendPublished(p) \/ SendPublishedFails(p) \/ AllPublished(p)
  <2>1. CASE SendPublished(p)
    BY <2>1 DEF SendPublished
  <2>2. CASE SendPublishedFails(p)
    BY <2>2 DEF SendPublishedFails
  <2>3. CASE AllPublished(p)
    BY <2>3 DEF AllPublished
  <2>4. QED
    BY <1>7, <2>1, <2>2, <2>3
<1>8. CASE Unlock(p) \/ UnlockFails(p) \/ Return(p)
  BY <1>8 DEF Unlock, UnlockFails, Return, Forget
<1>9. QED
  BY <1>1, <1>2, <1>3, <1>4, <1>5, <1>6, <1>7, <1>8 DEF Step, Work

\* What publishing adds to a document is left over.
LEMMA LeavesOver ==
  ASSUME NEW image \in Image, NEW new, new = Updated(image, PublishUpdate(image))
  PROVE  \A v \in DOMAIN new.downloads : v \in DOMAIN image.downloads \/ Leftover(new, v)
<1>1. DOMAIN new.downloads = DOMAIN image.downloads
                             \cup {Entry[w] : w \in DOMAIN image.downloads}
  BY PublishedDocument
<1>2. ASSUME NEW v \in DOMAIN new.downloads, v \notin DOMAIN image.downloads
      PROVE  Leftover(new, v)
  <2>1. new.downloads[v] = EmptyDownload
    BY <1>2 DEF Updated, PublishUpdate, EntryOf
  <2>2. \E w \in DOMAIN new.downloads : w # v /\ Entry[w] = v
    BY <1>1, <1>2
  <2>3. QED
    BY <2>1, <2>2 DEF Leftover
<1>3. QED
  BY <1>2

\* What the writes store of what was asked for.
LEMMA WrittenAsAsked ==
  ASSUME RInv, NEW p \in Procs, pc[p] = "write"
  PROVE  LET r == req[p]
             stored == images[r.id]
         IN  /\ r.op = "updateImage" =>
                  Upserted(stored, ImageUpdate(r, existing[p])).state = r.body.state
             /\ r.op = "createDownload" =>
                  LET new == Upserted(stored, DownloadAdded(r, existing[p]))
                  IN  /\ r.variant \in DOMAIN new.downloads
                      /\ new.downloads[r.variant].state = r.body.state
                      /\ new.downloads[r.variant].type = r.body.type
             /\ r.op = "updateDownload" =>
                  LET new == Upserted(stored, DownloadReplaced(r, existing[p]))
                  IN  /\ r.variant \in DOMAIN new.downloads
                      /\ new.downloads[r.variant].state = r.body.state
                      /\ new.downloads[r.variant].type = r.body.type
             /\ r.op = "publish" =>
                  LET new == Updated(stored, PublishUpdate(existing[p]))
                  IN  \A v \in DOMAIN new.downloads :
                        v \in DOMAIN existing[p].downloads \/ Leftover(new, v)
<1> DEFINE r == req[p]
           image == existing[p]
<1>1. image = images[r.id] /\ image \in Image /\ image # NoImage
  BY AboutToWrite
<1>2. CASE r.op = "updateImage"
  <2>1. r.body.state # ""
    BY <1>2 DEF RInv, BodiesChecked, State
  <2>2. QED
    BY <1>1, <1>2, <2>1 DEF Upserted, ImageUpdate
<1>3. CASE r.op = "createDownload"
  <2> DEFINE d == WithDownload(image, r.variant, NewDownload(r))
  <2>1. r.body.state = "importing"
    BY <1>3 DEF RInv, CreatedAsImporting
  <2>2. /\ r.variant \in DOMAIN d /\ DOMAIN d # {}
        /\ d[r.variant].state = r.body.state /\ d[r.variant].type = r.body.type
    BY <2>1 DEF WithDownload, NewDownload
  <2>3. DownloadAdded(r, image).downloads = d
    <3> HIDE DEF d
    <3>1. DownloadAdded(r, image) = [image EXCEPT !.downloads = d, !.state = "importing"]
      BY DEF DownloadAdded, d
    <3>2. QED
      BY <1>1, <3>1, WithDownloadsAndState
  <2>4. Upserted(images[r.id], DownloadAdded(r, image)).downloads = d
    <3> HIDE DEF d
    <3>1. QED
      BY <1>1, <2>2, <2>3 DEF Upserted
  <2>5. QED
    <3> HIDE DEF d
    <3>1. QED
      BY <1>3, <2>2, <2>4
<1>4. CASE r.op = "updateDownload"
  <2> DEFINE d == WithDownload(image, r.variant,
                               DownloadOf(r, image.downloads[r.variant].links))
             seen == [image EXCEPT !.downloads = d]
  <2>1. /\ r.variant \in DOMAIN d /\ DOMAIN d # {}
        /\ d[r.variant].state = r.body.state /\ d[r.variant].type = r.body.type
    BY DEF WithDownload, DownloadOf
  <2>2. seen = [state |-> image.state, error |-> image.error, links |-> image.links, downloads |-> d]
    <3> HIDE DEF d
    <3>1. QED
      BY <1>1 DEF Image
  <2>3. DownloadReplaced(r, image).downloads = d
    <3> HIDE DEF seen
    <3>1. DownloadReplaced(r, image) =
            [seen EXCEPT !.state = UpdatedState(seen), !.error = @ \/ r.body.state = "failed"]
      BY DEF DownloadReplaced, seen
    <3>2. QED
      BY <2>2, <3>1
  <2>4. Upserted(images[r.id], DownloadReplaced(r, image)).downloads = d
    <3> HIDE DEF d
    <3>1. QED
      BY <1>1, <2>1, <2>3 DEF Upserted
  <2>5. QED
    <3> HIDE DEF d
    <3>1. QED
      BY <1>4, <2>1, <2>4
<1>5. ASSUME NEW new, new = Updated(image, PublishUpdate(image))
      PROVE  \A v \in DOMAIN new.downloads : v \in DOMAIN image.downloads \/ Leftover(new, v)
  BY <1>1, <1>5, LeavesOver
<1>6. QED
  BY <1>1, <1>2, <1>3, <1>4, <1>5

LEMMA StepSucceeds ==
  ASSUME AInv, NEW p \in Procs, Step(p)
  PROVE  SuccessesAreTrue' /\ AnnouncedSoFar'
<1>0. IInv /\ TypeOK /\ HandlerTypeOK /\ MongoTypeOK /\ RInv
  BY DEF AInv, RInv, IInv, TypeOK
<1>1. Published!Accepted \subseteq Published!Accepted'
  BY <1>0, StepAccepts
<1>2. ASSUME NEW q \in Procs \ {p}, Holding(q), images[req[q].id] # NoImage
      PROVE  /\ images'[req[q].id] = images[req[q].id]
             /\ pc'[q] = pc[q] /\ req'[q] = req[q] /\ answer'[q] = answer[q]
             /\ unsent'[q] = unsent[q]
  BY <1>0, <1>2, HeldIsKept, OthersKeepAnswer, OthersKeepUnsent, StepMovesOne DEF Step, OnlyMoves
<1>3. ASSUME NEW q \in Procs \ {p}
      PROVE  pc'[q] = pc[q] /\ answer'[q] = answer[q]
  BY <1>0, StepMovesOne, OthersKeepAnswer DEF Step, OnlyMoves
<1>4. ASSUME NEW op, NEW new, NEW label, NEW status, Write(p, op, new, label, status),
             status \in Succeeded \/ label = "announce",
             (pc'[p] = "unlock" /\ answer'[p] \in Succeeded) \/ pc'[p] = "announce"
      PROVE  req'[p] = req[p] /\ req[p].id \in Images /\ pc[p] = "write" /\ req[p].op = op
             /\ images'[req[p].id] = new
  <2>1. pc[p] = "write" /\ req' = req /\ req[p].op = op
    BY <1>4 DEF Write
  <2>2. req[p].id \in Images
    BY <1>0, <2>1, BusyHasRequest
  <2>3. Put(req[p].id, new)
    BY <1>0, <1>4 DEF Write, Settle, Goto, HandlerTypeOK, Succeeded
  <2>4. QED
    BY <1>0, <2>1, <2>2, <2>3 DEF Put, MongoTypeOK
<1>5. SuccessesAreTrue'
  <2> SUFFICES ASSUME NEW q \in Procs, pc'[q] = "unlock", answer'[q] \in Succeeded
               PROVE  SaysTrue(q)'
    BY DEF SuccessesAreTrue, Succeeded
  <2>1. CASE q # p
    <3>1. pc[q] = "unlock" /\ answer[q] \in Succeeded
      BY <1>3, <2>1
    <3>2. SaysTrue(q) /\ Holding(q)
      BY <3>1 DEF AInv, SuccessesAreTrue, Holding
    <3>3. /\ images'[req[q].id] = images[req[q].id] /\ req'[q] = req[q]
      BY <1>2, <2>1, <3>2 DEF SaysTrue
    <3>4. QED
      BY <1>1, <3>2, <3>3 DEF SaysTrue
  <2>2. CASE q = p
    <3>1. UpdateImage(p) \/ AddDownload(p) \/ ReplaceDownload(p) \/ AllPublished(p)
      BY <1>0, <2>2, HowToSucceed
    <3>2. CASE UpdateImage(p)
      <4> DEFINE new == Upserted(images[req[p].id], ImageUpdate(req[p], existing[p]))
      <4>1. Write(p, "updateImage", new, "unlock", 200)
        BY <3>2 DEF UpdateImage
      <4>2. /\ req'[p] = req[p] /\ pc[p] = "write" /\ req[p].op = "updateImage"
            /\ images'[req[p].id] = new
        <5> HIDE DEF new
        <5>1. QED
          BY <1>4, <2>2, <4>1 DEF Succeeded
      <4>3. new.state = req[p].body.state /\ new # NoImage
        <5>1. new \in Image
          BY <1>0, <4>2, WrittenType DEF IInv
        <5>2. new # NoImage
          <6> HIDE DEF new
          <6>1. QED
            BY <5>1, NoImageIsNoDocument
        <5>3. QED
          BY <1>0, <4>2, <5>2, WrittenAsAsked
      <4>4. QED
        <5> HIDE DEF new
        <5>1. QED
          BY <2>2, <4>2, <4>3 DEF SaysTrue
    <3>3. CASE AddDownload(p)
      <4> DEFINE new == Upserted(images[req[p].id], DownloadAdded(req[p], existing[p]))
      <4>1. Write(p, "createDownload", new, "unlock", 201)
        BY <3>3 DEF AddDownload
      <4>2. /\ req'[p] = req[p] /\ pc[p] = "write" /\ req[p].op = "createDownload"
            /\ images'[req[p].id] = new
        <5> HIDE DEF new
        <5>1. QED
          BY <1>4, <2>2, <4>1 DEF Succeeded
      <4>3. /\ req[p].variant \in DOMAIN new.downloads /\ new # NoImage
            /\ new.downloads[req[p].variant].state = req[p].body.state
            /\ new.downloads[req[p].variant].type = req[p].body.type
        <5>1. new \in Image
          BY <1>0, <4>2, WrittenType DEF IInv
        <5>2. new # NoImage
          <6> HIDE DEF new
          <6>1. QED
            BY <5>1, NoImageIsNoDocument
        <5>3. QED
          BY <1>0, <4>2, <5>2, WrittenAsAsked
      <4>4. QED
        <5> HIDE DEF new
        <5>1. QED
          BY <2>2, <4>2, <4>3 DEF SaysTrue
    <3>4. CASE ReplaceDownload(p)
      <4> DEFINE new == Upserted(images[req[p].id], DownloadReplaced(req[p], existing[p]))
      <4>1. Write(p, "updateDownload", new, "unlock", 200)
        BY <3>4 DEF ReplaceDownload
      <4>2. /\ req'[p] = req[p] /\ pc[p] = "write" /\ req[p].op = "updateDownload"
            /\ images'[req[p].id] = new
        <5> HIDE DEF new
        <5>1. QED
          BY <1>4, <2>2, <4>1 DEF Succeeded
      <4>3. /\ req[p].variant \in DOMAIN new.downloads /\ new # NoImage
            /\ new.downloads[req[p].variant].state = req[p].body.state
            /\ new.downloads[req[p].variant].type = req[p].body.type
        <5>1. new \in Image
          BY <1>0, <4>2, WrittenType DEF IInv
        <5>2. new # NoImage
          <6> HIDE DEF new
          <6>1. QED
            BY <5>1, NoImageIsNoDocument
        <5>3. QED
          BY <1>0, <4>2, <5>2, WrittenAsAsked
      <4>4. QED
        <5> HIDE DEF new
        <5>1. QED
          BY <2>2, <4>2, <4>3 DEF SaysTrue
    <3>5. CASE AllPublished(p)
      <4>1. /\ pc[p] = "announce" /\ unsent[p] = {} /\ req' = req /\ images' = images
            /\ UNCHANGED Published!Accepted
        BY <1>0, <3>5, PublishedAccepted DEF AllPublished, mongoVars, kafkaVars, TypeOK
      <4>2. req[p].op = "publish"
        BY <1>0, <4>1 DEF HandlerTypeOK, Ops
      <4>3. QED
        BY <2>2, <4>1, <4>2 DEF AInv, RInv, Announcing, AnnouncedSoFar, SaysTrue
    <3>6. QED
      BY <3>1, <3>2, <3>3, <3>4, <3>5
  <2>3. QED
    BY <2>1, <2>2
<1>6. AnnouncedSoFar'
  <2> SUFFICES ASSUME NEW q \in Procs, pc'[q] = "announce",
                      NEW v \in DOMAIN (images'[req'[q].id].downloads)
               PROVE  \/ v \in unsent'[q] \/ <<req'[q].id, v>> \in Published!Accepted'
                      \/ Leftover(images'[req'[q].id], v)
    BY DEF AnnouncedSoFar
  <2>1. CASE q # p
    <3>1. pc[q] = "announce" /\ Holding(q)
      BY <1>3, <2>1 DEF Holding
    <3>2. images[req[q].id] # NoImage
      BY <3>1 DEF AInv, RInv, Announcing
    <3>3. /\ images'[req[q].id] = images[req[q].id] /\ req'[q] = req[q]
          /\ unsent'[q] = unsent[q]
      BY <1>2, <2>1, <3>1, <3>2
    <3>4. QED
      BY <1>1, <3>1, <3>3 DEF AInv, AnnouncedSoFar
  <2>2. CASE q = p
    <3>1. MarkPublished(p) \/ SendPublished(p)
      BY <1>0, <2>2, HowToSucceed
    <3>2. CASE MarkPublished(p)
      <4> DEFINE new == Updated(images[req[p].id], PublishUpdate(existing[p]))
      <4>1. Write(p, "publish", new, "announce", 0)
        BY <3>2 DEF MarkPublished
      <4>2. /\ req'[p] = req[p] /\ pc[p] = "write" /\ req[p].op = "publish"
            /\ images'[req[p].id] = new
        <5> HIDE DEF new
        <5>1. QED
          BY <1>4, <2>2, <4>1
      <4>3. \A w \in DOMAIN new.downloads :
              w \in DOMAIN existing[p].downloads \/ Leftover(new, w)
        BY <1>0, <4>2, WrittenAsAsked
      <4>4. unsent'[p] = DOMAIN existing[p].downloads
        BY <1>0, <2>2, <3>2 DEF MarkPublished, HandlerTypeOK
      <4>5. QED
        <5> HIDE DEF new
        <5>1. QED
          BY <2>2, <4>2, <4>3, <4>4
    <3>3. CASE SendPublished(p)
      <4>1. /\ pc[p] = "announce" /\ req' = req /\ images' = images
            /\ req[p].id \in Images
        BY <1>0, <3>3, BusyHasRequest DEF SendPublished, mongoVars
      <4>2. PICK w \in unsent[p] : /\ Published!Send(<<req[p].id, w>>)
                                   /\ unsent' = [unsent EXCEPT ![p] = @ \ {w}]
        BY <3>3 DEF SendPublished
      <4>3. unsent'[p] = unsent[p] \ {w} /\ w \in Variants
        BY <1>0, <4>2 DEF HandlerTypeOK
      <4>4. Published!Accepted' = Published!Accepted \cup {<<req[p].id, w>>}
        BY <1>0, <4>1, <4>2, <4>3, PublishedAccepted DEF TypeOK
      <4>5. QED
        BY <2>2, <4>1, <4>3, <4>4 DEF AInv, AnnouncedSoFar
    <3>4. QED
      BY <3>1, <3>2, <3>3
  <2>3. QED
    BY <2>1, <2>2
<1>7. QED
  BY <1>5, <1>6

\* As long as no event is lost, a success means what it says: the document holds
\* what the request asked for, and 204 means that the image is published and
\* every one of its variants announced, however often the loop over them fails.
THEOREM SuccessMeansDone ==
  Faults \cap {"broker", "crash"} = {} => (Spec => []AnswersAreTrue)
<1> SUFFICES ASSUME Faults \cap {"broker", "crash"} = {}
             PROVE  Spec => []AnswersAreTrue
  OBVIOUS
<1>1. Init => AInv
  <2> SUFFICES ASSUME Init PROVE AInv
    OBVIOUS
  <2>1. \A p \in Procs : pc[p] = "idle"
    BY DEF Init
  <2>2. QED
    BY <2>1, InitRInv DEF AInv, AnnouncedSoFar, SuccessesAreTrue
<1>2. AInv /\ [Next]_vars => AInv'
  <2> SUFFICES ASSUME AInv, [Next]_vars PROVE AInv'
    OBVIOUS
  <2>1. ASSUME NEW p \in Procs, Step(p) PROVE AInv'
    BY <2>1, StepRInv, StepSucceeds DEF AInv
  <2>2. CASE Environment \/ UNCHANGED vars
    <3>1. UNCHANGED <<images, handlerVars>>
      BY <2>2 DEF Environment, ReleaseOrphanedLock, DeliverUploaded, DeliverPublished, LoseEvent,
                  mongoVars, vars
    <3>2. UNCHANGED Published!Accepted
      BY <2>2, PublishedAccepted
         DEF AInv, RInv, IInv, TypeOK, Environment, ReleaseOrphanedLock, DeliverUploaded,
             DeliverPublished, LoseEvent, kafkaVars, vars
    <3>3. SuccessesAreTrue' /\ AnnouncedSoFar'
      BY <3>1, <3>2 DEF AInv, SuccessesAreTrue, AnnouncedSoFar, SaysTrue, handlerVars
    <3>4. QED
      BY <2>2, <3>3, EnvironmentRInv DEF AInv
  <2>3. QED
    BY <2>1, <2>2 DEF Next, Step
<1>3. AInv => AnswersAreTrue
  <2> SUFFICES ASSUME AInv, NEW p \in Procs, pc[p] = "unlock", answer[p] \in Succeeded
               PROVE  LET image == images[req[p].id]
                          r == req[p]
                      IN  CASE r.op = "updateImage" -> image.state = r.body.state
                            [] r.op \in {"createDownload", "updateDownload"} ->
                                 /\ r.variant \in DOMAIN image.downloads
                                 /\ image.downloads[r.variant].state = r.body.state
                                 /\ image.downloads[r.variant].type = r.body.type
                            [] r.op = "publish" ->
                                 /\ image.state = "published"
                                 /\ \A v \in DOMAIN image.downloads :
                                      \/ <<r.id, v>> \in Published!Accepted
                                      \/ Leftover(image, v)
    BY DEF AnswersAreTrue, Succeeded
  <2>1. SaysTrue(p)
    BY DEF AInv, SuccessesAreTrue
  <2>2. req[p].op \in LockedOps
    BY OpsOf DEF AInv, RInv, IInv, TypeOK, HandlerTypeOK
  <2>3. QED
    BY <2>1, <2>2 DEF SaysTrue, LockedOps
<1>4. QED
  BY <1>1, <1>2, <1>3, PTL DEF Spec

----------------------------------------------------------------------------
(* Nothing is announced twice.                                             *)

LEMMA QueuesDiffer ==
  ASSUME NEW S, NEW q \in Seq(S), NEW e
  PROVE  /\ q # Append(q, e)
         /\ q # <<>> => Tail(q) # Append(q, e)
<1>1. Len(q) \in Nat /\ Len(Append(q, e)) = Len(q) + 1
  OBVIOUS
<1>2. q # <<>> => Len(Tail(q)) = Len(q) - 1
  OBVIOUS
<1>3. QED
  BY <1>1, <1>2

LEMMA AppendsDiffer ==
  ASSUME NEW S, NEW q \in Seq(S), NEW a, NEW b, Append(q, a) = Append(q, b)
  PROVE  a = b
<1>1. Append(q, a)[Len(q) + 1] = a /\ Append(q, b)[Len(q) + 1] = b
  OBVIOUS
<1>2. QED
  BY <1>1

\* Only the announcement of an upload and that of a publication touch a queue.
LEMMA OnlyAnnouncingPublishes ==
  ASSUME NEW p \in Procs, Step(p)
  PROVE  /\ ~SendPublished(p) => publishedOut' = publishedOut
         /\ ~SendUploaded(p) => uploadedOut' = uploadedOut
<1> USE DEF kafkaVars, uploadedVars, publishedVars
<1>1. CASE Arrive(p) \/ Lock(p) \/ Crash(p)
  BY <1>1 DEF Arrive, CreateImageHandler, UpdateImageHandler, PublishImageHandler,
              CreateDownloadHandler, UpdateDownloadHandler, Receive, Lock, Crash, Forget
<1>2. CASE LockFails(p) \/ InsertImage(p) \/ GetImage(p) \/ GetImageFails(p)
  BY <1>2 DEF LockFails, InsertImage, GetImage, GetImageFails
<1>3. CASE UpdateImage(p) \/ AddDownload(p) \/ ReplaceDownload(p) \/ MarkPublished(p)
  BY <1>3 DEF UpdateImage, AddDownload, ReplaceDownload, MarkPublished, Write
<1>4. CASE SendUploaded(p) \/ SendUploadedFails(p) \/ MarkPublishedRefused(p)
  BY <1>4 DEF SendUploaded, SendUploadedFails, MarkPublishedRefused
<1>5. CASE SendPublished(p) \/ SendPublishedFails(p) \/ AllPublished(p)
  BY <1>5 DEF SendPublished, SendPublishedFails, AllPublished
<1>6. CASE Unlock(p) \/ UnlockFails(p) \/ Return(p)
  BY <1>6 DEF Unlock, UnlockFails, Return, Forget
<1>7. QED
  BY <1>1, <1>2, <1>3, <1>4, <1>5, <1>6 DEF Step, Work

\* What a publish request has still to send has not been sent, by any request.
UnsentIsNew ==
  \A p \in Procs : pc[p] = "announce" =>
    \A v \in unsent[p] : <<req[p].id, v>> \notin Published!Accepted

LEMMA StepUnsentIsNew ==
  ASSUME RInv, PublishedEventsMatch, UnsentIsNew, NEW p \in Procs, Step(p)
  PROVE  UnsentIsNew'
<1>0. IInv /\ TypeOK /\ HandlerTypeOK /\ LockDiscipline
  BY DEF RInv, IInv, TypeOK
<1> SUFFICES ASSUME NEW q \in Procs, pc'[q] = "announce", NEW v \in unsent'[q]
             PROVE  <<req'[q].id, v>> \notin Published!Accepted'
  BY DEF UnsentIsNew
<1>1. CASE q # p
  <2>1. pc[q] = "announce" /\ req'[q] = req[q] /\ unsent'[q] = unsent[q] /\ req[q].id \in Images
    BY <1>0, <1>1, StepMovesOne, OthersKeepUnsent, BusyHasRequest DEF Step, OnlyMoves
  <2>2. <<req[q].id, v>> \notin Published!Accepted
    BY <2>1 DEF UnsentIsNew
  <2>3. CASE SendPublished(p)
    <3>1. pc[p] = "announce" /\ req[p].id # req[q].id
      BY <1>0, <1>1, <2>1, <2>3 DEF SendPublished, LockDiscipline, Holding
    <3>2. QED
      BY <1>0, <2>1, <2>2, <2>3, <3>1, StepAccepts
  <2>4. CASE ~SendPublished(p)
    BY <1>0, <2>1, <2>2, <2>4, StepAccepts
  <2>5. QED
    BY <2>3, <2>4
<1>2. CASE q = p
  <2>1. MarkPublished(p) \/ SendPublished(p)
    BY <1>0, <1>2, HowToSucceed
  <2>2. CASE MarkPublished(p)
    <3> DEFINE image == images[req[p].id]
    <3>1. pc[p] = "write" /\ req[p].op = "publish" /\ req' = req
          /\ UNCHANGED publishedVars
      BY <2>2 DEF MarkPublished, Write, kafkaVars
    <3>2. /\ req[p].id \in Images /\ existing[p] = image /\ image \in Image
          /\ CheckAgainst(req[p], existing[p]) = NoError
      BY <3>1, AboutToWrite
    <3>3. image.state = "imported"
      <4>1. image.state \in State
        BY <3>2 DEF Image
      <4>2. QED
        BY <3>1, <3>2, <4>1 DEF CheckAgainst, CheckPublishable, Refuse, NoError,
                                StateTransitionAllowed, TransitionAllowed
    <3>4. v \in Variants
      <4>1. unsent'[p] \in SUBSET Variants
        BY <1>0, StepRInv DEF RInv, IInv, TypeOK, HandlerTypeOK
      <4>2. QED
        BY <1>2, <4>1
    <3>5. <<req[p].id, v>> \notin Published!Accepted
      BY <3>2, <3>3, <3>4 DEF PublishedEventsMatch
    <3>6. UNCHANGED Published!Accepted
      BY <1>0, <3>1, PublishedAccepted DEF TypeOK
    <3>7. QED
      BY <1>2, <3>1, <3>5, <3>6
  <2>3. CASE SendPublished(p)
    <3>1. pc[p] = "announce" /\ req' = req /\ req[p].id \in Images
      BY <1>0, <2>3, BusyHasRequest DEF SendPublished
    <3>2. PICK w \in unsent[p] : /\ Published!Send(<<req[p].id, w>>)
                                 /\ unsent' = [unsent EXCEPT ![p] = @ \ {w}]
      BY <2>3 DEF SendPublished
    <3>3. unsent'[p] = unsent[p] \ {w} /\ w \in Variants
      BY <1>0, <3>2 DEF HandlerTypeOK
    <3>4. Published!Accepted' = Published!Accepted \cup {<<req[p].id, w>>}
      BY <1>0, <3>1, <3>2, <3>3, PublishedAccepted DEF TypeOK
    <3>5. QED
      BY <1>2, <3>1, <3>3, <3>4 DEF UnsentIsNew
  <2>4. QED
    BY <2>1, <2>2, <2>3
<1>3. QED
  BY <1>1, <1>2

LEMMA UnsentInvariance == Spec => []UnsentIsNew
<1>1. Init => UnsentIsNew
  BY DEF Init, UnsentIsNew
<1>2. RInv /\ PublishedEventsMatch /\ UnsentIsNew /\ [Next]_vars => UnsentIsNew'
  <2> SUFFICES ASSUME RInv, PublishedEventsMatch, UnsentIsNew, [Next]_vars PROVE UnsentIsNew'
    OBVIOUS
  <2>1. ASSUME NEW p \in Procs, Step(p) PROVE UnsentIsNew'
    BY <2>1, StepUnsentIsNew
  <2>2. CASE Environment \/ UNCHANGED vars
    <3>1. UNCHANGED handlerVars
      BY <2>2 DEF Environment, ReleaseOrphanedLock, DeliverUploaded, DeliverPublished, LoseEvent,
                  vars
    <3>2. Published!Accepted' \subseteq Published!Accepted
      BY <2>2, PublishedAccepted
         DEF RInv, IInv, TypeOK, Environment, ReleaseOrphanedLock, DeliverUploaded,
             DeliverPublished, LoseEvent, kafkaVars, vars
    <3>3. QED
      BY <3>1, <3>2 DEF UnsentIsNew, handlerVars
  <2>3. QED
    BY <2>1, <2>2 DEF Next, Step
<1>3. QED
  BY <1>1, <1>2, RInvariance, PublishedEventsAreTrue, PTL DEF Spec

\* No variant whose event is in the producer or on the topic is announced to the
\* publisher again, however publish requests race and whatever fails.
THEOREM PublishedAtMostOnce == Spec => PublishedOnce
<1>1. RInv /\ UnsentIsNew /\ [Next]_vars =>
        [\A e \in Images \X Variants : e \in Published!Accepted =>
           publishedOut' # Append(publishedOut, e)]_vars
  <2> SUFFICES ASSUME RInv, UnsentIsNew, Next, NEW e \in Images \X Variants,
                      e \in Published!Accepted, publishedOut' = Append(publishedOut, e)
               PROVE  FALSE
    OBVIOUS
  <2>0. TypeOK /\ HandlerTypeOK /\ publishedOut \in Seq(Images \X Variants)
    BY DEF RInv, IInv, TypeOK, Published!TypeOK
  <2>1. /\ publishedOut # Append(publishedOut, e)
        /\ publishedOut # <<>> => Tail(publishedOut) # Append(publishedOut, e)
    <3> DEFINE Events == Images \X Variants
    <3> HIDE DEF Events
    <3>1. publishedOut \in Seq(Events)
      BY <2>0 DEF Events
    <3>2. QED
      BY <3>1, QueuesDiffer
  <2>2. PICK p \in Procs : SendPublished(p)
    <3>1. ASSUME NEW p \in Procs, Step(p), ~SendPublished(p)
          PROVE  FALSE
      BY <2>1, <3>1, OnlyAnnouncingPublishes
    <3>2. ASSUME Environment
          PROVE  FALSE
      BY <2>1, <3>2 DEF Environment, ReleaseOrphanedLock, DeliverUploaded, DeliverPublished,
            LoseEvent, Published!Deliver, Published!Drop, kafkaVars, publishedVars
    <3>3. QED
      BY <3>1, <3>2 DEF Next, Step
  <2>3. PICK v \in unsent[p] : Published!Send(<<req[p].id, v>>)
    BY <2>2 DEF SendPublished
  <2>4. <<req[p].id, v>> \notin Published!Accepted
    BY <2>2, <2>3 DEF UnsentIsNew, SendPublished
  <2>5. Append(publishedOut, e) = Append(publishedOut, <<req[p].id, v>>)
    BY <2>3 DEF Published!Send
  <2>6. e = <<req[p].id, v>>
    <3> DEFINE Events == Images \X Variants
    <3> HIDE DEF Events
    <3>1. publishedOut \in Seq(Events)
      BY <2>0 DEF Events
    <3>2. QED
      BY <2>5, <3>1, AppendsDiffer
  <2>7. QED
    BY <2>4, <2>6
<1>2. QED
  BY <1>1, RInvariance, UnsentInvariance, PTL DEF Spec, PublishedOnce

\* An image that is announced but not uploaded yet is about to be: the request
\* that announced it holds the lock and writes next.
UploadsPending ==
  \A id \in Images : id \in Uploaded!Accepted =>
    /\ images[id] # NoImage
    /\ images[id].state = "created" =>
         \E p \in Procs : /\ pc[p] = "write" /\ req[p].id = id
                          /\ req[p].op = "updateImage" /\ req[p].body.state = "uploaded"

LEMMA StepUploadsPending ==
  ASSUME Faults \cap {"mongo", "crash"} = {},
         RInv, UploadsPending, NEW p \in Procs, Step(p)
  PROVE  UploadsPending'
<1>0. IInv /\ TypeOK /\ HandlerTypeOK /\ MongoTypeOK /\ CreatedAsImporting
  BY DEF RInv, IInv, TypeOK
<1> SUFFICES ASSUME NEW id \in Images, id \in Uploaded!Accepted'
             PROVE  /\ images'[id] # NoImage
                    /\ images'[id].state = "created" =>
                         \E q \in Procs : /\ pc'[q] = "write" /\ req'[q].id = id
                                          /\ req'[q].op = "updateImage"
                                          /\ req'[q].body.state = "uploaded"
  BY DEF UploadsPending
<1>1. CASE id \notin Uploaded!Accepted
  <2>1. SendUploaded(p) /\ id = req[p].id
    BY <1>0, <1>1, StepAccepts
  <2>2. /\ images' = images /\ req' = req /\ pc'[p] = "write" /\ pc[p] = "sendUploaded"
    BY <1>0, <2>1 DEF SendUploaded, Goto, mongoVars, HandlerTypeOK
  <2>3. QED
    BY <2>1, <2>2, AboutToAnnounce
<1>2. CASE id \in Uploaded!Accepted
  <2>1. images[id] # NoImage
    BY <1>2 DEF UploadsPending
  <2>2. images'[id] # images[id] => Moves(images[id], images'[id])
    BY <1>0, <2>1, StepMoves
  <2>3. images'[id] # NoImage
    BY <2>1, <2>2 DEF Moves
  <2>4. ASSUME images'[id].state = "created"
        PROVE  \E q \in Procs : /\ pc'[q] = "write" /\ req'[q].id = id
                                /\ req'[q].op = "updateImage" /\ req'[q].body.state = "uploaded"
    <3>1. images[id].state = "created"
      BY <2>2, <2>4 DEF Moves, TransitionAllowed
    <3>2. PICK q \in Procs : /\ pc[q] = "write" /\ req[q].id = id
                             /\ req[q].op = "updateImage" /\ req[q].body.state = "uploaded"
      BY <1>2, <3>1 DEF UploadsPending
    <3>3. q # p
      <4> SUFFICES ASSUME q = p PROVE FALSE
        OBVIOUS
      <4> DEFINE new == Upserted(images[req[p].id], ImageUpdate(req[p], existing[p]))
      <4>1. UpdateImage(p)
        BY <3>2 DEF Step, Arrive, CreateImageHandler, UpdateImageHandler, PublishImageHandler,
              CreateDownloadHandler, UpdateDownloadHandler, Receive, Work, Lock, LockFails, InsertImage,
              GetImage, GetImageFails, AddDownload, ReplaceDownload, MarkPublished, Write, SendUploaded,
              SendUploadedFails, MarkPublishedRefused, SendPublished, SendPublishedFails, AllPublished,
              Unlock, UnlockFails, Return, Crash
      <4>2. images'[id] = new
        <5> HIDE DEF new
        <5>1. Write(p, "updateImage", new, "unlock", 200)
          BY <4>1 DEF UpdateImage, new
        <5>2. QED
          BY <1>0, <3>2, <5>1 DEF Write, Put, MongoTypeOK
      <4>3. new.state = "uploaded"
        BY <3>2, WrittenAsAsked
      <4>4. QED
        <5> HIDE DEF new
        <5>1. QED
          BY <2>4, <4>2, <4>3
    <3>4. pc'[q] = pc[q] /\ req'[q] = req[q]
      BY <1>0, <3>3, StepMovesOne DEF Step, OnlyMoves
    <3>5. QED
      BY <3>2, <3>4
  <2>5. QED
    BY <2>3, <2>4
<1>3. QED
  BY <1>1, <1>2

LEMMA UploadsPendingInvariance ==
  Faults \cap {"mongo", "crash"} = {} => (Spec => []UploadsPending)
<1> SUFFICES ASSUME Faults \cap {"mongo", "crash"} = {}
             PROVE  Spec => []UploadsPending
  OBVIOUS
<1>1. Init => UploadsPending
  BY DEF Init, Uploaded!Init, UploadsPending, Uploaded!Accepted
<1>2. RInv /\ UploadsPending /\ [Next]_vars => UploadsPending'
  <2> SUFFICES ASSUME RInv, UploadsPending, [Next]_vars PROVE UploadsPending'
    OBVIOUS
  <2>1. ASSUME NEW p \in Procs, Step(p) PROVE UploadsPending'
    BY <2>1, StepUploadsPending
  <2>2. CASE Environment \/ UNCHANGED vars
    <3>1. UNCHANGED <<images, handlerVars>>
      BY <2>2 DEF Environment, ReleaseOrphanedLock, DeliverUploaded, DeliverPublished, LoseEvent,
                  mongoVars, vars
    <3>2. Uploaded!Accepted' \subseteq Uploaded!Accepted
      BY <2>2, UploadedAccepted
         DEF RInv, IInv, TypeOK, Environment, ReleaseOrphanedLock, DeliverUploaded,
             DeliverPublished, LoseEvent, kafkaVars, vars
    <3>3. QED
      BY <3>1, <3>2 DEF UploadsPending, handlerVars
  <2>3. QED
    BY <2>1, <2>2 DEF Next, Step
<1>3. QED
  BY <1>1, <1>2, RInvariance, PTL DEF Spec

\* A step that announces an image has found it created, and nobody else is about
\* to write it.
LEMMA AnnouncedByOne ==
  ASSUME RInv, Next, NEW id \in Images, uploadedOut' = Append(uploadedOut, id)
  PROVE  /\ images[id].state = "created"
         /\ ~\E q \in Procs : pc[q] = "write" /\ req[q].id = id
<1>0. TypeOK /\ LockDiscipline /\ uploadedOut \in Seq(Images)
  BY DEF RInv, IInv, TypeOK, Uploaded!TypeOK
<1>1. /\ uploadedOut # Append(uploadedOut, id)
      /\ uploadedOut # <<>> => Tail(uploadedOut) # Append(uploadedOut, id)
  BY <1>0, QueuesDiffer
<1>2. PICK p \in Procs : SendUploaded(p)
  <2>1. ASSUME NEW p \in Procs, Step(p), ~SendUploaded(p)
        PROVE  FALSE
    BY <1>1, <2>1, OnlyAnnouncingPublishes
  <2>2. ASSUME Environment
        PROVE  FALSE
    BY <1>1, <2>2 DEF Environment, ReleaseOrphanedLock, DeliverUploaded, DeliverPublished,
          LoseEvent, Uploaded!Deliver, Uploaded!Drop, kafkaVars, uploadedVars
  <2>3. QED
    BY <2>1, <2>2 DEF Next, Step
<1>3. /\ pc[p] = "sendUploaded" /\ req[p].id \in Images
      /\ images[req[p].id].state = "created"
  BY <1>2, AboutToAnnounce DEF SendUploaded
<1>4. id = req[p].id
  <2>1. Append(uploadedOut, id) = Append(uploadedOut, req[p].id)
    BY <1>2 DEF SendUploaded, Uploaded!Send
  <2>2. QED
    BY <1>0, <1>3, <2>1, AppendsDiffer
<1>5. ASSUME NEW q \in Procs, pc[q] = "write", req[q].id = id
      PROVE  FALSE
  BY <1>0, <1>3, <1>4, <1>5 DEF LockDiscipline, Holding
<1>6. QED
  BY <1>3, <1>4, <1>5

\* An announced image is announced again only when the write that had to follow
\* has failed, whatever else fails or stops.
THEOREM UploadedAgainToRetry == Spec => UploadedOnce
<1>1. RInv /\ [Next]_vars =>
        [\A id \in Images :
           id \in Uploaded!Accepted /\ uploadedOut' = Append(uploadedOut, id) =>
             /\ images[id].state = "created"
             /\ ~\E p \in Procs : pc[p] = "write" /\ req[p].id = id]_vars
  BY AnnouncedByOne
<1>2. QED
  BY <1>1, RInvariance, PTL DEF Spec, UploadedOnce

\* While no call to the store fails and no instance stops, an image is announced
\* for import at most once, however many clients upload it at the same time.
THEOREM UploadedAtMostOnce ==
  Faults \cap {"mongo", "crash"} = {} =>
    (Spec => [][\A id \in Images : id \in Uploaded!Accepted =>
                  uploadedOut' # Append(uploadedOut, id)]_vars)
<1> SUFFICES ASSUME Faults \cap {"mongo", "crash"} = {}
             PROVE  Spec => [][\A id \in Images : id \in Uploaded!Accepted =>
                                 uploadedOut' # Append(uploadedOut, id)]_vars
  OBVIOUS
<1>1. RInv /\ UploadsPending /\ [Next]_vars =>
        [\A id \in Images : id \in Uploaded!Accepted =>
           uploadedOut' # Append(uploadedOut, id)]_vars
  BY AnnouncedByOne DEF UploadsPending
<1>2. QED
  BY <1>1, UploadsPendingInvariance, RInvariance, PTL DEF Spec

----------------------------------------------------------------------------
(* Variants move along their table.                                        *)

\* What DownloadStateMachine allows a step to make of the variants of an image,
\* and which variants there are once the image is imported or past it.
VariantsMove(old, new) ==
  /\ \A v \in DOMAIN old.downloads :
       LET before == old.downloads[v].state
           after  == new.downloads[v].state
       IN  before = after \/ DownloadTransitionAllowed(before, after)
  /\ old.state \notin {"uploaded", "importing"} => DOMAIN new.downloads = DOMAIN old.downloads

LEMMA ChangeMovesVariants ==
  ASSUME PlainNames, MongoTypeOK, ImageSummarisesDownloads, DownloadsFollowUpload,
          NEW i \in Images, Workflow!Change(i),
         NEW id \in Images, images[id] # NoImage
  PROVE  VariantsMove(images[id], images'[id])
<1> DEFINE old == images[i]
<1>1. ASSUME NEW new, Workflow!Becomes(i, new)
      PROVE  /\ images'[i] = new
             /\ id # i => images'[id] = images[id]
  BY <1>1 DEF Workflow!Becomes, MongoTypeOK
<1>2. ASSUME id = i
      PROVE  old \in Image /\ old # NoImage
  BY <1>2 DEF MongoTypeOK
<1>3. images'[id] = images[id] => VariantsMove(images[id], images'[id])
  BY DEF VariantsMove
<1>4. CASE Workflow!Create(i)
  BY <1>1, <1>3, <1>4 DEF Workflow!Create, Workflow!Exists
<1>5. CASE Workflow!SetState(i)
  <2>1. PICK s, e : Workflow!Becomes(i, [old EXCEPT !.state = s, !.error = @ \/ e])
    BY <1>5 DEF Workflow!SetState
  <2>2. CASE id = i
    <3>1. images'[i].downloads = old.downloads
      <4>1. [old EXCEPT !.state = s, !.error = @ \/ e] =
              [state |-> s, error |-> old.error \/ e, links |-> old.links,
               downloads |-> old.downloads]
        BY <1>2, <2>2, WithStateAndError
      <4>2. images'[i] = [old EXCEPT !.state = s, !.error = @ \/ e]
        BY <1>1, <2>1
      <4>3. QED
        BY <4>1, <4>2
    <3>2. QED
      BY <2>2, <3>1 DEF VariantsMove
  <2>3. CASE id # i
    BY <1>1, <1>3, <2>1, <2>3
  <2>4. QED
    BY <2>2, <2>3
<1>6. ASSUME NEW v \in Variants, NEW t \in Types \cup {NoType}, Workflow!AddVariant(i, v, t)
      PROVE  VariantsMove(images[id], images'[id])
  <2> DEFINE d == Workflow!SetDownload(old, v, [state |-> "importing", type |-> t, links |-> "own"])
  <2>1. /\ v \notin DOMAIN old.downloads /\ old.state \in {"uploaded", "importing"}
        /\ Workflow!Becomes(i, [old EXCEPT !.state = "importing", !.downloads = d])
    BY <1>6 DEF Workflow!AddVariant, Workflow!MayAdd
  <2>2. CASE id = i
    <3>1. images'[i].downloads = d
      <4> HIDE DEF d
      <4>1. [old EXCEPT !.state = "importing", !.downloads = d] =
              [state |-> "importing", error |-> old.error, links |-> old.links, downloads |-> d]
        BY <1>2, <2>2, WithStateAndDownloads
      <4>2. images'[i] = [old EXCEPT !.state = "importing", !.downloads = d]
        BY <1>1, <2>1
      <4>3. QED
        BY <4>1, <4>2
    <3>2. \A w \in DOMAIN old.downloads : d[w] = old.downloads[w]
      BY <2>1 DEF Workflow!SetDownload
    <3>3. QED
      <4> HIDE DEF d
      <4>1. QED
        BY <2>1, <2>2, <3>1, <3>2 DEF VariantsMove
  <2>3. CASE id # i
    <3> HIDE DEF d
    <3>1. QED
      BY <1>1, <1>3, <2>1, <2>3
  <2>4. QED
    BY <2>2, <2>3
<1>7. ASSUME NEW v \in Variants, NEW t \in Types \cup {NoType}, NEW s, Workflow!ReportVariant(i, v, s, t)
      PROVE  VariantsMove(images[id], images'[id])
  <2> DEFINE d == Workflow!SetDownload(old, v,
                    [state |-> s, type |-> t, links |-> old.downloads[v].links])
             seen == [old EXCEPT !.downloads = d]
  <2>1. /\ v \in DOMAIN old.downloads /\ old.state \in Workflow!Hosts(s)
        /\ DownloadStateTransitionAllowed(old.downloads[v], s)
        /\ Workflow!Becomes(i, [seen EXCEPT !.state = Workflow!UpdatedState(seen),
                                            !.error = @ \/ s = "failed"])
    BY <1>7, SameModels DEF Workflow!ReportVariant, Workflow!MayReport
  <2>2. CASE id = i
    <3>1. seen = [state |-> old.state, error |-> old.error, links |-> old.links, downloads |-> d]
      <4> HIDE DEF d
      <4>1. QED
        BY <1>2, <2>2 DEF Image
    <3>2. images'[i].downloads = d
      <4> DEFINE new == [seen EXCEPT !.state = Workflow!UpdatedState(seen), !.error = @ \/ s = "failed"]
      <4>1. new.downloads = seen.downloads
        <5> HIDE DEF seen
        <5>1. QED
          BY <3>1
      <4>2. images'[i] = new
        <5> HIDE DEF seen
        <5>1. QED
          BY <1>1, <2>1
      <4>3. seen.downloads = d
        <5> HIDE DEF d
        <5>1. QED
          BY <3>1
      <4>4. QED
        <5> HIDE DEF new, seen, d
        <5>1. QED
          BY <4>1, <4>2, <4>3
    <3>3. /\ DOMAIN d = DOMAIN old.downloads
          /\ \A w \in DOMAIN old.downloads :
               d[w].state = IF w = v THEN s ELSE old.downloads[w].state
      BY <2>1 DEF Workflow!SetDownload
    <3>4. QED
      <4>1. DownloadTransitionAllowed(old.downloads[v].state, s)
        <5>1. VariantStates(i) # {} /\ old.state \notin {"created", "uploaded"}
          BY <1>2, <2>1, <2>2 DEF VariantStates, DownloadsFollowUpload
        <5>2. SUFFICES ASSUME old.downloads[v].state \notin DownloadState
                       PROVE  FALSE
          BY <2>1 DEF DownloadStateTransitionAllowed
        <5>3. s = "importing"
          BY <2>1, <5>2 DEF DownloadStateTransitionAllowed, DownloadTransitionAllowed
        <5>4. old.state = "importing"
          BY <2>1, <5>1, <5>3 DEF Workflow!Hosts
        <5>5. VariantStates(i) \subseteq {"importing", "imported"}
          BY <1>2, <2>2, <5>4 DEF ImageSummarisesDownloads
        <5>6. QED
          BY <2>1, <5>2, <5>5 DEF VariantStates, DownloadState
      <4> HIDE DEF d
      <4>2. QED
        BY <2>1, <2>2, <3>2, <3>3, <4>1 DEF VariantsMove
  <2>3. CASE id # i
    <3> HIDE DEF seen
    <3>1. QED
      BY <1>1, <1>3, <2>1, <2>3
  <2>4. QED
    BY <2>2, <2>3
<1>8. CASE Workflow!Publish(i)
  <2> DEFINE d == Workflow!PublishedDownloads(old.downloads)
  <2>1. /\ TransitionAllowed(old.state, "published")
        /\ Workflow!Becomes(i, [old EXCEPT !.state = "published", !.downloads = d])
    BY <1>8, SameModels DEF Workflow!Publish
  <2>2. CASE id = i
    <3>1. images'[i].downloads = d
      <4> HIDE DEF d
      <4>1. [old EXCEPT !.state = "published", !.downloads = d] =
              [state |-> "published", error |-> old.error, links |-> old.links, downloads |-> d]
        BY <1>2, <2>2, WithStateAndDownloads
      <4>2. images'[i] = [old EXCEPT !.state = "published", !.downloads = d]
        BY <1>1, <2>1
      <4>3. QED
        BY <4>1, <4>2
    <3>2. old.state = "imported"
      BY <2>1 DEF TransitionAllowed
    <3>3. \A v \in DOMAIN old.downloads : old.downloads[v].state = "imported"
      <4>1. VariantStates(i) = {"imported"}
        BY <1>2, <2>2, <3>2 DEF ImageSummarisesDownloads
      <4>2. QED
        BY <4>1 DEF VariantStates
    <3>4. \A v \in DOMAIN old.downloads : old.downloads[v] \in Download /\ Entry[v] = v
      BY <1>2, <2>2, DownloadsElim DEF Image, PlainNames
    <3>5. /\ DOMAIN d = DOMAIN old.downloads
          /\ \A v \in DOMAIN old.downloads : d[v].state = "published"
      <4>1. DOMAIN d = DOMAIN old.downloads \cup {Entry[w] : w \in DOMAIN old.downloads}
        BY DEF Workflow!PublishedDownloads
      <4>2. \A v \in DOMAIN old.downloads : d[v] = [old.downloads[v] EXCEPT !.state = "published"]
        BY <3>4 DEF Workflow!PublishedDownloads
      <4>3. ASSUME NEW v \in DOMAIN old.downloads
            PROVE  d[v].state = "published"
        <5> HIDE DEF d
        <5>1. PICK x \in Download : x = old.downloads[v]
          BY <3>4
        <5>2. d[v] = [state |-> "published", type |-> x.type, links |-> x.links]
          BY <4>2, <5>1, WithState
        <5>3. QED
          BY <5>2
      <4>4. QED
        BY <3>4, <4>1, <4>3
    <3>6. QED
      <4> HIDE DEF d
      <4>1. QED
        BY <2>2, <3>1, <3>3, <3>5 DEF VariantsMove, DownloadTransitionAllowed
  <2>3. CASE id # i
    <3> HIDE DEF d
    <3>1. QED
      BY <1>1, <1>3, <2>1, <2>3
  <2>4. QED
    BY <2>2, <2>3
<1>9. QED
  BY <1>4, <1>5, <1>6, <1>7, <1>8 DEF Workflow!Change, NoType, Workflow!NoType

LEMMA WorkflowMovesVariants ==
  ASSUME PlainNames, MongoTypeOK, ImageSummarisesDownloads, DownloadsFollowUpload,
         [Workflow!Next]_(Workflow!vars),
         NEW id \in Images, images[id] # NoImage
  PROVE  VariantsMove(images[id], images'[id])
<1>1. CASE images' = images
  BY <1>1 DEF VariantsMove
<1>2. CASE \E i \in Images : Workflow!Change(i)
  BY <1>2, ChangeMovesVariants
<1>3. CASE \E i \in Images : Workflow!Announce(i)
  BY <1>1, <1>3 DEF Workflow!Announce, Workflow!AnnounceUpload, Workflow!LoseUpload,
        Workflow!AnnouncePublication, Workflow!LosePublication
<1>4. QED
  BY <1>1, <1>2, <1>3 DEF Workflow!Next, Workflow!vars

\* With clients that leave the states of an image past "uploaded" to the API,
\* every stored variant moves along the table of models/download_state.go,
\* although publish looks at none of them.
THEOREM VariantsKeepTheirTable == ProtocolBodies => (Spec => DownloadStateMachine)
<1> SUFFICES ASSUME ProtocolBodies
             PROVE  Spec => DownloadStateMachine
  OBVIOUS
<1>1. MongoTypeOK /\ ImageSummarisesDownloads /\ DownloadsFollowUpload
      /\ [Workflow!Next]_(Workflow!vars) /\ [Next]_vars =>
        [\A id \in Images : images[id] # NoImage =>
           \A v \in DOMAIN images[id].downloads :
             LET before == images[id].downloads[v].state
                 after  == images'[id].downloads[v].state
             IN  before = after \/ DownloadTransitionAllowed(before, after)]_vars
  BY WorkflowMovesVariants DEF VariantsMove, ProtocolBodies
<1>2. Spec => []ImageSummarisesDownloads
  BY StatesSummarise
<1>3. TypeOK => MongoTypeOK
  BY DEF TypeOK
<1>4. QED
  BY <1>1, <1>2, <1>3, TypeCorrectness, DownloadsComeAfterUpload, Implementation, PTL
     DEF Spec, DownloadStateMachine, ImplementsWorkflow, Workflow!Spec
=============================================================================
