------------------------ MODULE ImagePipelineProofs ------------------------
(***************************************************************************)
(* What is said of the API between its two services, proved for any images *)
(* and variants, any slots of a user and any number of deliveries.  The    *)
(* requests of the services are requests as ImageAPI knows them, so all    *)
(* that is proved of its handlers holds here too.                          *)
(***************************************************************************)
EXTENDS ImagePipeline, ImagePromisesProofs

Has(id, v) == images[id] # NoImage /\ v \in DOMAIN images[id].downloads

StateOf(id, v) == images[id].downloads[v].state

\* What the services have in hand; the part of PipelineTypeOK that is theirs.
ServiceTypeOK ==
  /\ job \in {NoJob} \cup [id : Images, create : SUBSET Made, report : SUBSET Made]
  /\ imports \in [Images -> 0..MaxDeliveries]
  /\ publishings \in [Images \X Variants -> 0..MaxDeliveries]

----------------------------------------------------------------------------
(* The inductive invariants.                                               *)

\* The user asks for no variants, the importer makes and reports them, the
\* publisher reports them completed.
RequestsOfServices ==
  /\ req[importer].op \in {"none", "createDownload", "updateDownload"}
  /\ req[publisher].op \in {"none", "updateDownload"}
  /\ req[user].op \notin {"createDownload", "updateDownload"}
  /\ req[importer].op # "none" => req[importer].variant \in Made
  /\ req[importer].op = "createDownload" => req[importer].body.state = "importing"
  /\ req[importer].op = "updateDownload" => req[importer].body.state \in {"imported", "failed"}
  /\ req[publisher].op = "updateDownload" => req[publisher].body.state = "completed"

\* What the importer has not to create any more is there, but for a variant
\* whose request is not answered yet or has failed.
JobSoFar ==
  job # NoJob => \A v \in Made \ job.create :
    \/ Has(job.id, v)
    \/ /\ req[importer].op = "createDownload" /\ answer[importer] \notin Success
       /\ req[importer].id = job.id /\ req[importer].variant = v

\* It reports a variant when it has made all of them.
ReportsComeLast ==
  req[importer].op = "updateDownload" => \A v \in Made : Has(req[importer].id, v)

OnlyMadeOnes == \A id \in Images, v \in Variants : Has(id, v) => v \in Made

\* The state of an image is derived from all of them.
WholeWhenImported ==
  \A id \in Images : images[id] # NoImage /\ images[id].state \in {"imported", "published", "completed"} =>
    \A v \in Made : Has(id, v)

ImportInv ==
  RequestsOfServices /\ JobSoFar /\ ReportsComeLast /\ OnlyMadeOnes /\ WholeWhenImported

\* A success is the answer of a request that has done what it is for.
SuccessIsSettled ==
  \A p \in Procs : answer[p] \in Success =>
    pc[p] = "unlock" \/ (pc[p] = "answered" /\ req[p].op = "createImage")

----------------------------------------------------------------------------
\* A service acts on what was delivered to it.
ActOnEvents ==
  /\ \A id \in Images : imports[id] # 0 => id \in uploadedTopic
  /\ \A id \in Images, v \in Variants : publishings[<<id, v>>] # 0 => <<id, v>> \in publishedTopic
  /\ job # NoJob => imports[job.id] # 0
  /\ req[importer].op # "none" => imports[req[importer].id] # 0
  /\ req[publisher].op # "none" => publishings[<<req[publisher].id, req[publisher].variant>>] # 0

\* The request of the importer is one of its job, and a variant is created
\* before it is reported.
JobInHand ==
  /\ req[importer].op = "createDownload" => job # NoJob
  /\ job # NoJob => job.create \subseteq job.report
  /\ job # NoJob /\ req[importer].op # "none" =>
       /\ req[importer].id = job.id
       /\ req[importer].variant \notin job.create
       /\ req[importer].op = "updateDownload" => req[importer].variant \notin job.report

Asks(p) == pc[p] \in {"lock", "get", "write"}

\* What a service is told for the first time it finds as it was announced, up to
\* the write of its own request.
FirstTime ==
  /\ \A id \in Images, v \in Variants : Has(id, v) =>
       /\ imports[id] # 0
       /\ publishings[<<id, v>>] = 0 => StateOf(id, v) # "completed"
  /\ job # NoJob /\ imports[job.id] = 1 =>
       /\ \A v \in job.create : ~Has(job.id, v)
       /\ \A v \in job.report : Has(job.id, v) => StateOf(job.id, v) = "importing"
  /\ Asks(importer) /\ imports[req[importer].id] = 1 =>
       LET r == req[importer]
       IN  /\ r.op = "createDownload" => ~Has(r.id, r.variant)
           /\ r.op = "updateDownload" => Has(r.id, r.variant) /\ StateOf(r.id, r.variant) = "importing"
  /\ Asks(publisher) /\ publishings[<<req[publisher].id, req[publisher].variant>>] = 1 =>
       LET r == req[publisher]
       IN  Has(r.id, r.variant) /\ StateOf(r.id, r.variant) = "published"

\* A stored type is one that was reported.
TypesAreReported ==
  \A id \in Images, v \in Variants : Has(id, v) =>
    \E body \in DownloadBodies : images[id].downloads[v].type = body.type

DeliveryInv == ActOnEvents /\ JobInHand /\ FirstTime /\ FirstReportsAreAccepted

\* An image that is not imported yet is the work of its first message, and a
\* variant that is not imported yet is still to be reported.
Early == {"created", "uploaded", "importing"}

ImportWork ==
  /\ \A id \in Images : imports[id] # 0 /\ StateIn(id, Early) =>
       /\ imports[id] = 1
       /\ \/ job # NoJob /\ job.id = id
          \/ Asks(importer) /\ req[importer].id = id
  /\ \A id \in Images, v \in Variants :
       StateIn(id, {"importing"}) /\ Has(id, v) /\ StateOf(id, v) = "importing" =>
         \/ job # NoJob /\ job.id = id /\ v \in job.report
         \/ /\ Asks(importer) /\ req[importer].op = "updateDownload"
            /\ req[importer].id = id /\ req[importer].variant = v
  /\ req[importer].op = "createDownload" => req[importer].variant \in job.report

\* A variant of a published image that is not completed yet is announced or about
\* to be, and once its message is taken the publisher is at work on it.
StillPublished(id, v) ==
  StateIn(id, {"published"}) /\ Has(id, v) /\ StateOf(id, v) = "published"

AboutToBeAnnounced(id, v) ==
  \E p \in Procs : pc[p] = "announce" /\ req[p].id = id /\ v \in unsent[p]

PublishedAreAnnounced ==
  \A id \in Images, v \in Variants : StillPublished(id, v) =>
    <<id, v>> \in Published!Accepted \/ AboutToBeAnnounced(id, v)

TakenAreReported ==
  \A id \in Images, v \in Variants : StillPublished(id, v) /\ publishings[<<id, v>>] # 0 =>
    Asks(publisher) /\ req[publisher].id = id /\ req[publisher].variant = v

----------------------------------------------------------------------------
(* The services are clients.                                               *)

LEMMA Actors ==
  /\ user \in Procs /\ importer \in Procs /\ publisher \in Procs
  /\ user # importer /\ user # publisher /\ importer # publisher
  /\ \A p \in Procs : p \in {user, importer, publisher}
BY ActorsHaveSlots

LEMMA ServiceTypes == PipelineSpec => []ServiceTypeOK
<1>1. PipelineInit => ServiceTypeOK
  BY MaxDeliveriesIsPositive DEF PipelineInit, ServiceTypeOK
<1>2. ServiceTypeOK /\ [PipelineNext]_pipelineVars => ServiceTypeOK'
  <2> SUFFICES ASSUME ServiceTypeOK, [PipelineNext]_pipelineVars PROVE ServiceTypeOK'
    OBVIOUS
  <2> USE DEF ServiceTypeOK
  <2>1. ASSUME NEW p \in Procs, Handle(p) PROVE ServiceTypeOK'
    BY <2>1 DEF Handle
  <2>2. CASE UserAsks \/ (Environment /\ UNCHANGED serviceVars) \/ UNCHANGED pipelineVars
    BY <2>2 DEF UserAsks, serviceVars, pipelineVars
  <2>3. CASE ImporterCreates
    BY <2>3 DEF ImporterCreates
  <2>4. CASE ImporterReports
    <3>1. /\ job \in [id : Images, create : SUBSET Made, report : SUBSET Made]
          /\ UNCHANGED <<imports, publishings>>
      BY <2>4 DEF ImporterReports
    <3>2. PICK v : job' = NoJob \/ job' = [job EXCEPT !.report = @ \ {v}]
      BY <2>4 DEF ImporterReports
    <3>3. QED
      BY <3>1, <3>2
  <2>5. ASSUME NEW id \in Images, ImporterStarts(id) PROVE ServiceTypeOK'
    <3>1. imports[id] + 1 \in 0..MaxDeliveries
      BY <2>5, MaxDeliveriesIsPositive DEF ImporterStarts
    <3>2. QED
      BY <2>5, <3>1 DEF ImporterStarts
  <2>6. ASSUME NEW id \in Images, NEW v \in Made, PublisherReports(id, v) PROVE ServiceTypeOK'
    <3>1. <<id, v>> \in Images \X Variants
      BY DEF Made
    <3>2. publishings[<<id, v>>] + 1 \in 0..MaxDeliveries
      BY <2>6, <3>1, MaxDeliveriesIsPositive DEF PublisherReports
    <3>3. QED
      BY <2>6, <3>1, <3>2 DEF PublisherReports
  <2>7. QED
    BY <2>1, <2>2, <2>3, <2>4, <2>5, <2>6 DEF PipelineNext
<1>3. QED
  BY <1>1, <1>2, PTL DEF PipelineSpec

\* What the services send are requests the routes take.
LEMMA ServicesAreClients ==
  ASSUME ServiceTypeOK
  PROVE  /\ UserAsks => Arrive(user)
         /\ ImporterCreates => Arrive(importer)
         /\ ImporterReports => Arrive(importer)
         /\ \A id \in Images, v \in Made : PublisherReports(id, v) => Arrive(publisher)
<1>1. UserAsks => Arrive(user)
  BY DEF UserAsks, Arrive
<1>2. ImporterCreates => CreateDownloadHandler(importer)
  BY DEF ImporterCreates, CreateDownloadHandler, ServiceTypeOK, Made
<1>3. ImporterReports => UpdateDownloadHandler(importer)
  BY DEF ImporterReports, UpdateDownloadHandler, ServiceTypeOK, Made
<1>4. \A id \in Images, v \in Made : PublisherReports(id, v) => UpdateDownloadHandler(publisher)
  BY DEF PublisherReports, UpdateDownloadHandler, Made
<1>5. QED
  BY <1>1, <1>2, <1>3, <1>4 DEF Arrive

LEMMA HandlersAreThose == PipelineSpec => Spec
<1>1. PipelineInit => Init
  BY DEF PipelineInit
<1>2. ServiceTypeOK /\ [PipelineNext]_pipelineVars => [Next]_vars
  BY Actors, ServicesAreClients
     DEF PipelineNext, pipelineVars, Next, Handle, ImporterStarts
<1>3. QED
  BY <1>1, <1>2, ServiceTypes, PTL DEF PipelineSpec, Spec

\* Type correctness with the services at work, for any number of images,
\* variants and deliveries and whatever fails.
THEOREM PipelineTypes == PipelineSpec => []PipelineTypeOK
<1>1. TypeOK /\ ServiceTypeOK => PipelineTypeOK
  BY DEF ServiceTypeOK, PipelineTypeOK
<1>2. QED
  BY <1>1, ServiceTypes, HandlersAreThose, TypeCorrectness, PTL

----------------------------------------------------------------------------
(* What a step of a handler changes.                                       *)

LEMMA HandlingKeepsRequest ==
  ASSUME HandlerTypeOK, NEW p \in Procs, Lock(p) \/ Work(p) \/ Crash(p)
  PROVE  /\ pc[p] # "idle"
         /\ \/ req'[p] = req[p] /\ pc'[p] # "idle"
            \/ req'[p] = NoRequest /\ pc'[p] = "idle"
<1> USE DEF HandlerTypeOK, Settle, Goto
<1>1. CASE Lock(p) \/ Crash(p)
  BY <1>1 DEF Lock, Crash, Forget
<1>2. CASE LockFails(p) \/ InsertImage(p) \/ GetImageFails(p)
  BY <1>2 DEF LockFails, InsertImage, GetImageFails
<1>3. CASE GetImage(p)
  BY <1>3 DEF GetImage, AfterGet
<1>4. CASE UpdateImage(p) \/ AddDownload(p) \/ ReplaceDownload(p) \/ MarkPublished(p)
  BY <1>4 DEF UpdateImage, AddDownload, ReplaceDownload, MarkPublished, Write
<1>5. CASE SendUploaded(p) \/ SendUploadedFails(p) \/ MarkPublishedRefused(p)
  BY <1>5 DEF SendUploaded, SendUploadedFails, MarkPublishedRefused
<1>6. CASE SendPublished(p) \/ SendPublishedFails(p) \/ AllPublished(p)
  BY <1>6 DEF SendPublished, SendPublishedFails, AllPublished
<1>7. CASE Unlock(p) \/ UnlockFails(p) \/ Return(p)
  BY <1>7 DEF Unlock, UnlockFails, Return, Forget
<1>8. QED
  BY <1>1, <1>2, <1>3, <1>4, <1>5, <1>6, <1>7 DEF Work

LEMMA Received ==
  ASSUME HandlerTypeOK, NEW p \in Procs, NEW r, NEW error, NEW label, Receive(p, r, error, label)
  PROVE  /\ pc[p] = "idle" /\ req'[p] = r /\ UNCHANGED <<images, kafkaVars>>
         /\ \/ error = NoError /\ pc'[p] = label /\ answer'[p] = answer[p]
            \/ error # NoError /\ pc'[p] = "answered" /\ answer'[p] = Status(error)
         /\ \A q \in Procs \ {p} : pc'[q] = pc[q] /\ req'[q] = req[q] /\ answer'[q] = answer[q]
BY DEF Receive, HandlerTypeOK, Settle, Goto, mongoVars

LEMMA ErrorsAreNoSuccess == \A error : Status(error) \notin Success
BY DEF Status, Success

LEMMA StepSettles ==
  ASSUME HandlerTypeOK, SuccessIsSettled, NEW p \in Procs, Step(p)
  PROVE  SuccessIsSettled'
<1> USE DEF HandlerTypeOK, Settle, Goto
<1> DEFINE Settled == answer'[p] \in Success =>
             pc'[p] = "unlock" \/ (pc'[p] = "answered" /\ req'[p].op = "createImage")
<1>0. 0 \notin Success /\ 500 \notin Success
  BY DEF Success
<1>1. CASE Arrive(p)
  <2>1. PICK r, error, label : Receive(p, r, error, label)
    BY <1>1 DEF Arrive, CreateImageHandler, UpdateImageHandler, PublishImageHandler,
                CreateDownloadHandler, UpdateDownloadHandler
  <2>2. pc[p] = "idle" /\ (answer'[p] = answer[p] \/ answer'[p] = Status(error))
    BY <2>1, Received
  <2>3. Settled
    BY <2>2, ErrorsAreNoSuccess DEF SuccessIsSettled
  <2>4. QED
    BY <2>1, <2>3, Received DEF SuccessIsSettled
<1>2. ASSUME ~Arrive(p)
      PROVE  Settled
  <2>1. CASE InsertImage(p)
    <3>1. req[p].op = "createImage" /\ req' = req
      BY <2>1, OpsOf DEF InsertImage
    <3>2. QED
      BY <1>0, <2>1, <3>1 DEF InsertImage
  <2>2. CASE Lock(p) \/ SendUploaded(p) \/ SendPublished(p)
    BY <2>2 DEF Lock, SendUploaded, SendPublished, SuccessIsSettled
  <2>3. CASE GetImage(p)
    BY <2>3, ErrorsAreNoSuccess DEF GetImage, SuccessIsSettled
  <2>4. CASE UpdateImage(p) \/ AddDownload(p) \/ ReplaceDownload(p)
    BY <1>0, <2>4 DEF UpdateImage, AddDownload, ReplaceDownload, Write
  <2>5. CASE MarkPublished(p)
    BY <1>0, <2>5 DEF MarkPublished, Write
  <2>6. CASE LockFails(p) \/ GetImageFails(p) \/ SendUploadedFails(p) \/ MarkPublishedRefused(p)
             \/ SendPublishedFails(p)
    BY <1>0, <2>6 DEF LockFails, GetImageFails, SendUploadedFails, MarkPublishedRefused,
                      SendPublishedFails
  <2>7. CASE AllPublished(p)
    BY <2>7 DEF AllPublished
  <2>8. CASE Unlock(p) \/ UnlockFails(p) \/ Return(p) \/ Crash(p)
    BY <1>0, <2>8 DEF Unlock, UnlockFails, Return, Crash, Forget
  <2>9. QED
    BY <1>2, <2>1, <2>2, <2>3, <2>4, <2>5, <2>6, <2>7, <2>8 DEF Step, Work
<1>3. \A q \in Procs \ {p} : pc'[q] = pc[q] /\ req'[q] = req[q] /\ answer'[q] = answer[q]
  BY StepMovesOne, OthersKeepAnswer DEF Step, OnlyMoves
<1>4. QED
  BY <1>1, <1>2, <1>3 DEF SuccessIsSettled

LEMMA SuccessSettles == Spec => []SuccessIsSettled
<1>1. Init => SuccessIsSettled
  BY DEF Init, SuccessIsSettled, Success
<1>2. HandlerTypeOK /\ SuccessIsSettled /\ [Next]_vars => SuccessIsSettled'
  <2> SUFFICES ASSUME HandlerTypeOK, SuccessIsSettled, [Next]_vars PROVE SuccessIsSettled'
    OBVIOUS
  <2>1. CASE Environment \/ UNCHANGED vars
    BY <2>1 DEF Environment, ReleaseOrphanedLock, DeliverUploaded, DeliverPublished, LoseEvent,
                vars, handlerVars, SuccessIsSettled
  <2>2. QED
    BY <2>1, StepSettles DEF Next, Step
<1>3. TypeOK => HandlerTypeOK
  BY DEF TypeOK
<1>4. QED
  BY <1>1, <1>2, <1>3, TypeCorrectness, PTL DEF Spec

\* What each write makes of the downloads stored before.
LEMMA WrittenDownloads ==
  ASSUME PlainNames, RInv, NEW p \in Procs, pc[p] = "write"
  PROVE  LET r == req[p]
             stored == images[r.id]
         IN  /\ r.op = "updateImage" =>
                  Upserted(stored, ImageUpdate(r, existing[p])).downloads = stored.downloads
             /\ r.op = "createDownload" =>
                  LET new == Upserted(stored, DownloadAdded(r, existing[p])).downloads
                  IN  /\ r.variant \notin DOMAIN stored.downloads
                      /\ DOMAIN new = DOMAIN stored.downloads \cup {r.variant}
                      /\ new[r.variant].state = "importing" /\ new[r.variant].type = r.body.type
                      /\ \A w \in DOMAIN stored.downloads : new[w] = stored.downloads[w]
             /\ r.op = "updateDownload" =>
                  LET new == Upserted(stored, DownloadReplaced(r, existing[p])).downloads
                  IN  /\ r.variant \in DOMAIN stored.downloads
                      /\ \/ DownloadTransitionAllowed(stored.downloads[r.variant].state, r.body.state)
                         \/ r.body.state = "importing"
                      /\ DOMAIN new = DOMAIN stored.downloads
                      /\ new[r.variant].state = r.body.state /\ new[r.variant].type = r.body.type
                      /\ \A w \in DOMAIN stored.downloads \ {r.variant} : new[w] = stored.downloads[w]
             /\ r.op = "publish" =>
                  LET new == Updated(stored, PublishUpdate(existing[p])).downloads
                  IN  /\ stored.state = "imported"
                      /\ DOMAIN new = DOMAIN stored.downloads
                      /\ \A w \in DOMAIN stored.downloads :
                           new[w].state = "published" /\ new[w].type = stored.downloads[w].type
<1> DEFINE r == req[p]
           image == existing[p]
<1>1. /\ image = images[r.id] /\ image \in Image /\ image # NoImage
      /\ CheckAgainst(r, image) = NoError
  BY AboutToWrite
<1>2. CASE r.op = "updateImage"
  BY <1>1, <1>2 DEF Upserted, ImageUpdate, NoDownloads
<1>3. CASE r.op = "createDownload"
  <2> DEFINE d == WithDownload(image, r.variant, NewDownload(r))
  <2>1. r.variant \notin DOMAIN image.downloads
    BY <1>1, <1>3 DEF CheckAgainst, CheckNewVariant, Refuse, ??, NoError
  <2>2. /\ DOMAIN d = DOMAIN image.downloads \cup {r.variant}
        /\ d[r.variant].state = "importing" /\ d[r.variant].type = r.body.type
        /\ \A w \in DOMAIN image.downloads : d[w] = image.downloads[w]
    BY <2>1 DEF WithDownload, NewDownload
  <2>3. DownloadAdded(r, image).downloads = d
    <3> HIDE DEF d
    <3>1. DownloadAdded(r, image) = [image EXCEPT !.downloads = d, !.state = "importing"]
      BY DEF DownloadAdded, d
    <3>2. QED
      BY <1>1, <3>1, WithDownloadsAndState
  <2>4. Upserted(images[r.id], DownloadAdded(r, image)).downloads = d
    <3> HIDE DEF d
    <3>1. QED
      BY <1>1, <2>2, <2>3 DEF Upserted
  <2>5. QED
    <3> HIDE DEF d
    <3>1. QED
      BY <1>1, <1>3, <2>1, <2>2, <2>4
<1>4. CASE r.op = "updateDownload"
  <2> DEFINE d == WithDownload(image, r.variant,
                               DownloadOf(r, image.downloads[r.variant].links))
             seen == [image EXCEPT !.downloads = d]
  <2>1. /\ r.variant \in DOMAIN image.downloads
        /\ DownloadStateTransitionAllowed(image.downloads[r.variant], r.body.state)
    BY <1>1, <1>4
       DEF CheckAgainst, CheckVariant, ValidateDownloadTransitionFrom, Refuse, ??, NoError
  <2>2. \/ DownloadTransitionAllowed(image.downloads[r.variant].state, r.body.state)
        \/ r.body.state = "importing"
    BY <2>1 DEF DownloadStateTransitionAllowed, DownloadTransitionAllowed
  <2>3. /\ DOMAIN d = DOMAIN image.downloads
        /\ d[r.variant].state = r.body.state /\ d[r.variant].type = r.body.type
        /\ \A w \in DOMAIN image.downloads \ {r.variant} : d[w] = image.downloads[w]
    BY <2>1 DEF WithDownload, DownloadOf
  <2>4. seen = [state |-> image.state, error |-> image.error, links |-> image.links, downloads |-> d]
    <3> HIDE DEF d
    <3>1. QED
      BY <1>1 DEF Image
  <2>5. DownloadReplaced(r, image).downloads = d
    <3> HIDE DEF seen
    <3>1. DownloadReplaced(r, image) =
            [seen EXCEPT !.state = UpdatedState(seen), !.error = @ \/ r.body.state = "failed"]
      BY DEF DownloadReplaced, seen
    <3>2. QED
      BY <2>4, <3>1
  <2>6. Upserted(images[r.id], DownloadReplaced(r, image)).downloads = d
    <3> HIDE DEF d
    <3>1. QED
      BY <1>1, <2>1, <2>3, <2>5 DEF Upserted
  <2>7. QED
    <3> HIDE DEF d, seen
    <3>1. QED
      BY <1>1, <1>4, <2>1, <2>2, <2>3, <2>6
<1>5. CASE r.op = "publish"
  <2>1. image.state = "imported"
    <3>1. image.state \in State
      BY <1>1 DEF Image
    <3>2. QED
      BY <1>1, <1>5, <3>1 DEF CheckAgainst, CheckPublishable, Refuse, NoError,
                              StateTransitionAllowed, TransitionAllowed
  <2>2. ASSUME NEW new, new = Updated(image, PublishUpdate(image))
        PROVE  /\ DOMAIN new.downloads = DOMAIN image.downloads
               /\ \A w \in DOMAIN image.downloads :
                    /\ new.downloads[w].state = "published"
                    /\ new.downloads[w].type = image.downloads[w].type
    <3>1. DOMAIN image.downloads \subseteq Variants
      BY <1>1, DownloadsElim DEF Image
    <3>2. DOMAIN new.downloads = DOMAIN image.downloads \cup {Entry[w] : w \in DOMAIN image.downloads}
      BY <1>1, <2>2, PublishedDocument
    <3>3. DOMAIN new.downloads = DOMAIN image.downloads
      BY <3>1, <3>2 DEF PlainNames
    <3>4. ASSUME NEW w \in DOMAIN image.downloads
          PROVE  /\ new.downloads[w].state = "published"
                 /\ new.downloads[w].type = image.downloads[w].type
      <4> DEFINE old == EntryOf(image.downloads, w)
      <4>1. Entry[w] = w
        BY <3>1 DEF PlainNames
      <4>2. new.downloads[w] = [state |-> "published", type |-> old.type, links |-> old.links]
        <5> HIDE DEF old
        <5>1. \A v \in DOMAIN new.downloads :
                v \in DOMAIN image.downloads /\ Entry[v] = v =>
                  new.downloads[v] = [state |-> "published",
                                      type  |-> EntryOf(image.downloads, v).type,
                                      links |-> EntryOf(image.downloads, v).links]
          BY <1>1, <2>2, PublishedDocument
        <5>2. QED
          BY <3>3, <4>1, <5>1 DEF old
      <4>3. old = image.downloads[w]
        BY DEF EntryOf
      <4>4. QED
        <5> HIDE DEF old
        <5>1. QED
          BY <4>2, <4>3
    <3>5. QED
      BY <3>3, <3>4
  <2>3. PICK new : new = Updated(image, PublishUpdate(image))
    OBVIOUS
  <2>4. QED
    BY <1>1, <1>5, <2>1, <2>2, <2>3
<1>6. QED
  BY <1>2, <1>3, <1>4, <1>5

\* The steps that store something.
LEMMA StepsThatWrite ==
  ASSUME NEW p \in Procs, Step(p), pc[p] = "write", images'[req[p].id] # images[req[p].id]
  PROVE  UpdateImage(p) \/ AddDownload(p) \/ ReplaceDownload(p) \/ MarkPublished(p)
BY DEF Step, Arrive, CreateImageHandler, UpdateImageHandler, PublishImageHandler,
       CreateDownloadHandler, UpdateDownloadHandler, Receive, Work, Lock, LockFails, InsertImage,
       GetImage, GetImageFails, SendUploaded, SendUploadedFails, MarkPublishedRefused, SendPublished,
       SendPublishedFails, AllPublished, Unlock, UnlockFails, Return, Crash, Forget, mongoVars

\* What is stored by a request at its write.
LEMMA HowToWrite ==
  ASSUME TypeOK, NEW p \in Procs, Step(p), pc[p] = "write", images'[req[p].id] # images[req[p].id]
  PROVE  LET r == req[p]
             stored == images[r.id]
             new == images'[r.id]
         IN  \/ r.op = "updateImage" /\ new = Upserted(stored, ImageUpdate(r, existing[p]))
             \/ r.op = "createDownload" /\ new = Upserted(stored, DownloadAdded(r, existing[p]))
             \/ r.op = "updateDownload" /\ new = Upserted(stored, DownloadReplaced(r, existing[p]))
             \/ /\ r.op = "publish" /\ PathsAreComplete(existing[p])
                /\ new = Updated(stored, PublishUpdate(existing[p]))
<1>1. req[p].id \in Images
  BY BusyHasRequest DEF TypeOK
<1>2. ASSUME NEW op, NEW new, NEW label, NEW status, Write(p, op, new, label, status)
      PROVE  req[p].op = op /\ images'[req[p].id] = new
  BY <1>1, <1>2 DEF Write, Put, PutFails, TypeOK, MongoTypeOK
<1>3. UpdateImage(p) \/ AddDownload(p) \/ ReplaceDownload(p) \/ MarkPublished(p)
  BY StepsThatWrite
<1>4. CASE UpdateImage(p)
  BY <1>2, <1>4 DEF UpdateImage
<1>5. CASE AddDownload(p)
  BY <1>2, <1>5 DEF AddDownload
<1>6. CASE ReplaceDownload(p)
  BY <1>2, <1>6 DEF ReplaceDownload
<1>7. CASE MarkPublished(p)
  BY <1>2, <1>7 DEF MarkPublished
<1>8. QED
  BY <1>3, <1>4, <1>5, <1>6, <1>7

LEMMA HowToAppear ==
  ASSUME RInv, NEW p \in Procs, Step(p), pc[p] = "insert", images'[req[p].id] # images[req[p].id]
  PROVE  images[req[p].id] = NoImage /\ images'[req[p].id] = NewImage
<1>0. TypeOK /\ InsertsAreFresh
  BY DEF RInv, IInv
<1>1. req[p].id \in Images
  BY <1>0, BusyHasRequest DEF TypeOK
<1>2. images[req[p].id] = NoImage
  BY <1>0 DEF InsertsAreFresh
<1>3. InsertImage(p)
  BY DEF Step, Arrive, CreateImageHandler, UpdateImageHandler, PublishImageHandler,
         CreateDownloadHandler, UpdateDownloadHandler, Receive, Work, Lock, LockFails,
         UpdateImage, AddDownload, ReplaceDownload, MarkPublished, Write,
         GetImage, GetImageFails, SendUploaded, SendUploadedFails, MarkPublishedRefused, SendPublished,
         SendPublishedFails, AllPublished, Unlock, UnlockFails, Return, Crash, Forget, mongoVars
<1>4. images'[req[p].id] = Upserted(images[req[p].id], NewImage)
  BY <1>0, <1>1, <1>3 DEF InsertImage, Put, PutFails, TypeOK, MongoTypeOK
<1>5. QED
  BY <1>2, <1>4 DEF Upserted

\* Who adds a variant, and who changes its state.
LEMMA WhoChangesVariants ==
  ASSUME PlainNames, RInv, NEW p \in Procs, Step(p), NEW id \in Images, NEW v
  PROVE  LET r == req[p]
             before == images[id].downloads[v].state
             after  == images'[id].downloads[v].state
         IN  /\ ~Has(id, v) /\ Has(id, v)' =>
                  /\ pc[p] = "write" /\ r.op = "createDownload" /\ r.id = id /\ r.variant = v
                  /\ after = "importing"
             /\ Has(id, v) =>
                  /\ Has(id, v)'
                  /\ \/ after = before
                     \/ /\ pc[p] = "write" /\ r.op = "updateDownload" /\ r.id = id /\ r.variant = v
                        /\ after = r.body.state
                        /\ DownloadTransitionAllowed(before, after) \/ after = "importing"
                     \/ /\ pc[p] = "write" /\ r.op = "publish" /\ r.id = id
                        /\ images[id].state = "imported" /\ after = "published"
             /\ Has(id, v)' =>
                  \/ Has(id, v) /\ images'[id].downloads[v].type = images[id].downloads[v].type
                  \/ /\ pc[p] = "write" /\ r.op \in {"createDownload", "updateDownload"}
                     /\ images'[id].downloads[v].type = r.body.type
<1> DEFINE r == req[p]
           image == existing[p]
<1>0. TypeOK /\ MongoTypeOK /\ NoStaleWrite
  BY DEF RInv, IInv, TypeOK
<1>1. CASE images'[id] = images[id]
  BY <1>1 DEF Has
<1>2. CASE images'[id] # images[id]
  <2>1. pc[p] \in {"insert", "write"} /\ r.id = id
    BY <1>0, <1>2, WhoWrites DEF Step
  <2>2. CASE pc[p] = "insert"
    <3>1. images[id] = NoImage /\ images'[id] = NewImage
      BY <1>2, <2>1, <2>2, HowToAppear
    <3>2. DOMAIN images'[id].downloads = {}
      BY <3>1 DEF NewImage, NoDownloads
    <3>3. QED
      BY <3>1, <3>2 DEF Has
  <2>3. CASE pc[p] = "write"
    <3>1. images[id] # NoImage
      BY <2>1, <2>3, AboutToWrite
    <3>2. images'[id] # NoImage
      <4>1. images'[id] \in Image
        BY <1>0, <1>2, <2>1, <2>3, HowToWrite, WrittenType
      <4>2. QED
        BY <4>1, NoImageIsNoDocument
    <3>3. CASE r.op = "updateImage"
      <4>1. images'[id].downloads = images[id].downloads
        BY <1>0, <1>2, <2>1, <2>3, <3>3, HowToWrite, WrittenDownloads
      <4>2. QED
        BY <3>1, <3>2, <4>1 DEF Has
    <3>4. CASE r.op = "createDownload"
      <4> DEFINE new == images'[id].downloads
                 old == images[id].downloads
      <4>1. /\ r.variant \notin DOMAIN old
            /\ DOMAIN new = DOMAIN old \cup {r.variant}
            /\ new[r.variant].state = "importing" /\ new[r.variant].type = r.body.type
            /\ \A w \in DOMAIN old : new[w] = old[w]
        <5>1. images'[id] = Upserted(images[id], DownloadAdded(r, image))
          BY <1>0, <1>2, <2>1, <2>3, <3>4, HowToWrite
        <5>2. QED
          BY <2>1, <2>3, <3>4, <5>1, WrittenDownloads
      <4>2. QED
        BY <2>1, <2>3, <3>1, <3>2, <3>4, <4>1 DEF Has
    <3>5. CASE r.op = "updateDownload"
      <4> DEFINE new == images'[id].downloads
                 old == images[id].downloads
      <4>1. images'[id] = Upserted(images[id], DownloadReplaced(r, image))
        BY <1>0, <1>2, <2>1, <2>3, <3>5, HowToWrite
      <4>2. /\ r.variant \in DOMAIN old
            /\ DownloadTransitionAllowed(old[r.variant].state, r.body.state) \/ r.body.state = "importing"
            /\ DOMAIN new = DOMAIN old
            /\ new[r.variant].state = r.body.state /\ new[r.variant].type = r.body.type
            /\ \A w \in DOMAIN old \ {r.variant} : new[w] = old[w]
        BY <2>1, <2>3, <3>5, <4>1, WrittenDownloads
      <4>3. QED
        BY <2>1, <2>3, <3>1, <3>2, <3>5, <4>2 DEF Has
    <3>6. CASE r.op = "publish"
      <4> DEFINE new == images'[id].downloads
                 old == images[id].downloads
      <4>1. images'[id] = Updated(images[id], PublishUpdate(image))
        BY <1>0, <1>2, <2>1, <2>3, <3>6, HowToWrite
      <4>2. /\ images[id].state = "imported"
            /\ DOMAIN new = DOMAIN old
            /\ \A w \in DOMAIN old : new[w].state = "published" /\ new[w].type = old[w].type
        BY <2>1, <2>3, <3>6, <4>1, WrittenDownloads
      <4>3. QED
        BY <2>1, <2>3, <3>1, <3>2, <3>6, <4>2 DEF Has
    <3>7. QED
      BY <1>0, <1>2, <2>1, <2>3, <3>3, <3>4, <3>5, <3>6, HowToWrite
  <2>4. QED
    BY <2>1, <2>2, <2>3
<1>3. QED
  BY <1>1, <1>2

\* Which state a write gives an image that leaves the states to its variants.
LEMMA WhoChangesState ==
  ASSUME ProtocolBodies, RInv, NEW p \in Procs, Step(p), NEW id \in Images,
         images'[id] # NoImage, images'[id].state \in {"imported", "published", "completed"}
  PROVE  /\ images[id] # NoImage
         /\ \/ images[id].state \in {"imported", "published", "completed"}
            \/ /\ images[id].state = "importing"
               /\ pc[p] = "write" /\ req[p].op = "updateDownload" /\ req[p].id = id
<1> DEFINE r == req[p]
<1>0. TypeOK /\ MongoTypeOK /\ IInv /\ CreatedAsImporting
  BY DEF RInv, IInv, TypeOK
<1>1. CASE images'[id] = images[id]
  BY <1>1
<1>2. CASE images'[id] # images[id]
  <2>1. pc[p] \in {"insert", "write"} /\ r.id = id
    BY <1>0, <1>2, WhoWrites DEF Step
  <2>2. pc[p] = "write"
    BY <1>2, <2>1, HowToAppear DEF NewImage
  <2>3. images[id] # NoImage /\ existing[p] = images[id] /\ existing[p] \in Image
    BY <2>1, <2>2, AboutToWrite
  <2>4. images'[id].state = images[id].state \/ TransitionAllowed(images[id].state, images'[id].state)
    BY <1>0, <1>2, <2>3, StepMoves DEF Moves
  <2>5. ASSUME images[id].state \notin {"imported", "published", "completed"}
        PROVE  images[id].state = "importing" /\ images'[id].state = "imported"
    BY <2>4, <2>5 DEF TransitionAllowed
  <2>6. CASE r.op = "updateImage"
    <3>1. images'[id].state = r.body.state
      BY <1>0, <1>2, <2>1, <2>2, <2>6, HowToWrite, WrittenAsAsked
    <3>2. r.body \in ImageBodies
      <4>1. req[p] \in Request
        BY <2>2, AboutToWrite
      <4>2. QED
        BY <2>6, <4>1 DEF Request
    <3>3. QED
      BY <3>1, <3>2 DEF ProtocolBodies
  <2>7. CASE r.op = "createDownload"
    <3> DEFINE d == WithDownload(existing[p], r.variant, NewDownload(r))
    <3>1. images'[id] = Upserted(images[id], DownloadAdded(r, existing[p]))
      BY <1>0, <1>2, <2>1, <2>2, <2>7, HowToWrite
    <3>2. DownloadAdded(r, existing[p]).state = "importing"
      <4> HIDE DEF d
      <4>1. DownloadAdded(r, existing[p]) = [existing[p] EXCEPT !.downloads = d, !.state = "importing"]
        BY DEF DownloadAdded, d
      <4>2. QED
        BY <2>3, <4>1, WithDownloadsAndState
    <3>3. QED
      BY <2>3, <3>1, <3>2 DEF Upserted
  <2>8. CASE r.op = "publish"
    <3>1. images[id].state = "imported"
      BY <2>1, <2>2, <2>8, WrittenDownloads DEF ProtocolBodies
    <3>2. QED
      BY <2>3, <3>1
  <2>9. QED
    BY <1>0, <1>2, <2>1, <2>2, <2>3, <2>5, <2>6, <2>7, <2>8, HowToWrite
<1>3. QED
  BY <1>1, <1>2

----------------------------------------------------------------------------
(* The state of an image is derived from all of its variants.              *)

\* What a request of the importer that succeeds leaves behind.
LEMMA CreatedIsThere ==
  ASSUME RInv, NEW p \in Procs, Step(p), req[p].op = "createDownload",
         pc'[p] = "unlock", answer'[p] \in Success
  PROVE  Has(req[p].id, req[p].variant)'
<1> DEFINE r == req[p]
           new == Upserted(images[r.id], DownloadAdded(r, existing[p]))
<1>0. TypeOK /\ HandlerTypeOK /\ MongoTypeOK /\ NoStaleWrite
  BY DEF RInv, IInv, TypeOK
<1>1. AddDownload(p)
  <2>1. UpdateImage(p) \/ AddDownload(p) \/ ReplaceDownload(p) \/ AllPublished(p)
    BY <1>0, HowToSucceed DEF Success, Succeeded
  <2>2. pc[p] = "announce" => r.op = "publish"
    BY <1>0, OpsOf DEF HandlerTypeOK
  <2>3. QED
    BY <2>1, <2>2 DEF UpdateImage, ReplaceDownload, AllPublished, Write
<1>2. Write(p, "createDownload", new, "unlock", 201)
  BY <1>1 DEF AddDownload
<1>3. /\ pc[p] = "write" /\ r.id \in Images /\ req'[p] = req[p]
  <2> HIDE DEF new
  <2>1. QED
    BY <1>0, <1>2, BusyHasRequest DEF Write
<1>4. images'[r.id] = new
  <2> HIDE DEF new
  <2>1. Put(r.id, new)
    BY <1>0, <1>2 DEF Write, Settle, HandlerTypeOK, Success
  <2>2. QED
    BY <1>0, <1>3, <2>1 DEF Put, MongoTypeOK
<1>5. new # NoImage /\ r.variant \in DOMAIN new.downloads
  <2>1. new \in Image
    BY <1>0, <1>3, WrittenType
  <2>2. new # NoImage
    <3> HIDE DEF new
    <3>1. QED
      BY <2>1, NoImageIsNoDocument
  <2>3. QED
    BY <1>3, <2>2, WrittenAsAsked
<1>6. QED
  <2> HIDE DEF new
  <2>1. QED
    BY <1>3, <1>4, <1>5 DEF Has

\* A publisher whose request passes the checks finds the image published.
LEMMA CompletionNeedsPublication ==
  ASSUME RInv, RequestsOfServices, NEW p \in Procs,
         pc[p] = "write", req[p].op = "updateDownload", images[req[p].id].state # "published"
  PROVE  p = importer
<1>1. p # user
  BY DEF RequestsOfServices
<1>2. ASSUME p = publisher PROVE FALSE
  <2>1. req[p].body.state = "completed"
    BY <1>2 DEF RequestsOfServices
  <2>2. /\ CheckAgainst(req[p], existing[p]) = NoError /\ existing[p] = images[req[p].id]
        /\ existing[p] \in Image
    BY AboutToWrite
  <2>3. ValidateForImage(req[p].body, existing[p]) = NoError
    BY <2>2 DEF CheckAgainst, CheckVariant, ??, NoError
  <2>4. QED
    BY <2>1, <2>2, <2>3 DEF ValidateForImage, Refuse, ??, NoError
<1>3. QED
  BY <1>1, <1>2, Actors

LEMMA HandleKeepsImport ==
  ASSUME ProtocolBodies, RInv, SuccessIsSettled, ServiceTypeOK, ImportInv,
         NEW p \in Procs, Handle(p)
  PROVE  ImportInv'
<1>0. TypeOK /\ HandlerTypeOK /\ Step(p)
  BY DEF RInv, IInv, TypeOK, Handle, Step
<1> USE Actors
<1>1. ASSUME NEW q \in Procs \ {p}
      PROVE  pc'[q] = pc[q] /\ req'[q] = req[q] /\ answer'[q] = answer[q]
  BY <1>0, StepMovesOne, OthersKeepAnswer DEF Step, OnlyMoves
<1>2. /\ \/ req'[p] = req[p] /\ pc'[p] # "idle"
         \/ req'[p] = NoRequest /\ pc'[p] = "idle"
  BY <1>0, HandlingKeepsRequest DEF Handle
<1>3. \A q \in Procs : req'[q] = req[q] \/ req'[q] = NoRequest
  BY <1>1, <1>2
<1>4. \A id \in Images, v \in Variants : Has(id, v) => Has(id, v)'
  BY <1>0, WhoChangesVariants DEF ProtocolBodies
<1>5. Made \subseteq Variants
  BY DEF Made
<1>6. \A q \in Procs : req[q].op = "updateDownload" => req[q].id \in Images
  BY <1>0, RequestFields DEF HandlerTypeOK, NoRequest
<1>7. RequestsOfServices'
  <2>1. /\ req'[user] = req[user] \/ req'[user] = NoRequest
        /\ req'[importer] = req[importer] \/ req'[importer] = NoRequest
        /\ req'[publisher] = req[publisher] \/ req'[publisher] = NoRequest
    BY <1>3
  <2>2. RequestsOfServices
    BY DEF ImportInv
  <2>3. QED
    BY <2>1, <2>2 DEF RequestsOfServices, NoRequest
<1>8. JobSoFar'
  <2> SUFFICES ASSUME job' # NoJob, NEW v \in Made, v \notin job'.create, ~Has(job.id, v)'
               PROVE  /\ req'[importer].op = "createDownload" /\ answer'[importer] \notin Success
                      /\ req'[importer].id = job'.id /\ req'[importer].variant = v
    BY DEF JobSoFar
  <2>1. job' = job /\ job.id \in Images
    BY DEF Handle, ServiceTypeOK
  <2>2. ~Has(job.id, v)
    BY <1>4, <1>5, <2>1
  <2>3. /\ req[importer].op = "createDownload" /\ answer[importer] \notin Success
        /\ req[importer].id = job.id /\ req[importer].variant = v
    BY <2>1, <2>2 DEF ImportInv, JobSoFar
  <2>4. CASE p # importer
    BY <1>1, <2>1, <2>3, <2>4
  <2>5. CASE p = importer
    <3>1. req'[importer] = req[importer]
      BY <1>2, <2>1, <2>3, <2>5 DEF Handle
    <3>2. ASSUME answer'[importer] \in Success PROVE FALSE
      <4>1. SuccessIsSettled'
        BY <1>0, StepSettles
      <4>2. pc'[importer] = "unlock"
        BY <2>3, <3>1, <3>2, <4>1 DEF SuccessIsSettled
      <4>3. Has(req[p].id, req[p].variant)'
        BY <1>0, <2>3, <2>5, <3>2, <4>2, CreatedIsThere
      <4>4. QED
        BY <1>5, <2>1, <2>3, <2>5, <3>1, <4>3 DEF Has
    <3>3. QED
      BY <2>1, <2>3, <3>1, <3>2
  <2>6. QED
    BY <2>4, <2>5
<1>9. ReportsComeLast'
  <2> SUFFICES ASSUME req'[importer].op = "updateDownload", NEW v \in Made
               PROVE  Has(req[importer].id, v)'
    BY DEF ReportsComeLast, Has
  <2>1. req'[importer] = req[importer]
    BY <1>3 DEF NoRequest
  <2>2. Has(req[importer].id, v) /\ req[importer].id \in Images
    BY <1>6, <2>1 DEF ImportInv, ReportsComeLast
  <2>3. QED
    BY <1>4, <1>5, <2>1, <2>2 DEF Has
<1>10. OnlyMadeOnes'
  <2> SUFFICES ASSUME NEW id \in Images, NEW v \in Variants, Has(id, v)', ~Has(id, v)
               PROVE  v \in Made
    BY DEF OnlyMadeOnes, ImportInv
  <2>1. req[p].op = "createDownload" /\ req[p].variant = v
    BY <1>0, WhoChangesVariants DEF ProtocolBodies
  <2>2. QED
    BY <2>1 DEF ImportInv, RequestsOfServices
<1>11. WholeWhenImported'
  <2> SUFFICES ASSUME NEW id \in Images, images'[id] # NoImage,
                      images'[id].state \in {"imported", "published", "completed"}, NEW v \in Made
               PROVE  Has(id, v)'
    BY DEF WholeWhenImported
  <2>1. /\ images[id] # NoImage
        /\ \/ images[id].state \in {"imported", "published", "completed"}
           \/ /\ images[id].state = "importing"
              /\ pc[p] = "write" /\ req[p].op = "updateDownload" /\ req[p].id = id
    BY <1>0, WhoChangesState
  <2>2. CASE images[id].state \in {"imported", "published", "completed"}
    BY <1>4, <1>5, <2>1, <2>2 DEF ImportInv, WholeWhenImported
  <2>3. CASE /\ images[id].state = "importing"
             /\ pc[p] = "write" /\ req[p].op = "updateDownload" /\ req[p].id = id
    <3>1. p = importer
      BY <2>3, CompletionNeedsPublication DEF ImportInv
    <3>2. Has(id, v)
      BY <2>3, <3>1 DEF ImportInv, ReportsComeLast
    <3>3. QED
      BY <1>4, <1>5, <3>2
  <2>4. QED
    BY <2>1, <2>2, <2>3
<1>12. QED
  BY <1>7, <1>8, <1>9, <1>10, <1>11 DEF ImportInv

\* An idle importer has made all of what it has not to create any more.
LEMMA IdleHasMade ==
  ASSUME HandlerTypeOK, ImportInv, job # NoJob, pc[importer] = "idle"
  PROVE  \A v \in Made \ job.create : Has(job.id, v)
<1>1. req[importer].op = "none"
  BY Actors, OpsOf DEF HandlerTypeOK
<1>2. QED
  BY <1>1 DEF ImportInv, JobSoFar

LEMMA ServiceKeepsImport ==
  ASSUME RInv, SuccessIsSettled, ServiceTypeOK, ImportInv,
         \/ UserAsks \/ ImporterCreates \/ ImporterReports
         \/ \E id \in Images : ImporterStarts(id) \/ \E v \in Made : PublisherReports(id, v)
  PROVE  ImportInv'
<1>0. HandlerTypeOK
  BY DEF RInv, IInv, TypeOK
<1> USE Actors
<1>1. ASSUME UNCHANGED images PROVE OnlyMadeOnes' /\ WholeWhenImported'
  BY <1>1 DEF ImportInv, OnlyMadeOnes, WholeWhenImported, Has
<1>2. CASE UserAsks
  <2>1. PICK r, error, label : /\ Receive(user, r, error, label)
                               /\ r.op \in {"createImage", "updateImage", "publish"}
    <3>1. CASE CreateImageHandler(user)
      BY <3>1 DEF CreateImageHandler
    <3>2. CASE UpdateImageHandler(user)
      BY <3>2 DEF UpdateImageHandler
    <3>3. CASE PublishImageHandler(user)
      BY <3>3 DEF PublishImageHandler
    <3>4. QED
      BY <1>2, <3>1, <3>2, <3>3 DEF UserAsks
  <2>2. /\ req'[user] = r /\ images' = images /\ job' = job
        /\ req'[importer] = req[importer] /\ answer'[importer] = answer[importer]
        /\ req'[publisher] = req[publisher]
    BY <1>0, <1>2, <2>1, Received DEF UserAsks, serviceVars
  <2>3. QED
    BY <1>1, <2>1, <2>2 DEF ImportInv, RequestsOfServices, JobSoFar, ReportsComeLast, Has
<1>3. CASE ImporterCreates
  <2>1. PICK v \in job.create, body \in DownloadBodies :
          /\ body.state = "importing"
          /\ Receive(importer, [op |-> "createDownload", id |-> job.id, variant |-> v, body |-> body],
                     CheckNewDownload(body), "lock")
          /\ job' = [job EXCEPT !.create = @ \ {v}]
    BY <1>3 DEF ImporterCreates
  <2>2. /\ job \in [id : Images, create : SUBSET Made, report : SUBSET Made] /\ job # NoJob
    BY <1>3 DEF ImporterCreates, ServiceTypeOK
  <2>3. /\ pc[importer] = "idle" /\ images' = images
        /\ req'[importer] = [op |-> "createDownload", id |-> job.id, variant |-> v, body |-> body]
        /\ answer'[importer] = answer[importer] \/ answer'[importer] \notin Success
        /\ req'[user] = req[user] /\ req'[publisher] = req[publisher]
    BY <1>0, <2>1, Received, ErrorsAreNoSuccess
  <2>4. job'.id = job.id /\ job'.create = job.create \ {v}
    BY <2>1, <2>2
  <2>5. \A w \in Made \ job.create : Has(job.id, w)
    BY <1>0, <2>2, <2>3, IdleHasMade
  <2>6. answer'[importer] \notin Success
    BY <2>3 DEF SuccessIsSettled
  <2>7. RequestsOfServices'
    BY <2>1, <2>2, <2>3 DEF ImportInv, RequestsOfServices
  <2>8. JobSoFar'
    BY <2>3, <2>4, <2>5, <2>6 DEF JobSoFar, Has
  <2>9. QED
    BY <1>1, <2>3, <2>7, <2>8 DEF ImportInv, ReportsComeLast
<1>4. CASE ImporterReports
  <2>1. PICK v \in job.report, body \in DownloadBodies :
          /\ body.state \in {"imported", "failed"}
          /\ Receive(importer, [op |-> "updateDownload", id |-> job.id, variant |-> v, body |-> body],
                     CheckDownload(body), "lock")
          /\ job' = IF job.report = {v} THEN NoJob ELSE [job EXCEPT !.report = @ \ {v}]
    BY <1>4 DEF ImporterReports
  <2>2. /\ job \in [id : Images, create : SUBSET Made, report : SUBSET Made]
        /\ job # NoJob /\ job.create = {}
    BY <1>4 DEF ImporterReports, ServiceTypeOK
  <2>3. /\ pc[importer] = "idle" /\ images' = images
        /\ req'[importer] = [op |-> "updateDownload", id |-> job.id, variant |-> v, body |-> body]
        /\ req'[user] = req[user] /\ req'[publisher] = req[publisher]
    BY <1>0, <2>1, Received
  <2>4. job' # NoJob => job'.id = job.id
    BY <2>1, <2>2
  <2>5. \A w \in Made : Has(job.id, w)
    BY <1>0, <2>2, <2>3, IdleHasMade
  <2>6. RequestsOfServices'
    BY <2>1, <2>2, <2>3 DEF ImportInv, RequestsOfServices
  <2>7. QED
    BY <1>1, <2>3, <2>4, <2>5, <2>6 DEF ImportInv, ReportsComeLast, JobSoFar, Has
<1>5. ASSUME NEW id \in Images, ImporterStarts(id) PROVE ImportInv'
  BY <1>1, <1>5
     DEF ImporterStarts, vars, mongoVars, handlerVars, ImportInv, RequestsOfServices, JobSoFar,
         ReportsComeLast, Has
<1>6. ASSUME NEW id \in Images, NEW v \in Made, PublisherReports(id, v) PROVE ImportInv'
  <2>1. PICK body \in DownloadBodies :
          /\ body.state = "completed"
          /\ Receive(publisher, [op |-> "updateDownload", id |-> id, variant |-> v, body |-> body],
                     CheckDownload(body), "lock")
    BY <1>6 DEF PublisherReports
  <2>2. /\ req'[publisher] = [op |-> "updateDownload", id |-> id, variant |-> v, body |-> body]
        /\ images' = images /\ job' = job
        /\ req'[importer] = req[importer] /\ answer'[importer] = answer[importer]
        /\ req'[user] = req[user]
    BY <1>0, <1>6, <2>1, Received DEF PublisherReports
  <2>3. QED
    BY <1>1, <2>1, <2>2 DEF ImportInv, RequestsOfServices, JobSoFar, ReportsComeLast, Has
<1>7. QED
  BY <1>2, <1>3, <1>4, <1>5, <1>6

LEMMA ImportInvariance == ProtocolBodies => (PipelineSpec => []ImportInv)
<1> SUFFICES ASSUME ProtocolBodies PROVE PipelineSpec => []ImportInv
  OBVIOUS
<1>1. PipelineInit => ImportInv
  BY Actors DEF PipelineInit, Init, InitMongo, ImportInv, RequestsOfServices, JobSoFar, ReportsComeLast,
                OnlyMadeOnes, WholeWhenImported, Has, NoRequest
<1>2. RInv /\ SuccessIsSettled /\ ServiceTypeOK /\ ImportInv /\ [PipelineNext]_pipelineVars => ImportInv'
  <2> SUFFICES ASSUME RInv, SuccessIsSettled, ServiceTypeOK, ImportInv, [PipelineNext]_pipelineVars
               PROVE  ImportInv'
    OBVIOUS
  <2>1. CASE (Environment /\ UNCHANGED serviceVars) \/ UNCHANGED pipelineVars
    <3>1. UNCHANGED <<images, handlerVars, serviceVars>>
      BY <2>1 DEF Environment, ReleaseOrphanedLock, DeliverUploaded, DeliverPublished, LoseEvent,
                  mongoVars, vars, pipelineVars
    <3>2. QED
      BY <3>1 DEF ImportInv, RequestsOfServices, JobSoFar, ReportsComeLast, OnlyMadeOnes,
                  WholeWhenImported, Has, handlerVars, serviceVars
  <2>2. QED
    BY <2>1, HandleKeepsImport, ServiceKeepsImport DEF PipelineNext
<1>3. QED
  BY <1>1, <1>2, HandlersAreThose, RInvariance, SuccessSettles, ServiceTypes, PTL DEF PipelineSpec

\* An image is imported only with all the variants its importer makes of it,
\* each of them imported, whichever calls fail, instances stop and messages are
\* lost or delivered again.
THEOREM ImportedIsComplete == ProtocolBodies => (PipelineSpec => []ImportedMeansEverything)
<1> SUFFICES ASSUME ProtocolBodies PROVE PipelineSpec => []ImportedMeansEverything
  OBVIOUS
<1>1. MongoTypeOK /\ ImageSummarisesDownloads /\ ImportInv => ImportedMeansEverything
  <2> SUFFICES ASSUME MongoTypeOK, ImageSummarisesDownloads, ImportInv,
                      NEW id \in Images, images[id] # NoImage, images[id].state = "imported"
               PROVE  /\ DOMAIN images[id].downloads = Made
                      /\ \A v \in Made : images[id].downloads[v].state = "imported"
    BY DEF ImportedMeansEverything
  <2>1. DOMAIN images[id].downloads \subseteq Variants
    BY DownloadsElim DEF MongoTypeOK, Image
  <2>2. DOMAIN images[id].downloads = Made
    BY <2>1 DEF ImportInv, OnlyMadeOnes, WholeWhenImported, Has
  <2>3. VariantStates(id) = {"imported"}
    BY DEF ImageSummarisesDownloads
  <2>4. QED
    BY <2>2, <2>3 DEF VariantStates
<1>2. TypeOK => MongoTypeOK
  BY DEF TypeOK
<1>3. QED
  BY <1>1, <1>2, ImportInvariance, HandlersAreThose, StatesSummarise, TypeCorrectness, PTL

----------------------------------------------------------------------------
(* A service is not refused what it is told for the first time.            *)

\* The services report what the routes take, and agree on the type of a
\* variant when they give one.
AcceptableReports ==
  \A body \in DownloadBodies :
    /\ body.json /\ ~body.otherId
    /\ \A other \in DownloadBodies : NoType \in {body.type, other.type} \/ body.type = other.type

\* What is known of the API and of its services without counting deliveries.
Known ==
  /\ RInv /\ ServiceTypeOK /\ SuccessIsSettled /\ ImportInv
  /\ ImageSummarisesDownloads /\ DownloadsFollowUpload /\ PublishedEventsMatch
  /\ UploadsPending /\ TypesAreReported

LEMMA ReportBodies ==
  ASSUME AcceptableReports, ProtocolBodies, NEW body \in DownloadBodies
  PROVE  /\ CheckDownload(body) = NoError
         /\ body.state = "importing" => CheckNewDownload(body) = NoError
<1>1. body.state \in {"importing", "imported", "failed", "completed"} /\ body.json /\ ~body.otherId
  BY DEF AcceptableReports, ProtocolBodies
<1>2. ReadJSONBody(body) = NoError /\ ValidateDownload(body) = NoError
  BY <1>1 DEF ReadJSONBody, ValidateDownload, Refuse, DownloadState, NoError
<1>3. QED
  BY <1>1, <1>2 DEF CheckDownload, CheckNewDownload, Refuse, ??, NoError

LEMMA RequestsCarryReports ==
  ASSUME HandlerTypeOK, NEW p \in Procs, req[p].op \in {"createDownload", "updateDownload"}
  PROVE  /\ req[p].body \in DownloadBodies /\ req[p].id \in Images /\ req[p].variant \in Variants
         /\ pc[p] \in {"lock", "get", "write", "unlock", "answered"}
<1>1. req[p] \in Request
  BY DEF HandlerTypeOK, NoRequest
<1>2. /\ req[p].body \in DownloadBodies /\ req[p].id \in Images /\ req[p].variant \in Variants
  BY <1>1 DEF Request
<1>3. pc[p] \in Label /\ req[p].op \in Ops(pc[p])
  BY DEF HandlerTypeOK
<1>4. QED
  BY <1>2, <1>3, OpsOf DEF Label

\* How a request of a service goes on while no call to the store fails and no
\* instance stops.
LEMMA ServiceGoesOn ==
  ASSUME HandlerTypeOK, Faults \cap {"mongo", "crash"} = {}, NEW p \in Procs, Lock(p) \/ Work(p) \/ Crash(p),
         req[p].op \in {"createDownload", "updateDownload"}
  PROVE  \/ pc[p] = "lock" /\ pc'[p] = "get" /\ images' = images
         \/ pc[p] = "get" /\ pc'[p] = "write" /\ images' = images
         \/ /\ pc[p] = "get" /\ pc'[p] = "unlock" /\ images' = images
            /\ \/ images[req[p].id] = NoImage
               \/ CheckAgainst(req[p], images[req[p].id]) # NoError
         \/ pc[p] = "write" /\ pc'[p] = "unlock" /\ answer'[p] \in Success
         \/ pc[p] \in {"unlock", "answered"} /\ pc'[p] = "idle" /\ images' = images
<1> USE DEF HandlerTypeOK, Settle, Goto
<1>0. pc[p] \in {"lock", "get", "write", "unlock", "answered"}
  BY RequestsCarryReports
<1>1. CASE Lock(p)
  BY <1>1 DEF Lock
<1>2. CASE GetImage(p)
  BY <1>2 DEF GetImage, AfterGet, mongoVars
<1>3. CASE AddDownload(p) \/ ReplaceDownload(p)
  BY <1>3 DEF AddDownload, ReplaceDownload, Write, Success
<1>4. CASE UpdateImage(p) \/ MarkPublished(p) \/ MarkPublishedRefused(p)
  BY <1>4 DEF UpdateImage, MarkPublished, MarkPublishedRefused, Write
<1>5. CASE Unlock(p) \/ UnlockFails(p) \/ Return(p) \/ Crash(p)
  BY <1>5 DEF Unlock, UnlockFails, Return, Crash, Forget
<1>6. CASE \/ InsertImage(p) \/ LockFails(p) \/ GetImageFails(p) \/ SendUploaded(p) \/ SendUploadedFails(p)
           \/ SendPublished(p) \/ SendPublishedFails(p) \/ AllPublished(p)
  BY <1>0, <1>6 DEF InsertImage, LockFails, GetImageFails, SendUploaded, SendUploadedFails,
                    SendPublished, SendPublishedFails, AllPublished
<1>7. QED
  BY <1>1, <1>2, <1>3, <1>4, <1>5, <1>6 DEF Work

LEMMA TopicsGrow ==
  /\ \A p \in Procs : Step(p) => uploadedTopic' = uploadedTopic /\ publishedTopic' = publishedTopic
  /\ Environment => uploadedTopic \subseteq uploadedTopic' /\ publishedTopic \subseteq publishedTopic'
<1>1. ASSUME NEW p \in Procs, Step(p)
      PROVE  uploadedTopic' = uploadedTopic /\ publishedTopic' = publishedTopic
  <2> USE DEF kafkaVars, uploadedVars, publishedVars
  <2>1. CASE Arrive(p) \/ Lock(p) \/ Crash(p)
    BY <2>1 DEF Arrive, CreateImageHandler, UpdateImageHandler, PublishImageHandler,
                CreateDownloadHandler, UpdateDownloadHandler, Receive, Lock, Crash, Forget
  <2>2. CASE LockFails(p) \/ InsertImage(p) \/ GetImage(p) \/ GetImageFails(p)
    BY <2>2 DEF LockFails, InsertImage, GetImage, GetImageFails
  <2>3. CASE UpdateImage(p) \/ AddDownload(p) \/ ReplaceDownload(p) \/ MarkPublished(p)
    BY <2>3 DEF UpdateImage, AddDownload, ReplaceDownload, MarkPublished, Write
  <2>4. CASE SendUploaded(p) \/ SendUploadedFails(p) \/ MarkPublishedRefused(p)
    BY <2>4 DEF SendUploaded, SendUploadedFails, MarkPublishedRefused, Uploaded!Send
  <2>5. CASE SendPublished(p) \/ SendPublishedFails(p) \/ AllPublished(p)
    BY <2>5 DEF SendPublished, SendPublishedFails, AllPublished, Published!Send
  <2>6. CASE Unlock(p) \/ UnlockFails(p) \/ Return(p)
    BY <2>6 DEF Unlock, UnlockFails, Return, Forget
  <2>7. QED
    BY <1>1, <2>1, <2>2, <2>3, <2>4, <2>5, <2>6 DEF Step, Work
<1>2. Environment => uploadedTopic \subseteq uploadedTopic' /\ publishedTopic \subseteq publishedTopic'
  BY DEF Environment, ReleaseOrphanedLock, DeliverUploaded, DeliverPublished, LoseEvent,
         Uploaded!Deliver, Uploaded!Drop, Published!Deliver, Published!Drop,
         kafkaVars, uploadedVars, publishedVars
<1>3. QED
  BY <1>1, <1>2

\* What a report that is not accepted says of the image.
LEMMA WhyRefused ==
  ASSUME AcceptableReports, ProtocolBodies, Known, NEW p \in Procs, req[p].op = "updateDownload",
         LET r == req[p] IN
           /\ Has(r.id, r.variant)
           /\ DownloadTransitionAllowed(StateOf(r.id, r.variant), r.body.state)
           /\ CheckAgainst(r, images[r.id]) # NoError
  PROVE  LET r == req[p] IN
           \/ r.body.state = "importing"
           \/ r.body.state = "imported" /\ images[r.id].state # "importing"
           \/ r.body.state = "completed" /\ images[r.id].state # "published"
<1> DEFINE r == req[p]
           image == images[r.id]
           old == image.downloads[r.variant]
<1>0. MongoTypeOK /\ HandlerTypeOK
  BY DEF Known, RInv, IInv, TypeOK
<1>1. r.body \in DownloadBodies /\ r.id \in Images /\ r.variant \in Variants
  BY <1>0, RequestsCarryReports
<1>2. /\ image \in Image /\ r.variant \in DOMAIN image.downloads
      /\ old.state \in DownloadState
  <2>1. image \in Image /\ r.variant \in DOMAIN image.downloads
    BY <1>0, <1>1 DEF MongoTypeOK, Has
  <2>2. QED
    BY <2>1 DEF StateOf, DownloadTransitionAllowed, DownloadState
<1>3. PICK body \in DownloadBodies : old.type = body.type
  BY <1>1 DEF Known, TypesAreReported
<1>4. NoType \in {r.body.type, old.type} \/ r.body.type = old.type
  BY <1>1, <1>3 DEF AcceptableReports
<1>5. r.body.state \in DownloadState
  BY <1>1 DEF ProtocolBodies, DownloadState
<1>6. ValidateDownloadTransitionFrom(r.body, old) = NoError
  BY <1>2, <1>4, <1>5
     DEF ValidateDownloadTransitionFrom, DownloadStateTransitionAllowed, Refuse, ??, NoError, StateOf
<1>7. ValidateForImage(r.body, image) # NoError
  BY <1>2, <1>6 DEF CheckAgainst, CheckVariant, ??, NoError
<1>8. QED
  BY <1>7 DEF ValidateForImage, Refuse, ??, NoError

LEMMA AnnouncedExists ==
  ASSUME Known, ActOnEvents
  PROVE  /\ \A id \in Images : imports[id] # 0 =>
              /\ images[id] # NoImage
              /\ images[id].state = "created" => \E p \in Procs : /\ pc[p] = "write" /\ req[p].id = id
                                                                  /\ req[p].op = "updateImage"
         /\ \A id \in Images, v \in Variants : publishings[<<id, v>>] # 0 =>
              /\ images[id] # NoImage
              /\ images[id].state \in {"published", "completed", "failed_publish", "deleted"}
<1>1. ASSUME NEW id \in Images, imports[id] # 0
      PROVE  /\ images[id] # NoImage
             /\ images[id].state = "created" => \E p \in Procs : /\ pc[p] = "write" /\ req[p].id = id
                                                                 /\ req[p].op = "updateImage"
  <2>1. id \in Uploaded!Accepted
    BY <1>1 DEF ActOnEvents, Uploaded!Accepted
  <2>2. QED
    BY <2>1 DEF Known, UploadsPending
<1>2. ASSUME NEW id \in Images, NEW v \in Variants, publishings[<<id, v>>] # 0
      PROVE  /\ images[id] # NoImage
             /\ images[id].state \in {"published", "completed", "failed_publish", "deleted"}
  <2>1. <<id, v>> \in Published!Accepted
    BY <1>2 DEF ActOnEvents, Published!Accepted
  <2>2. QED
    BY <2>1 DEF Known, PublishedEventsMatch
<1>3. QED
  BY <1>1, <1>2

\* The states of the image that go with a variant that is importing or
\* published.
LEMMA WhereVariantsAre ==
  ASSUME Known, NEW id \in Images, NEW v, Has(id, v)
  PROVE  /\ StateOf(id, v) = "importing" => images[id].state \in {"importing", "failed_import", "deleted"}
         /\ StateOf(id, v) = "published" => images[id].state \notin {"imported", "completed", "failed_publish"}
<1>1. images[id] # NoImage /\ images[id].state \in State
  BY DEF Has, Known, RInv, IInv, TypeOK, MongoTypeOK, Image
<1>2. StateOf(id, v) \in VariantStates(id)
  BY DEF Has, StateOf, VariantStates
<1>3. images[id].state \notin {"created", "uploaded"}
  BY <1>1 DEF Known, DownloadsFollowUpload, Has
<1>4. /\ images[id].state = "imported" => VariantStates(id) = {"imported"}
      /\ images[id].state = "published" => VariantStates(id) \subseteq {"published", "completed"}
      /\ images[id].state = "completed" => VariantStates(id) = {"completed"}
      /\ images[id].state # "failed_publish"
  BY <1>1 DEF Known, ImageSummarisesDownloads
<1>5. QED
  BY <1>1, <1>2, <1>3, <1>4 DEF State

LEMMA ImporterIsServed ==
  ASSUME AcceptableReports, ProtocolBodies, Known, ActOnEvents, FirstTime,
         pc[importer] = "get", imports[req[importer].id] = 1,
         req[importer].op \in {"createDownload", "updateDownload"},
         \/ images[req[importer].id] = NoImage
         \/ CheckAgainst(req[importer], images[req[importer].id]) # NoError
  PROVE  images[req[importer].id].state \in {"deleted", "failed_import"}
<1> DEFINE r == req[importer]
           image == images[r.id]
<1> USE Actors
<1>0. MongoTypeOK /\ HandlerTypeOK /\ LockDiscipline
  BY DEF Known, RInv, IInv, TypeOK
<1>1. r.body \in DownloadBodies /\ r.id \in Images /\ r.variant \in Variants
  BY <1>0, RequestsCarryReports
<1>2. image # NoImage /\ image.state \in State
  BY <1>0, <1>1, AnnouncedExists DEF MongoTypeOK, Image
<1>3. image.state # "created"
  <2> SUFFICES ASSUME image.state = "created" PROVE FALSE
    OBVIOUS
  <2>1. PICK p \in Procs : pc[p] = "write" /\ req[p].id = r.id /\ req[p].op = "updateImage"
    BY <1>1, AnnouncedExists
  <2>2. p = importer
    BY <1>0, <2>1 DEF LockDiscipline, Holding
  <2>3. QED
    BY <2>1, <2>2
<1>4. CASE r.op = "createDownload"
  <2>1. ~Has(r.id, r.variant) /\ r.variant \in Made
    BY <1>4 DEF FirstTime, Asks, Known, ImportInv, RequestsOfServices
  <2>2. ValidateForImage(r.body, image) # NoError
    BY <1>2, <1>4, <2>1 DEF CheckAgainst, CheckNewVariant, Refuse, ??, NoError, Has
  <2>3. r.body.state = "importing"
    BY <1>4 DEF Known, ImportInv, RequestsOfServices
  <2>4. image.state \notin {"uploaded", "importing"}
    BY <2>2, <2>3 DEF ValidateForImage, Refuse, ??, NoError
  <2>5. image.state \notin {"imported", "published", "completed"}
    BY <1>1, <1>2, <2>1 DEF Known, ImportInv, WholeWhenImported
  <2>6. image.state # "failed_publish"
    BY <1>1, <1>2 DEF Known, ImageSummarisesDownloads
  <2>7. QED
    BY <1>2, <1>3, <2>4, <2>5, <2>6 DEF State
<1>5. CASE r.op = "updateDownload"
  <2>1. /\ Has(r.id, r.variant) /\ StateOf(r.id, r.variant) = "importing"
        /\ r.body.state \in {"imported", "failed"}
    BY <1>5 DEF FirstTime, Asks, Known, ImportInv, RequestsOfServices
  <2>2. image.state # "importing"
    <3>1. DownloadTransitionAllowed(StateOf(r.id, r.variant), r.body.state)
      BY <2>1 DEF DownloadTransitionAllowed
    <3>2. QED
      BY <1>2, <1>5, <2>1, <3>1, WhyRefused
  <2>3. QED
    BY <1>1, <2>1, <2>2, WhereVariantsAre
<1>6. QED
  BY <1>4, <1>5

LEMMA PublisherIsServed ==
  ASSUME AcceptableReports, ProtocolBodies, Known, ActOnEvents, FirstTime,
         pc[publisher] = "get", publishings[<<req[publisher].id, req[publisher].variant>>] = 1,
         req[publisher].op = "updateDownload",
         \/ images[req[publisher].id] = NoImage
         \/ CheckAgainst(req[publisher], images[req[publisher].id]) # NoError
  PROVE  images[req[publisher].id].state = "deleted"
<1> DEFINE r == req[publisher]
           image == images[r.id]
<1> USE Actors
<1>0. MongoTypeOK /\ HandlerTypeOK
  BY DEF Known, RInv, IInv, TypeOK
<1>1. r.body \in DownloadBodies /\ r.id \in Images /\ r.variant \in Variants
  BY <1>0, RequestsCarryReports
<1>2. image # NoImage /\ image.state \in {"published", "completed", "failed_publish", "deleted"}
  BY <1>1, AnnouncedExists
<1>3. /\ Has(r.id, r.variant) /\ StateOf(r.id, r.variant) = "published"
      /\ r.body.state = "completed"
  BY DEF FirstTime, Asks, Known, ImportInv, RequestsOfServices
<1>4. image.state # "published"
  <2>1. DownloadTransitionAllowed(StateOf(r.id, r.variant), r.body.state)
    BY <1>3 DEF DownloadTransitionAllowed
  <2>2. QED
    BY <1>2, <1>3, <2>1, WhyRefused
<1>5. QED
  BY <1>1, <1>2, <1>3, <1>4, WhereVariantsAre

LEMMA ReportedTypes == ProtocolBodies => (Spec => []TypesAreReported)
<1> SUFFICES ASSUME ProtocolBodies PROVE Spec => []TypesAreReported
  OBVIOUS
<1>1. Init => TypesAreReported
  BY DEF Init, InitMongo, TypesAreReported, Has
<1>2. RInv /\ TypesAreReported /\ [Next]_vars => TypesAreReported'
  <2> SUFFICES ASSUME RInv, TypesAreReported, [Next]_vars,
                      NEW id \in Images, NEW v \in Variants, Has(id, v)'
               PROVE  \E body \in DownloadBodies : images'[id].downloads[v].type = body.type
    BY DEF TypesAreReported
  <2>1. ASSUME NEW p \in Procs, Step(p)
        PROVE  \E body \in DownloadBodies : images'[id].downloads[v].type = body.type
    <3>1. \/ Has(id, v) /\ images'[id].downloads[v].type = images[id].downloads[v].type
          \/ /\ req[p].op \in {"createDownload", "updateDownload"}
             /\ images'[id].downloads[v].type = req[p].body.type
      BY <2>1, WhoChangesVariants DEF ProtocolBodies
    <3>2. HandlerTypeOK
      BY DEF RInv, IInv, TypeOK
    <3>3. QED
      BY <3>1, <3>2, RequestsCarryReports DEF TypesAreReported
  <2>2. CASE UNCHANGED images
    BY <2>2 DEF TypesAreReported, Has
  <2>3. QED
    BY <2>1, <2>2 DEF Next, Step, Environment, ReleaseOrphanedLock, DeliverUploaded, DeliverPublished,
                      LoseEvent, mongoVars, vars
<1>3. QED
  BY <1>1, <1>2, RInvariance, PTL DEF Spec

\* What a request does not leave of an image and of its variants, unless it is
\* the report of the service that is waited for.
LEMMA WhatStays ==
  ASSUME ProtocolBodies, Known, NEW p \in Procs, Step(p), NEW id \in Images
  PROVE  /\ images[id] # NoImage =>
              /\ images[id].state \in {"deleted", "failed_import"} =>
                   images'[id].state \in {"deleted", "failed_import"}
              /\ images[id].state = "deleted" => images'[id].state = "deleted"
         /\ \A v \in Variants : ~Has(id, v) /\ Has(id, v)' =>
              /\ p = importer /\ req[p].op = "createDownload" /\ req[p].id = id /\ req[p].variant = v
              /\ StateOf(id, v)' = "importing"
         /\ \A v \in Variants : Has(id, v) =>
              /\ Has(id, v)'
              /\ StateOf(id, v) = "importing" =>
                   \/ StateOf(id, v)' = "importing"
                   \/ p = importer /\ req[p].op = "updateDownload" /\ req[p].id = id /\ req[p].variant = v
              /\ StateOf(id, v) = "published" =>
                   \/ StateOf(id, v)' = "published"
                   \/ p = publisher /\ req[p].op = "updateDownload" /\ req[p].id = id /\ req[p].variant = v
              /\ StateOf(id, v)' = "completed" =>
                   \/ StateOf(id, v) = "completed"
                   \/ p = publisher /\ req[p].op = "updateDownload" /\ req[p].id = id /\ req[p].variant = v
<1>0. RInv /\ IInv /\ CreatedAsImporting /\ RequestsOfServices /\ HandlerTypeOK
  BY DEF Known, RInv, ImportInv, IInv, TypeOK
<1>1. images[id] # NoImage =>
        /\ images[id].state \in {"deleted", "failed_import"} =>
             images'[id].state \in {"deleted", "failed_import"}
        /\ images[id].state = "deleted" => images'[id].state = "deleted"
  <2>1. images[id] # NoImage /\ images'[id] # images[id] => Moves(images[id], images'[id])
    BY <1>0, StepMoves
  <2>2. QED
    BY <2>1 DEF Moves, TransitionAllowed
<1>2. ASSUME NEW v \in Variants, ~Has(id, v), Has(id, v)'
      PROVE  /\ p = importer /\ req[p].op = "createDownload" /\ req[p].id = id /\ req[p].variant = v
             /\ StateOf(id, v)' = "importing"
  <2>1. /\ req[p].op = "createDownload" /\ req[p].id = id /\ req[p].variant = v
        /\ images'[id].downloads[v].state = "importing"
    BY <1>0, <1>2, WhoChangesVariants DEF ProtocolBodies
  <2>2. QED
    BY <1>0, <2>1, Actors DEF RequestsOfServices, StateOf
<1>3. ASSUME NEW v \in Variants, Has(id, v)
      PROVE  /\ Has(id, v)'
             /\ StateOf(id, v) = "importing" =>
                  \/ StateOf(id, v)' = "importing"
                  \/ p = importer /\ req[p].op = "updateDownload" /\ req[p].id = id /\ req[p].variant = v
             /\ StateOf(id, v) = "published" =>
                  \/ StateOf(id, v)' = "published"
                  \/ p = publisher /\ req[p].op = "updateDownload" /\ req[p].id = id /\ req[p].variant = v
             /\ StateOf(id, v)' = "completed" =>
                  \/ StateOf(id, v) = "completed"
                  \/ p = publisher /\ req[p].op = "updateDownload" /\ req[p].id = id /\ req[p].variant = v
  <2> DEFINE before == StateOf(id, v)
             after  == images'[id].downloads[v].state
  <2>1. /\ Has(id, v)'
        /\ \/ after = before
           \/ /\ req[p].op = "updateDownload" /\ req[p].id = id /\ req[p].variant = v
              /\ after = req[p].body.state
              /\ DownloadTransitionAllowed(before, after) \/ after = "importing"
           \/ images[id].state = "imported" /\ after = "published"
    BY <1>0, <1>3, WhoChangesVariants DEF StateOf, ProtocolBodies
  <2>2. CASE after = before
    BY <2>1, <2>2 DEF StateOf
  <2>3. CASE /\ req[p].op = "updateDownload" /\ req[p].id = id /\ req[p].variant = v
             /\ after = req[p].body.state
             /\ DownloadTransitionAllowed(before, after) \/ after = "importing"
    <3>1. \/ p = importer /\ after \in {"imported", "failed"}
          \/ p = publisher /\ after = "completed"
      BY <1>0, <2>3, Actors DEF RequestsOfServices
    <3>2. p = importer => before = "importing"
      BY <2>3, <3>1, Actors DEF DownloadTransitionAllowed
    <3>3. p = publisher => before = "published"
      BY <2>3, <3>1, Actors DEF DownloadTransitionAllowed
    <3>4. QED
      BY <2>1, <2>3, <3>1, <3>2, <3>3, Actors DEF StateOf
  <2>4. CASE images[id].state = "imported" /\ after = "published"
    <3>1. before # "importing"
      BY <1>3, <2>4, WhereVariantsAre
    <3>2. QED
      BY <2>1, <2>4, <3>1 DEF StateOf
  <2>5. QED
    BY <2>1, <2>2, <2>3, <2>4
<1>4. QED
  BY <1>1, <1>2, <1>3

LEMMA HandleKeepsDelivery ==
  ASSUME AcceptableReports, ProtocolBodies, Faults \cap {"mongo", "crash"} = {},
         Known, DeliveryInv, NEW p \in Procs, Handle(p)
  PROVE  DeliveryInv'
<1> USE Actors
<1>0. /\ TypeOK /\ HandlerTypeOK /\ Step(p) /\ (Lock(p) \/ Work(p) \/ Crash(p))
      /\ RequestsOfServices /\ ActOnEvents /\ JobInHand /\ FirstTime
  BY DEF Known, RInv, ImportInv, IInv, TypeOK, Handle, Step, DeliveryInv
<1>1. ASSUME NEW q \in Procs \ {p}
      PROVE  pc'[q] = pc[q] /\ req'[q] = req[q] /\ answer'[q] = answer[q]
  BY <1>0, StepMovesOne, OthersKeepAnswer DEF Step, OnlyMoves
<1>2. /\ \/ req'[p] = req[p] /\ pc'[p] # "idle"
         \/ req'[p] = NoRequest /\ pc'[p] = "idle"
  BY <1>0, HandlingKeepsRequest
<1>3. /\ req'[importer] = req[importer] \/ req'[importer] = NoRequest
      /\ req'[publisher] = req[publisher] \/ req'[publisher] = NoRequest
  BY <1>1, <1>2
<1>4. /\ imports' = imports /\ publishings' = publishings
      /\ job' = job \/ (job' = NoJob /\ p = importer /\ pc'[p] = "idle")
  BY DEF Handle
<1>5. job # NoJob => job.id \in Images /\ job.create \subseteq Variants /\ job.report \subseteq Variants
  BY DEF Known, ServiceTypeOK, Made
<1>6. /\ req[importer].op \in {"none", "createDownload", "updateDownload"}
      /\ req[publisher].op \in {"none", "updateDownload"}
      /\ NoRequest.op = "none"
  BY <1>0 DEF RequestsOfServices, NoRequest
<1>7. \A q \in {importer, publisher} : req[q].op # "none" =>
        req[q].id \in Images /\ req[q].variant \in Variants
  BY <1>0, <1>6, RequestsCarryReports
<1>8. \A q \in {importer, publisher} : pc'[q] # "idle" =>
        req'[q] = req[q] /\ req[q].op # "none"
  <2>1. SUFFICES ASSUME NEW q \in {importer, publisher}, pc'[q] # "idle"
                 PROVE  req'[q] = req[q] /\ req[q].op # "none"
    OBVIOUS
  <2>2. req'[q] = req[q] /\ pc[q] # "idle"
    BY <1>0, <1>1, <1>2, <2>1, HandlingKeepsRequest
  <2>3. QED
    BY <1>0, <2>2, BusyHasRequest, RequestFields DEF LockedOps
<1>9. ActOnEvents'
  <2>1. uploadedTopic' = uploadedTopic /\ publishedTopic' = publishedTopic
    BY <1>0, TopicsGrow
  <2>2. QED
    BY <1>0, <1>3, <1>4, <1>6, <2>1 DEF ActOnEvents
<1>10. JobInHand'
  <2>1. p = importer /\ pc'[p] = "idle" => req'[importer] = NoRequest
    BY <1>2
  <2>2. QED
    BY <1>0, <1>3, <1>4, <1>6, <2>1 DEF JobInHand
<1>11. FirstTime'
  <2>1. ASSUME NEW id \in Images, NEW v \in Variants, Has(id, v)'
        PROVE  /\ imports[id] # 0
               /\ publishings[<<id, v>>] = 0 => StateOf(id, v)' # "completed"
    <3>1. CASE Has(id, v)
      BY <1>0, <1>6, <2>1, <3>1, WhatStays DEF FirstTime, ActOnEvents, Known
    <3>2. CASE ~Has(id, v)
      BY <1>0, <1>6, <2>1, <3>2, WhatStays DEF ActOnEvents, Known
    <3>3. QED
      BY <3>1, <3>2
  <2>2. ASSUME job' # NoJob, imports[job.id] = 1
        PROVE  /\ \A v \in job.create : ~Has(job.id, v)'
               /\ \A v \in job.report : Has(job.id, v)' => StateOf(job.id, v)' = "importing"
    <3>1. job' = job /\ job # NoJob
      BY <1>4, <2>2
    <3>2. ASSUME NEW v \in job.create, Has(job.id, v)' PROVE FALSE
      <4>1. ~Has(job.id, v)
        BY <1>0, <2>2, <3>1 DEF FirstTime
      <4>2. req[importer].op = "createDownload" /\ req[importer].variant = v
        BY <1>0, <1>5, <3>1, <3>2, <4>1, WhatStays DEF Has
      <4>3. QED
        BY <1>0, <3>1, <4>2 DEF JobInHand
    <3>3. ASSUME NEW v \in job.report, Has(job.id, v)' PROVE StateOf(job.id, v)' = "importing"
      <4>1. CASE ~Has(job.id, v)
        BY <1>0, <1>5, <3>1, <3>3, <4>1, WhatStays DEF Has, StateOf
      <4>2. CASE Has(job.id, v)
        <5>1. StateOf(job.id, v) = "importing"
          BY <1>0, <2>2, <3>1, <4>2 DEF FirstTime
        <5>2. ~(req[importer].op = "updateDownload" /\ req[importer].variant = v)
          BY <1>0, <3>1, <3>3 DEF JobInHand
        <5>3. QED
          BY <1>0, <1>5, <3>1, <4>2, <5>1, <5>2, WhatStays DEF StateOf
      <4>3. QED
        BY <4>1, <4>2
    <3>4. QED
      BY <3>2, <3>3
  <2>3. ASSUME Asks(importer)', imports[req[importer].id] = 1
        PROVE  LET r == req[importer]
               IN  /\ r.op = "createDownload" => ~Has(r.id, r.variant)'
                   /\ r.op = "updateDownload" =>
                        Has(r.id, r.variant)' /\ StateOf(r.id, r.variant)' = "importing"
    <3> DEFINE r == req[importer]
    <3>1. req'[importer] = r /\ r.op \in {"createDownload", "updateDownload"}
      BY <1>6, <1>8, <2>3 DEF Asks
    <3>2. r.id \in Images /\ r.variant \in Variants
      BY <1>7, <3>1
    <3>3. CASE p = importer
      <4>1. images' = images /\ Asks(importer)
        BY <1>0, <2>3, <3>1, <3>3, ServiceGoesOn DEF Asks
      <4>2. QED
        BY <1>0, <2>3, <3>1, <4>1 DEF FirstTime, Has, StateOf
    <3>4. CASE p # importer
      <4>1. Asks(importer)
        BY <1>1, <2>3, <3>4 DEF Asks
      <4>2. CASE r.op = "createDownload"
        <5>1. ~Has(r.id, r.variant)
          BY <1>0, <2>3, <4>1, <4>2 DEF FirstTime
        <5>2. QED
          BY <1>0, <3>1, <3>2, <3>4, <4>2, <5>1, WhatStays DEF Has
      <4>3. CASE r.op = "updateDownload"
        <5>1. Has(r.id, r.variant) /\ StateOf(r.id, r.variant) = "importing"
          BY <1>0, <2>3, <4>1, <4>3 DEF FirstTime
        <5>2. QED
          BY <1>0, <3>1, <3>2, <3>4, <4>3, <5>1, WhatStays DEF Has, StateOf
      <4>4. QED
        BY <3>1, <4>2, <4>3
    <3>5. QED
      BY <3>3, <3>4
  <2>4. ASSUME Asks(publisher)', publishings[<<req[publisher].id, req[publisher].variant>>] = 1
        PROVE  LET r == req[publisher]
               IN  Has(r.id, r.variant)' /\ StateOf(r.id, r.variant)' = "published"
    <3> DEFINE r == req[publisher]
    <3>1. req'[publisher] = r /\ r.op = "updateDownload"
      BY <1>6, <1>8, <2>4 DEF Asks
    <3>2. r.id \in Images /\ r.variant \in Variants
      BY <1>7, <3>1
    <3>3. CASE p = publisher
      <4>1. images' = images /\ Asks(publisher)
        BY <1>0, <2>4, <3>1, <3>3, ServiceGoesOn DEF Asks
      <4>2. QED
        BY <1>0, <2>4, <3>1, <4>1 DEF FirstTime, Has, StateOf
    <3>4. CASE p # publisher
      <4>1. Asks(publisher)
        BY <1>1, <2>4, <3>4 DEF Asks
      <4>2. Has(r.id, r.variant) /\ StateOf(r.id, r.variant) = "published"
        BY <1>0, <2>4, <4>1 DEF FirstTime
      <4>3. QED
        BY <1>0, <3>1, <3>2, <3>4, <4>2, WhatStays DEF Has, StateOf
    <3>5. QED
      BY <3>3, <3>4
  <2>5. /\ job' # NoJob => job' = job
        /\ Asks(importer)' => req'[importer] = req[importer]
        /\ Asks(publisher)' => req'[publisher] = req[publisher]
    BY <1>4, <1>8 DEF Asks
  <2>6. QED
    BY <1>4, <2>1, <2>2, <2>3, <2>4, <2>5 DEF FirstTime, Has, StateOf
<1>12. FirstReportsAreAccepted'
  <2>1. ASSUME pc'[importer] \in {"unlock", "answered"}, imports[req[importer].id] = 1
        PROVE  \/ answer'[importer] \in Success
               \/ images'[req[importer].id].state \in {"deleted", "failed_import"}
    <3> DEFINE r == req[importer]
    <3>1. req'[importer] = r /\ r.op \in {"createDownload", "updateDownload"}
      BY <1>6, <1>8, <2>1
    <3>2. r.id \in Images /\ images[r.id] # NoImage
      BY <1>0, <1>7, <2>1, <3>1, AnnouncedExists
    <3>3. CASE p = importer
      <4>1. \/ answer'[importer] \in Success
            \/ /\ pc[importer] = "get" /\ images' = images
               /\ \/ images[r.id] = NoImage
                  \/ CheckAgainst(r, images[r.id]) # NoError
        BY <1>0, <2>1, <3>1, <3>3, ServiceGoesOn
      <4>2. QED
        BY <1>0, <2>1, <3>1, <4>1, ImporterIsServed
    <3>4. CASE p # importer
      <4>1. \/ answer[importer] \in Success
            \/ images[r.id].state \in {"deleted", "failed_import"}
        BY <1>1, <2>1, <3>4 DEF DeliveryInv, FirstReportsAreAccepted
      <4>2. QED
        BY <1>0, <1>1, <3>2, <3>4, <4>1, WhatStays
    <3>5. QED
      BY <3>3, <3>4
  <2>2. ASSUME pc'[publisher] \in {"unlock", "answered"},
               publishings[<<req[publisher].id, req[publisher].variant>>] = 1
        PROVE  \/ answer'[publisher] \in Success
               \/ images'[req[publisher].id].state = "deleted"
    <3> DEFINE r == req[publisher]
    <3>1. req'[publisher] = r /\ r.op = "updateDownload"
      BY <1>6, <1>8, <2>2
    <3>2. r.id \in Images /\ images[r.id] # NoImage
      BY <1>0, <1>7, <2>2, <3>1, AnnouncedExists
    <3>3. CASE p = publisher
      <4>1. \/ answer'[publisher] \in Success
            \/ /\ pc[publisher] = "get" /\ images' = images
               /\ \/ images[r.id] = NoImage
                  \/ CheckAgainst(r, images[r.id]) # NoError
        BY <1>0, <2>2, <3>1, <3>3, ServiceGoesOn
      <4>2. QED
        BY <1>0, <2>2, <3>1, <4>1, PublisherIsServed
    <3>4. CASE p # publisher
      <4>1. \/ answer[publisher] \in Success
            \/ images[r.id].state = "deleted"
        BY <1>1, <2>2, <3>4 DEF DeliveryInv, FirstReportsAreAccepted
      <4>2. QED
        BY <1>0, <1>1, <3>2, <3>4, <4>1, WhatStays
    <3>5. QED
      BY <3>3, <3>4
  <2>3. /\ pc'[importer] \in {"unlock", "answered"} => req'[importer] = req[importer]
        /\ pc'[publisher] \in {"unlock", "answered"} => req'[publisher] = req[publisher]
    BY <1>8
  <2>4. QED
    BY <1>4, <2>1, <2>2, <2>3 DEF FirstReportsAreAccepted
<1>13. QED
  BY <1>9, <1>10, <1>11, <1>12 DEF DeliveryInv

\* An announced variant that was not completed when it was announced first is
\* published.
LEMMA ToldForTheFirstTime ==
  ASSUME ProtocolBodies, Known, FirstTime, NEW id \in Images, NEW v \in Variants,
         <<id, v>> \in publishedTopic, publishings[<<id, v>>] = 0
  PROVE  Has(id, v) /\ StateOf(id, v) = "published"
<1>1. <<id, v>> \in Published!Accepted
  BY DEF Published!Accepted
<1>2. Has(id, v) /\ StateOf(id, v) \in {"published", "completed"}
  BY <1>1 DEF Known, PublishedEventsMatch, Has, StateOf, ProtocolBodies, PlainNames
<1>3. QED
  BY <1>2 DEF FirstTime

LEMMA ServiceKeepsDelivery ==
  ASSUME AcceptableReports, ProtocolBodies, Known, DeliveryInv,
         \/ UserAsks \/ ImporterCreates \/ ImporterReports
         \/ \E id \in Images : ImporterStarts(id) \/ \E v \in Made : PublisherReports(id, v)
  PROVE  DeliveryInv'
<1> USE Actors
<1>0. /\ HandlerTypeOK /\ ServiceTypeOK /\ ImportInv
      /\ ActOnEvents /\ JobInHand /\ FirstTime /\ FirstReportsAreAccepted
  BY DEF Known, RInv, IInv, TypeOK, DeliveryInv
<1>1. \A q \in Procs : pc[q] = "idle" => req[q].op = "none"
  BY <1>0, OpsOf DEF HandlerTypeOK
<1>2. Made \subseteq Variants
  BY DEF Made
<1>3. CASE UserAsks
  <2>1. PICK r, error, label : Receive(user, r, error, label)
    <3>1. CASE CreateImageHandler(user)
      BY <3>1 DEF CreateImageHandler
    <3>2. CASE UpdateImageHandler(user)
      BY <3>2 DEF UpdateImageHandler
    <3>3. CASE PublishImageHandler(user)
      BY <3>3 DEF PublishImageHandler
    <3>4. QED
      BY <1>3, <3>1, <3>2, <3>3 DEF UserAsks
  <2>2. /\ UNCHANGED <<images, kafkaVars, serviceVars>>
        /\ \A q \in {importer, publisher} : pc'[q] = pc[q] /\ req'[q] = req[q] /\ answer'[q] = answer[q]
    BY <1>0, <1>3, <2>1, Received DEF UserAsks
  <2>3. QED
    BY <1>0, <2>2 DEF DeliveryInv, ActOnEvents, JobInHand, FirstTime, FirstReportsAreAccepted, Asks,
                      Has, StateOf, serviceVars, kafkaVars, uploadedVars, publishedVars
<1>4. CASE ImporterCreates
  <2>1. PICK v \in job.create, body \in DownloadBodies :
          /\ body.state = "importing"
          /\ Receive(importer, [op |-> "createDownload", id |-> job.id, variant |-> v, body |-> body],
                     CheckNewDownload(body), "lock")
          /\ job' = [job EXCEPT !.create = @ \ {v}]
    BY <1>4 DEF ImporterCreates
  <2>2. /\ job \in [id : Images, create : SUBSET Made, report : SUBSET Made] /\ job # NoJob
        /\ imports' = imports /\ publishings' = publishings
    BY <1>0, <1>4 DEF ImporterCreates, ServiceTypeOK
  <2>3. CheckNewDownload(body) = NoError
    BY <2>1, ReportBodies
  <2>4. /\ UNCHANGED <<images, kafkaVars>> /\ pc'[importer] = "lock"
        /\ req'[importer] = [op |-> "createDownload", id |-> job.id, variant |-> v, body |-> body]
        /\ pc'[publisher] = pc[publisher] /\ req'[publisher] = req[publisher]
        /\ answer'[publisher] = answer[publisher]
    BY <1>0, <2>1, <2>3, Received
  <2>5. job'.id = job.id /\ job'.create = job.create \ {v} /\ job'.report = job.report
    BY <2>1, <2>2
  <2>6. ActOnEvents'
    BY <1>0, <2>2, <2>4, <2>5 DEF ActOnEvents, kafkaVars, uploadedVars, publishedVars
  <2>7. JobInHand'
    <3>1. job' # NoJob
      <4>1. job' \in [id : Images, create : SUBSET Made, report : SUBSET Made]
        BY <2>1, <2>2
      <4>2. QED
        BY <1>2, <4>1, NoJobIsNoJob
    <3>2. QED
      BY <1>0, <2>2, <2>4, <2>5, <3>1 DEF JobInHand
  <2>8. FirstTime'
    BY <1>0, <2>1, <2>2, <2>4, <2>5 DEF FirstTime, Asks, Has, StateOf
  <2>9. FirstReportsAreAccepted'
    BY <1>0, <2>2, <2>4 DEF FirstReportsAreAccepted
  <2>10. QED
    BY <2>6, <2>7, <2>8, <2>9 DEF DeliveryInv
<1>5. CASE ImporterReports
  <2>1. PICK v \in job.report, body \in DownloadBodies :
          /\ body.state \in {"imported", "failed"}
          /\ Receive(importer, [op |-> "updateDownload", id |-> job.id, variant |-> v, body |-> body],
                     CheckDownload(body), "lock")
          /\ job' = IF job.report = {v} THEN NoJob ELSE [job EXCEPT !.report = @ \ {v}]
    BY <1>5 DEF ImporterReports
  <2>2. /\ job \in [id : Images, create : SUBSET Made, report : SUBSET Made] /\ job # NoJob
        /\ job.create = {} /\ imports' = imports /\ publishings' = publishings
    BY <1>0, <1>5 DEF ImporterReports, ServiceTypeOK
  <2>3. CheckDownload(body) = NoError
    BY <2>1, ReportBodies
  <2>4. /\ UNCHANGED <<images, kafkaVars>> /\ pc[importer] = "idle" /\ pc'[importer] = "lock"
        /\ req'[importer] = [op |-> "updateDownload", id |-> job.id, variant |-> v, body |-> body]
        /\ pc'[publisher] = pc[publisher] /\ req'[publisher] = req[publisher]
        /\ answer'[publisher] = answer[publisher]
    BY <1>0, <2>1, <2>3, Received
  <2>5. job' # NoJob => job'.id = job.id /\ job'.create = {} /\ job'.report = job.report \ {v}
    BY <2>1, <2>2
  <2>6. Has(job.id, v)
    BY <1>0, <2>1, <2>2, <2>4, IdleHasMade
  <2>7. ActOnEvents'
    BY <1>0, <2>2, <2>4, <2>5 DEF ActOnEvents, kafkaVars, uploadedVars, publishedVars
  <2>8. JobInHand'
    BY <1>0, <2>2, <2>4, <2>5 DEF JobInHand
  <2>9. FirstTime'
    BY <1>0, <2>1, <2>2, <2>4, <2>5, <2>6 DEF FirstTime, Asks, Has, StateOf
  <2>10. FirstReportsAreAccepted'
    BY <1>0, <2>2, <2>4 DEF FirstReportsAreAccepted
  <2>11. QED
    BY <2>7, <2>8, <2>9, <2>10 DEF DeliveryInv
<1>6. ASSUME NEW id \in Images, ImporterStarts(id) PROVE DeliveryInv'
  <2>1. /\ UNCHANGED <<vars, publishings>> /\ pc[importer] = "idle" /\ id \in uploadedTopic
        /\ job' = [id |-> id, create |-> Made, report |-> Made]
        /\ imports' = [imports EXCEPT ![id] = @ + 1]
    BY <1>6 DEF ImporterStarts
  <2>2. UNCHANGED <<images, handlerVars, kafkaVars>>
    BY <2>1 DEF vars, mongoVars
  <2>3. /\ imports \in [Images -> Nat]
        /\ \A i \in Images : imports[i] # 0 => imports'[i] # 0
        /\ \A i \in Images : i # id => imports'[i] = imports[i]
        /\ imports'[id] # 0 /\ (imports'[id] = 1 => imports[id] = 0)
    <3>1. imports \in [Images -> Nat]
      BY <1>0, MaxDeliveriesIsPositive DEF ServiceTypeOK
    <3>2. QED
      BY <2>1, <3>1
  <2>4. pc'[importer] = "idle" /\ req'[importer].op = "none"
    BY <1>1, <2>1, <2>2 DEF handlerVars
  <2>5. \A q \in Procs : req[q].op # "none" => req[q].id \in Images
    BY <1>0, RequestFields DEF HandlerTypeOK, NoRequest
  <2>6. ActOnEvents'
    BY <1>0, <2>1, <2>2, <2>3, <2>4
       DEF ActOnEvents, handlerVars, kafkaVars, uploadedVars, publishedVars
  <2>7. JobInHand'
    BY <2>1, <2>4 DEF JobInHand
  <2>8. FirstTime'
    <3>1. \A v \in Made : imports'[id] = 1 => ~Has(id, v)
      BY <1>0, <1>2, <2>3 DEF FirstTime
    <3>2. QED
      BY <1>0, <2>1, <2>2, <2>3, <2>4, <3>1 DEF FirstTime, Asks, Has, StateOf, handlerVars
  <2>9. FirstReportsAreAccepted'
    BY <1>0, <2>1, <2>2, <2>4 DEF FirstReportsAreAccepted, handlerVars
  <2>10. QED
    BY <2>6, <2>7, <2>8, <2>9 DEF DeliveryInv
<1>7. ASSUME NEW id \in Images, NEW v \in Made, PublisherReports(id, v) PROVE DeliveryInv'
  <2>1. PICK body \in DownloadBodies :
          /\ body.state = "completed"
          /\ Receive(publisher, [op |-> "updateDownload", id |-> id, variant |-> v, body |-> body],
                     CheckDownload(body), "lock")
    BY <1>7 DEF PublisherReports
  <2>2. /\ <<id, v>> \in publishedTopic /\ job' = job /\ imports' = imports
        /\ publishings' = [publishings EXCEPT ![<<id, v>>] = @ + 1]
    BY <1>7 DEF PublisherReports
  <2>3. CheckDownload(body) = NoError
    BY ReportBodies
  <2>4. /\ UNCHANGED <<images, kafkaVars>> /\ pc'[publisher] = "lock"
        /\ req'[publisher] = [op |-> "updateDownload", id |-> id, variant |-> v, body |-> body]
        /\ pc'[importer] = pc[importer] /\ req'[importer] = req[importer]
        /\ answer'[importer] = answer[importer]
    BY <1>0, <2>1, <2>3, Received
  <2>5. /\ \A i \in Images, w \in Variants : publishings[<<i, w>>] # 0 => publishings'[<<i, w>>] # 0
        /\ \A i \in Images, w \in Variants : publishings'[<<i, w>>] # 0 =>
             publishings[<<i, w>>] # 0 \/ (i = id /\ w = v)
        /\ publishings'[<<id, v>>] # 0 /\ (publishings'[<<id, v>>] = 1 => publishings[<<id, v>>] = 0)
    <3>1. publishings \in [Images \X Variants -> Nat]
      BY <1>0, MaxDeliveriesIsPositive DEF ServiceTypeOK
    <3>2. <<id, v>> \in Images \X Variants
      BY <1>2
    <3>3. QED
      BY <2>2, <3>1, <3>2
  <2>6. v \in Variants
    BY <1>2
  <2>7. ActOnEvents'
    BY <1>0, <2>2, <2>4, <2>5 DEF ActOnEvents, kafkaVars, uploadedVars, publishedVars
  <2>8. JobInHand'
    BY <1>0, <2>2, <2>4 DEF JobInHand
  <2>9. FirstTime'
    <3>1. publishings'[<<id, v>>] = 1 => Has(id, v) /\ StateOf(id, v) = "published"
      BY <1>0, <2>2, <2>5, <2>6, ToldForTheFirstTime
    <3>2. QED
      BY <1>0, <2>2, <2>4, <2>5, <3>1 DEF FirstTime, Asks, Has, StateOf
  <2>10. FirstReportsAreAccepted'
    BY <1>0, <2>2, <2>4 DEF FirstReportsAreAccepted
  <2>11. QED
    BY <2>7, <2>8, <2>9, <2>10 DEF DeliveryInv
<1>8. QED
  BY <1>3, <1>4, <1>5, <1>6, <1>7

LEMMA EnvironmentKeepsDelivery ==
  ASSUME DeliveryInv, (Environment /\ UNCHANGED serviceVars) \/ UNCHANGED pipelineVars
  PROVE  DeliveryInv'
<1>1. UNCHANGED <<images, handlerVars, serviceVars>>
  BY DEF Environment, ReleaseOrphanedLock, DeliverUploaded, DeliverPublished, LoseEvent,
         mongoVars, vars, pipelineVars
<1>2. uploadedTopic \subseteq uploadedTopic' /\ publishedTopic \subseteq publishedTopic'
  BY TopicsGrow DEF pipelineVars, vars, kafkaVars, uploadedVars, publishedVars
<1>3. ActOnEvents'
  BY <1>1, <1>2 DEF DeliveryInv, ActOnEvents, handlerVars, serviceVars
<1>4. JobInHand' /\ FirstTime' /\ FirstReportsAreAccepted'
  BY <1>1 DEF DeliveryInv, JobInHand, FirstTime, FirstReportsAreAccepted, Asks, Has, StateOf,
              handlerVars, serviceVars
<1>5. QED
  BY <1>3, <1>4 DEF DeliveryInv

LEMMA KnownInvariance ==
  ProtocolBodies /\ Faults \cap {"mongo", "crash"} = {} => (PipelineSpec => []Known)
<1> SUFFICES ASSUME ProtocolBodies, Faults \cap {"mongo", "crash"} = {}
             PROVE  PipelineSpec => []Known
  OBVIOUS
<1>1. QED
  BY HandlersAreThose, RInvariance, ServiceTypes, SuccessSettles, ImportInvariance, StatesSummarise,
     DownloadsComeAfterUpload, PublishedEventsAreTrue, UploadsPendingInvariance, ReportedTypes, PTL
     DEF Known

LEMMA DeliveryInvariance ==
  AcceptableReports /\ ProtocolBodies /\ Faults \cap {"mongo", "crash"} = {} =>
    (PipelineSpec => []DeliveryInv)
<1> SUFFICES ASSUME AcceptableReports, ProtocolBodies, Faults \cap {"mongo", "crash"} = {}
             PROVE  PipelineSpec => []DeliveryInv
  OBVIOUS
<1>1. PipelineInit => DeliveryInv
  BY Actors DEF PipelineInit, Init, InitMongo, DeliveryInv, ActOnEvents, JobInHand, FirstTime,
                FirstReportsAreAccepted, Asks, Has, NoRequest
<1>2. Known /\ DeliveryInv /\ [PipelineNext]_pipelineVars => DeliveryInv'
  BY HandleKeepsDelivery, ServiceKeepsDelivery, EnvironmentKeepsDelivery DEF PipelineNext
<1>3. QED
  BY <1>1, <1>2, KnownInvariance, PTL DEF PipelineSpec

\* While the store and the instances do not fail, a service that acts on an
\* event the first time it gets it is not refused, unless the image is deleted
\* or one of its variants has failed meanwhile: whichever events are lost or do
\* not marshal, however many messages are delivered twice and wherever the
\* requests of the user come in between.
THEOREM FirstReportsAreTaken ==
  AcceptableReports /\ ProtocolBodies /\ Faults \cap {"mongo", "crash"} = {} =>
    (PipelineSpec => []FirstReportsAreAccepted)
<1> SUFFICES ASSUME AcceptableReports, ProtocolBodies, Faults \cap {"mongo", "crash"} = {}
             PROVE  PipelineSpec => []FirstReportsAreAccepted
  OBVIOUS
<1>1. DeliveryInv => FirstReportsAreAccepted
  BY DEF DeliveryInv
<1>2. QED
  BY <1>1, DeliveryInvariance, PTL

----------------------------------------------------------------------------
(* No upload and no publication is forgotten.                              *)

\* Answers are only looked at in the step that makes them.
LEMMA ReportIsStored ==
  ASSUME HandlerTypeOK, Faults \cap {"mongo", "crash"} = {}, NEW p \in Procs, Lock(p) \/ Work(p) \/ Crash(p),
         req[p].op = "updateDownload", pc[p] = "write", AnswersAreTrue'
  PROVE  images'[req[p].id].downloads[req[p].variant].state = req[p].body.state
<1>1. pc'[p] = "unlock" /\ answer'[p] \in Success
  BY ServiceGoesOn
<1>2. req'[p] = req[p]
  BY <1>1, HandlingKeepsRequest
<1>3. QED
  BY <1>1, <1>2 DEF AnswersAreTrue, Success

\* A step of a request on its image, seen from the states before "imported".
LEMMA StayingEarly ==
  ASSUME Known, ActOnEvents, NEW p \in Procs, Step(p), NEW id \in Images, imports[id] # 0,
         StateIn(id, Early)'
  PROVE  /\ StateIn(id, Early)
         /\ StateIn(id, {"importing"})' => images[id].state \in {"uploaded", "importing"}
<1>1. images[id] # NoImage
  BY AnnouncedExists
<1>2. images'[id] # images[id] => Moves(images[id], images'[id])
  BY <1>1, StepMoves DEF Known, RInv
<1>3. QED
  BY <1>1, <1>2 DEF Moves, TransitionAllowed, StateIn, Early

LEMMA HandleKeepsImportWork ==
  ASSUME AcceptableReports, ProtocolBodies, Faults \cap {"mongo", "crash"} = {},
         Known, DeliveryInv, ImportWork, NEW p \in Procs, Handle(p),
         MongoTypeOK', ImageSummarisesDownloads', DownloadsFollowUpload', AnswersAreTrue'
  PROVE  ImportWork'
<1> USE Actors
<1> DEFINE r == req[importer]
<1>0. /\ TypeOK /\ HandlerTypeOK /\ MongoTypeOK /\ Step(p) /\ (Lock(p) \/ Work(p) \/ Crash(p))
      /\ RequestsOfServices /\ ActOnEvents /\ JobInHand /\ FirstTime
      /\ FirstReportsAreAccepted
  BY DEF Known, RInv, ImportInv, IInv, TypeOK, Handle, Step, DeliveryInv
<1>1. p # importer => pc'[importer] = pc[importer] /\ req'[importer] = r /\ job' = job
  BY <1>0, StepMovesOne DEF Step, OnlyMoves, Handle
<1>2. pc'[importer] # "idle" => req'[importer] = r /\ job' = job
  BY <1>0, <1>1, HandlingKeepsRequest DEF Handle
<1>3. imports' = imports /\ (job' = job \/ job' = NoJob)
  BY DEF Handle
<1>4. /\ r.op \in {"none", "createDownload", "updateDownload"}
      /\ r.op # "none" => r.id \in Images /\ r.variant \in Variants
      /\ NoRequest.op = "none"
  BY <1>0, RequestsCarryReports DEF RequestsOfServices, NoRequest
<1>5. p = importer => r.op \in {"createDownload", "updateDownload"}
  <2>1. p = importer => pc[importer] # "idle"
    BY <1>0, HandlingKeepsRequest
  <2>2. QED
    BY <1>0, <1>4, <2>1, BusyHasRequest, RequestFields DEF LockedOps
\* A request of the importer that goes on, is refused, is done or is over.
<1>6. ASSUME p = importer
      PROVE  \/ Asks(importer) /\ Asks(importer)' /\ images' = images
             \/ /\ pc[importer] = "get" /\ pc'[importer] = "unlock" /\ images' = images
                /\ imports[r.id] = 1 => images[r.id].state \in {"deleted", "failed_import"}
             \/ pc[importer] = "write" /\ pc'[importer] = "unlock"
             \/ /\ pc[importer] \in {"unlock", "answered"} /\ pc'[importer] = "idle" /\ images' = images
                /\ imports[r.id] = 1 /\ answer[importer] \notin Success =>
                     images[r.id].state \in {"deleted", "failed_import"}
  BY <1>0, <1>5, <1>6, ServiceGoesOn, ImporterIsServed DEF Asks, FirstReportsAreAccepted
<1>7. ASSUME NEW id \in Images, NEW v \in Variants, StateIn(id, {"importing"})',
             Has(id, v)', StateOf(id, v)' = "importing"
      PROVE  \/ job' # NoJob /\ job'.id = id /\ v \in job'.report
             \/ /\ Asks(importer)' /\ req'[importer].op = "updateDownload"
                /\ req'[importer].id = id /\ req'[importer].variant = v
  <2>1. CASE ~Has(id, v)
    <3>1. /\ p = importer /\ pc[p] = "write" /\ r.op = "createDownload" /\ r.id = id /\ r.variant = v
      <4>1. p = importer /\ req[p].op = "createDownload" /\ req[p].id = id /\ req[p].variant = v
        BY <1>0, <1>7, <2>1, WhatStays
      <4>2. PlainNames /\ RInv
        BY DEF Known, ProtocolBodies
      <4>3. pc[p] = "write"
        BY <1>0, <1>7, <2>1, <4>2, WhoChangesVariants
      <4>4. QED
        BY <4>1, <4>3
    <3>2. job # NoJob /\ job.id = id /\ v \in job.report
      BY <1>0, <3>1 DEF JobInHand, ImportWork
    <3>3. pc'[importer] # "idle"
      BY <1>6, <3>1 DEF Asks
    <3>4. QED
      BY <1>2, <3>2, <3>3
  <2>2. CASE Has(id, v)
    <3>1. /\ imports[id] # 0 /\ images[id] # NoImage
      BY <1>0, <2>2 DEF FirstTime, Has
    <3>2. StateIn(id, {"importing"})
      <4>1. images[id].state \in {"uploaded", "importing"}
        BY <1>0, <1>7, <3>1, StayingEarly DEF StateIn, Early
      <4>2. images[id].state # "uploaded"
        BY <2>2 DEF Has, Known, DownloadsFollowUpload
      <4>3. QED
        BY <3>1, <4>1, <4>2 DEF StateIn
    <3>3. StateOf(id, v) = "importing"
      <4>1. \/ StateOf(id, v)' = StateOf(id, v)
            \/ req[p].op = "updateDownload" /\ StateOf(id, v)' = req[p].body.state
            \/ StateOf(id, v)' = "published"
        BY <1>0, <2>2, WhoChangesVariants DEF StateOf, Known, ProtocolBodies
      <4>2. req[p].op = "updateDownload" => req[p].body.state \in {"imported", "failed", "completed"}
        BY <1>0 DEF RequestsOfServices
      <4>3. QED
        BY <1>7, <4>1, <4>2
    <3>4. imports[id] = 1
      BY <3>1, <3>2 DEF ImportWork, StateIn, Early
    <3>5. \/ job # NoJob /\ job.id = id /\ v \in job.report
          \/ Asks(importer) /\ r.op = "updateDownload" /\ r.id = id /\ r.variant = v
      BY <2>2, <3>2, <3>3 DEF ImportWork
    <3>6. CASE p # importer
      BY <1>1, <3>5, <3>6 DEF Asks
    <3>7. CASE p = importer /\ job # NoJob /\ job.id = id /\ v \in job.report
      <4>1. r.id = id
        BY <1>0, <1>5, <3>7 DEF JobInHand
      <4>2. images[id].state = "importing"
        BY <3>2 DEF StateIn
      <4>3. job' = job
        BY <1>2, <1>6, <3>4, <3>7, <4>1, <4>2 DEF Handle, Asks
      <4>4. QED
        BY <3>7, <4>3
    <3>8. CASE p = importer /\ Asks(importer) /\ r.op = "updateDownload" /\ r.id = id /\ r.variant = v
      <4>1. images[id].state = "importing"
        BY <3>2 DEF StateIn
      <4>2. ASSUME pc[importer] = "write" PROVE FALSE
        <5>1. images'[id].downloads[v].state = r.body.state
          BY <1>0, <3>8, <4>2, ReportIsStored
        <5>2. QED
          BY <1>0, <1>7, <3>8, <5>1 DEF RequestsOfServices, StateOf
      <4>3. Asks(importer)'
        BY <1>6, <3>4, <3>8, <4>1, <4>2 DEF Asks
      <4>4. QED
        BY <1>2, <3>8, <4>3 DEF Asks
    <3>9. QED
      BY <3>5, <3>6, <3>7, <3>8
  <2>3. QED
    BY <2>1, <2>2
<1>8. ASSUME NEW id \in Images, imports[id] # 0, StateIn(id, Early)'
      PROVE  /\ imports[id] = 1
             /\ \/ job' # NoJob /\ job'.id = id
                \/ Asks(importer)' /\ req'[importer].id = id
  <2>1. StateIn(id, Early)
    BY <1>0, <1>8, StayingEarly
  <2>2. /\ imports[id] = 1
        /\ \/ job # NoJob /\ job.id = id
           \/ Asks(importer) /\ r.id = id
    BY <1>8, <2>1 DEF ImportWork
  <2>3. images[id].state \notin {"deleted", "failed_import"}
    BY <2>1 DEF StateIn, Early
  <2>4. CASE p # importer
    BY <1>1, <2>2, <2>4 DEF Asks
  <2>5. CASE p = importer /\ job # NoJob /\ job.id = id
    <3>1. r.id = id
      BY <1>0, <1>5, <2>5 DEF JobInHand
    <3>2. job' = job
      BY <1>2, <1>6, <2>2, <2>3, <2>5, <3>1 DEF Handle, Asks
    <3>3. QED
      BY <2>2, <2>5, <3>2
  <2>6. CASE p = importer /\ Asks(importer) /\ r.id = id /\ ~(job # NoJob /\ job.id = id)
    <3>1. r.op = "updateDownload" /\ r.variant \in Made /\ r.variant \in Variants
      BY <1>0, <1>4, <1>5, <2>6 DEF JobInHand, RequestsOfServices
    \* What is left to report would be in its job.
    <3>2. ASSUME pc[importer] = "write" PROVE FALSE
      <4>1. Has(id, r.variant)
        BY <2>6, <3>1 DEF Known, ImportInv, ReportsComeLast
      <4>2. r.variant \in DOMAIN images'[id].downloads /\ images'[id] # NoImage
        <5>1. \A w \in Variants : Has(id, w) => Has(id, w)'
          BY <1>0, WhatStays
        <5>2. QED
          BY <3>1, <4>1, <5>1 DEF Has
      <4>3. images'[id].state = "importing"
        BY <1>8, <3>1, <4>2 DEF StateIn, Early, DownloadsFollowUpload, Has
      <4>4. "importing" \in VariantStates(id)'
        BY <4>2, <4>3 DEF ImageSummarisesDownloads
      <4>5. PICK v \in DOMAIN images'[id].downloads : images'[id].downloads[v].state = "importing"
        BY <4>4 DEF VariantStates
      <4>6. v \in Variants
        <5>1. images'[id] \in Image
          BY <1>0, <4>2 DEF MongoTypeOK
        <5>2. QED
          BY <4>5, <5>1, DownloadsElim DEF Image
      <4>7. \/ job' # NoJob /\ job'.id = id /\ v \in job'.report
            \/ Asks(importer)'
        BY <1>7, <4>2, <4>3, <4>5, <4>6 DEF StateIn, Has, StateOf
      <4>8. pc'[importer] = "unlock"
        BY <1>6, <2>6, <3>2, ServiceGoesOn, <1>0, <1>5
      <4>9. QED
        BY <1>2, <2>6, <4>7, <4>8 DEF Asks
    <3>3. Asks(importer)'
      BY <1>6, <2>2, <2>3, <2>6, <3>2 DEF Asks
    <3>4. QED
      BY <1>2, <2>2, <2>6, <3>3 DEF Asks
  <2>7. QED
    BY <2>2, <2>4, <2>5, <2>6
<1>9. req'[importer].op = "createDownload" => req'[importer].variant \in job'.report
  <2>1. req'[importer].op = "createDownload" => req'[importer] = r /\ pc'[importer] # "idle"
    BY <1>0, <1>1, <1>4, HandlingKeepsRequest, OpsOf DEF HandlerTypeOK
  <2>2. QED
    BY <1>2, <2>1 DEF ImportWork
<1>10. QED
  <2>1. ASSUME NEW id \in Images, imports'[id] # 0, StateIn(id, Early)'
        PROVE  /\ imports'[id] = 1
               /\ \/ job' # NoJob /\ job'.id = id
                  \/ Asks(importer)' /\ req'[importer].id = id
    BY <1>3, <1>8, <2>1
  <2>2. QED
    BY <1>7, <1>9, <2>1 DEF ImportWork, StateIn, Has, StateOf, Asks

LEMMA ServiceKeepsImportWork ==
  ASSUME AcceptableReports, ProtocolBodies, Known, DeliveryInv, ImportWork,
         \/ UserAsks \/ ImporterCreates \/ ImporterReports
         \/ \E id \in Images : ImporterStarts(id) \/ \E v \in Made : PublisherReports(id, v)
  PROVE  ImportWork'
<1> USE Actors
<1>0. HandlerTypeOK /\ ServiceTypeOK /\ JobInHand
  BY DEF Known, RInv, IInv, TypeOK, DeliveryInv
<1>1. pc[importer] = "idle" => req[importer].op = "none" /\ ~Asks(importer)
  BY <1>0, OpsOf DEF HandlerTypeOK, Asks
<1>2. ASSUME UNCHANGED <<images, job, imports, pc[importer], req[importer]>> PROVE ImportWork'
  BY <1>2 DEF ImportWork, StateIn, Has, StateOf, Asks
<1>3. CASE UserAsks
  <2>1. PICK r, error, label : Receive(user, r, error, label)
    <3>1. CASE CreateImageHandler(user)
      BY <3>1 DEF CreateImageHandler
    <3>2. CASE UpdateImageHandler(user)
      BY <3>2 DEF UpdateImageHandler
    <3>3. CASE PublishImageHandler(user)
      BY <3>3 DEF PublishImageHandler
    <3>4. QED
      BY <1>3, <3>1, <3>2, <3>3 DEF UserAsks
  <2>2. UNCHANGED <<images, job, imports, pc[importer], req[importer]>>
    BY <1>0, <1>3, <2>1, Received DEF UserAsks, serviceVars
  <2>3. QED
    BY <1>2, <2>2
<1>4. CASE ImporterCreates
  <2>1. PICK v \in job.create, body \in DownloadBodies :
          /\ body.state = "importing"
          /\ Receive(importer, [op |-> "createDownload", id |-> job.id, variant |-> v, body |-> body],
                     CheckNewDownload(body), "lock")
          /\ job' = [job EXCEPT !.create = @ \ {v}]
    BY <1>4 DEF ImporterCreates
  <2>2. /\ job \in [id : Images, create : SUBSET Made, report : SUBSET Made] /\ job # NoJob
        /\ imports' = imports
    BY <1>0, <1>4 DEF ImporterCreates, ServiceTypeOK
  <2>3. /\ images' = images /\ pc[importer] = "idle"
        /\ req'[importer] = [op |-> "createDownload", id |-> job.id, variant |-> v, body |-> body]
    BY <1>0, <2>1, Received
  <2>4. job'.id = job.id /\ job'.report = job.report /\ v \in job.report
    BY <1>0, <2>1, <2>2 DEF JobInHand
  <2>5. job' # NoJob
    <3>1. job' \in [id : Images, create : SUBSET Made, report : SUBSET Made]
      BY <2>1, <2>2
    <3>2. QED
      BY <3>1, NoJobIsNoJob DEF Made
  <2>6. QED
    BY <1>1, <2>2, <2>3, <2>4, <2>5 DEF ImportWork, StateIn, Has, StateOf
<1>5. CASE ImporterReports
  <2>1. PICK v \in job.report, body \in DownloadBodies :
          /\ body.state \in {"imported", "failed"}
          /\ Receive(importer, [op |-> "updateDownload", id |-> job.id, variant |-> v, body |-> body],
                     CheckDownload(body), "lock")
          /\ job' = IF job.report = {v} THEN NoJob ELSE [job EXCEPT !.report = @ \ {v}]
    BY <1>5 DEF ImporterReports
  <2>2. /\ job \in [id : Images, create : SUBSET Made, report : SUBSET Made] /\ job # NoJob
        /\ imports' = imports
    BY <1>0, <1>5 DEF ImporterReports, ServiceTypeOK
  <2>3. CheckDownload(body) = NoError
    BY <2>1, ReportBodies
  <2>4. /\ images' = images /\ pc[importer] = "idle" /\ Asks(importer)'
        /\ req'[importer] = [op |-> "updateDownload", id |-> job.id, variant |-> v, body |-> body]
    BY <1>0, <2>1, <2>3, Received DEF Asks
  <2>5. ASSUME NEW w \in job.report, w # v
        PROVE  job' # NoJob /\ job'.id = job.id /\ w \in job'.report
    <3>1. job' = [job EXCEPT !.report = @ \ {v}]
      BY <2>1, <2>5
    <3>2. job' \in [id : Images, create : SUBSET Made, report : SUBSET Made]
      BY <2>2, <3>1
    <3>3. job'.id = job.id /\ job'.report = job.report \ {v}
      BY <2>2, <3>1
    <3>4. QED
      BY <2>5, <3>2, <3>3, NoJobIsNoJob DEF Made
  <2>6. QED
    BY <1>1, <2>2, <2>4, <2>5 DEF ImportWork, StateIn, Has, StateOf
<1>6. ASSUME NEW id \in Images, ImporterStarts(id) PROVE ImportWork'
  <2>1. /\ job = NoJob /\ pc[importer] = "idle" /\ UNCHANGED <<images, handlerVars>>
        /\ job' = [id |-> id, create |-> Made, report |-> Made]
        /\ imports' = [imports EXCEPT ![id] = @ + 1]
    BY <1>6 DEF ImporterStarts, vars, mongoVars
  <2>2. job' # NoJob /\ job'.id = id
    BY <2>1, NoJobIsNoJob DEF Made
  <2>3. /\ imports'[id] = imports[id] + 1
        /\ \A i \in Images : i # id => imports'[i] = imports[i]
    BY <1>0, <2>1 DEF ServiceTypeOK
  <2>4. \A i \in Images : StateIn(i, Early) => imports[i] = 0
    BY <1>1, <2>1 DEF ImportWork
  <2>5. \A i \in Images, v \in Variants :
          ~(StateIn(i, {"importing"}) /\ Has(i, v) /\ StateOf(i, v) = "importing")
    BY <1>1, <2>1 DEF ImportWork
  <2>6. QED
    BY <1>1, <2>1, <2>2, <2>3, <2>4, <2>5 DEF ImportWork, StateIn, Has, StateOf, handlerVars
<1>7. ASSUME NEW id \in Images, NEW v \in Made, PublisherReports(id, v) PROVE ImportWork'
  <2>1. PICK r, error, label : Receive(publisher, r, error, label)
    BY <1>7 DEF PublisherReports
  <2>2. UNCHANGED <<images, job, imports, pc[importer], req[importer]>>
    BY <1>0, <1>7, <2>1, Received DEF PublisherReports
  <2>3. QED
    BY <1>2, <2>2
<1>8. QED
  BY <1>3, <1>4, <1>5, <1>6, <1>7

\* While the store, the broker and the instances do not fail, no upload is
\* forgotten: what is uploaded or importing still has a message to be taken, or
\* an importer that will decide on it.
THEOREM UploadsAreNotForgotten ==
  AcceptableReports /\ ProtocolBodies /\ Faults \cap {"mongo", "crash", "broker"} = {} =>
    (PipelineSpec => []ImportsAreUnderWay)
<1> SUFFICES ASSUME AcceptableReports, ProtocolBodies, Faults \cap {"mongo", "crash", "broker"} = {}
             PROVE  PipelineSpec => []ImportsAreUnderWay
  OBVIOUS
<1>1. PipelineInit => ImportWork
  BY Actors DEF PipelineInit, Init, InitMongo, ImportWork, StateIn, Has, NoRequest
<1>2. /\ Known /\ DeliveryInv /\ ImportWork /\ [PipelineNext]_pipelineVars
      /\ Known' /\ AnswersAreTrue'
      => ImportWork'
  <2> SUFFICES ASSUME Known, DeliveryInv, ImportWork, [PipelineNext]_pipelineVars,
                      Known', AnswersAreTrue'
               PROVE  ImportWork'
    OBVIOUS
  <2>1. MongoTypeOK' /\ ImageSummarisesDownloads' /\ DownloadsFollowUpload'
    BY DEF Known, RInv, IInv, TypeOK
  <2>2. ASSUME NEW p \in Procs, Handle(p) PROVE ImportWork'
    BY <2>1, <2>2, HandleKeepsImportWork
  <2>3. CASE (Environment /\ UNCHANGED serviceVars) \/ UNCHANGED pipelineVars
    <3>1. UNCHANGED <<images, handlerVars, serviceVars>>
      BY <2>3 DEF Environment, ReleaseOrphanedLock, DeliverUploaded, DeliverPublished, LoseEvent,
                  mongoVars, vars, pipelineVars
    <3>2. QED
      BY <3>1 DEF ImportWork, StateIn, Has, StateOf, Asks, handlerVars, serviceVars
  <2>4. QED
    BY <2>2, <2>3, ServiceKeepsImportWork DEF PipelineNext
<1>3. Faults \cap {"mongo", "crash"} = {} /\ Faults \cap {"broker", "crash"} = {}
  OBVIOUS
<1>4. PipelineSpec => []DeliveryInv
  BY <1>3, DeliveryInvariance, PTL
<1>5. PipelineSpec => []Known
  BY <1>3, KnownInvariance, PTL
<1>6. Spec => []AnswersAreTrue
  BY <1>3, SuccessMeansDone, PTL
<1>7. Spec => []UploadAnnounced
  BY <1>3, UploadsAreAnnounced, PTL
<1>8. ImportWork /\ UploadAnnounced => ImportsAreUnderWay
  BY DEF ImportWork, UploadAnnounced, ImportsAreUnderWay, StateIn, Early, Asks
<1>9. QED
  BY <1>1, <1>2, <1>4, <1>5, <1>6, <1>7, <1>8, HandlersAreThose, PTL DEF PipelineSpec

\* A variant that is published and waits for its completion has been waiting, or
\* is published by this step, which goes on to announce it.
LEMMA BecomingPublished ==
  ASSUME ProtocolBodies, RInv, Faults = {}, NEW p \in Procs, Step(p),
         NEW id \in Images, NEW v \in Variants, StillPublished(id, v)', ~StillPublished(id, v)
  PROVE  /\ images[id] # NoImage /\ images[id].state = "imported"
         /\ pc'[p] = "announce" /\ req'[p].id = id /\ v \in unsent'[p]
<1> DEFINE r == req[p]
           image == existing[p]
<1>0. TypeOK /\ MongoTypeOK /\ HandlerTypeOK /\ IInv /\ CreatedAsImporting
  BY DEF RInv, IInv, TypeOK
<1>1. /\ images'[id] # NoImage /\ images'[id].state = "published"
      /\ Has(id, v)' /\ images'[id].downloads[v].state = "published"
  BY DEF StillPublished, StateIn, StateOf
<1>2. pc[p] = "write" /\ r.id = id
  <2>1. images'[id] # images[id]
    BY DEF StillPublished, StateIn, Has, StateOf
  <2>2. pc[p] \in {"insert", "write"} /\ r.id = id
    BY <1>0, <2>1, WhoWrites DEF Step
  <2>3. QED
    BY <1>1, <2>1, <2>2, HowToAppear DEF NewImage
<1>3. images'[id] # images[id] /\ images[id] # NoImage /\ image = images[id] /\ image \in Image
  BY <1>2, AboutToWrite DEF StillPublished, StateIn, Has, StateOf
<1>4. r.op = "updateDownload" => r.body.state # "published"
  BY <1>0, RequestsCarryReports DEF ProtocolBodies
<1>5. images[id].state # "published"
  <2> SUFFICES ASSUME images[id].state = "published" PROVE FALSE
    OBVIOUS
  <2>1. CASE Has(id, v)
    <3>1. images[id].downloads[v].state = "published"
      BY <1>1, <1>4, <2>1, WhoChangesVariants DEF ProtocolBodies
    <3>2. QED
      BY <1>3, <2>1, <3>1 DEF StillPublished, StateIn, StateOf
  <2>2. CASE ~Has(id, v)
    BY <1>1, <2>2, WhoChangesVariants DEF ProtocolBodies
  <2>3. QED
    BY <2>1, <2>2
<1>6. images[id].state = "imported"
  BY <1>0, <1>1, <1>3, <1>5, StepMoves DEF Moves, TransitionAllowed
<1>7. r.op # "updateImage"
  <2> SUFFICES ASSUME r.op = "updateImage" PROVE FALSE
    OBVIOUS
  <2>1. images'[id].state = r.body.state
    BY <1>0, <1>2, <1>3, HowToWrite, WrittenAsAsked
  <2>2. r.body \in ImageBodies
    BY <1>2, AboutToWrite DEF Request
  <2>3. QED
    BY <1>1, <2>1, <2>2 DEF ProtocolBodies
<1>8. r.op # "createDownload"
  <2> SUFFICES ASSUME r.op = "createDownload" PROVE FALSE
    OBVIOUS
  <2> DEFINE d == WithDownload(image, r.variant, NewDownload(r))
  <2>1. images'[id] = Upserted(images[id], DownloadAdded(r, image))
    BY <1>0, <1>2, <1>3, HowToWrite
  <2>2. DownloadAdded(r, image).state = "importing"
    <3> HIDE DEF d
    <3>1. DownloadAdded(r, image) = [image EXCEPT !.downloads = d, !.state = "importing"]
      BY DEF DownloadAdded, d
    <3>2. QED
      BY <1>3, <3>1, WithDownloadsAndState
  <2>3. QED
    BY <1>1, <1>3, <2>1, <2>2 DEF Upserted
<1>9. r.op # "updateDownload"
  <2> SUFFICES ASSUME r.op = "updateDownload" PROVE FALSE
    OBVIOUS
  <2> DEFINE d == WithDownload(image, r.variant,
                               DownloadOf(r, image.downloads[r.variant].links))
             seen == [image EXCEPT !.downloads = d]
  <2>1. images'[id] = Upserted(images[id], DownloadReplaced(r, image))
    BY <1>0, <1>2, <1>3, HowToWrite
  <2>2. seen = [state |-> image.state, error |-> image.error, links |-> image.links, downloads |-> d]
    <3> HIDE DEF d
    <3>1. QED
      BY <1>3 DEF Image
  <2>3. UpdatedState(seen) = "imported"
    <3> HIDE DEF d
    <3>1. seen.state = "imported"
      BY <1>3, <1>6, <2>2
    <3>2. QED
      <4> HIDE DEF seen
      <4>1. QED
        BY <3>1 DEF UpdatedState
  <2>4. DownloadReplaced(r, image).state = "imported"
    <3> HIDE DEF seen
    <3>1. DownloadReplaced(r, image) =
            [seen EXCEPT !.state = UpdatedState(seen), !.error = @ \/ r.body.state = "failed"]
      BY DEF DownloadReplaced, seen
    <3>2. QED
      BY <2>2, <2>3, <3>1
  <2>5. QED
    BY <1>1, <1>3, <2>1, <2>4 DEF Upserted
<1>10. MarkPublished(p)
  BY <1>2, <1>3, <1>7, <1>8, <1>9, StepsThatWrite
     DEF UpdateImage, AddDownload, ReplaceDownload, Write
<1>11. pc'[p] = "announce" /\ req' = req /\ unsent'[p] = DOMAIN image.downloads
  BY <1>0, <1>10 DEF MarkPublished, Write, Settle, Goto, HandlerTypeOK
<1>12. v \in DOMAIN images[id].downloads
  BY <1>1, <1>2, <1>8, WhoChangesVariants DEF Has, ProtocolBodies
<1>13. QED
  BY <1>2, <1>3, <1>6, <1>11, <1>12

\* What the steps of a request that announces make of what it has to announce.
LEMMA AnnouncingGoesOn ==
  ASSUME TypeOK, Faults = {}, NEW p \in Procs, Step(p), pc[p] = "announce"
  PROVE  /\ req' = req /\ Published!Accepted \subseteq Published!Accepted'
         /\ \A v \in unsent[p] : \/ <<req[p].id, v>> \in Published!Accepted'
                                 \/ pc'[p] = "announce" /\ v \in unsent'[p]
<1> USE DEF HandlerTypeOK
<1>0. HandlerTypeOK /\ req[p].id \in Images /\ unsent[p] \subseteq Variants
  <2>1. HandlerTypeOK
    BY DEF TypeOK
  <2>2. QED
    BY <2>1, BusyHasRequest
<1>1. SendPublished(p) \/ AllPublished(p)
  BY DEF Step, Arrive, CreateImageHandler, UpdateImageHandler, PublishImageHandler,
         CreateDownloadHandler, UpdateDownloadHandler, Receive, Work, Lock, LockFails, InsertImage,
         GetImage, GetImageFails, SendUploaded, SendUploadedFails, UpdateImage, AddDownload,
         ReplaceDownload, MarkPublished, Write, MarkPublishedRefused, SendPublishedFails, Unlock,
         UnlockFails, Return, Crash
<1>2. CASE SendPublished(p)
  <2>1. PICK w \in unsent[p] : /\ Published!Send(<<req[p].id, w>>)
                               /\ unsent' = [unsent EXCEPT ![p] = @ \ {w}]
    BY <1>2 DEF SendPublished
  <2>2. /\ unsent'[p] = unsent[p] \ {w} /\ pc' = pc /\ req' = req
        /\ <<req[p].id, w>> \in Images \X Variants
    BY <1>0, <1>2, <2>1 DEF SendPublished
  <2>3. Published!Accepted' = Published!Accepted \cup {<<req[p].id, w>>}
    BY <2>1, <2>2, PublishedAccepted DEF TypeOK
  <2>4. QED
    BY <2>2, <2>3
<1>3. CASE AllPublished(p)
  BY <1>3, PublishedAccepted DEF AllPublished, TypeOK, kafkaVars
<1>4. QED
  BY <1>1, <1>2, <1>3

LEMMA StepKeepsAnnounced ==
  ASSUME ProtocolBodies, RInv, Faults = {}, PublishedAreAnnounced, NEW p \in Procs, Step(p)
  PROVE  PublishedAreAnnounced'
<1>0. TypeOK /\ HandlerTypeOK
  BY DEF RInv, IInv, TypeOK
<1> SUFFICES ASSUME NEW id \in Images, NEW v \in Variants, StillPublished(id, v)'
             PROVE  <<id, v>> \in Published!Accepted' \/ AboutToBeAnnounced(id, v)'
  BY DEF PublishedAreAnnounced
<1>1. CASE ~StillPublished(id, v)
  BY <1>1, BecomingPublished DEF AboutToBeAnnounced
<1>2. CASE StillPublished(id, v)
  <2>1. <<id, v>> \in Published!Accepted \/ AboutToBeAnnounced(id, v)
    BY <1>2 DEF PublishedAreAnnounced
  <2>2. Published!Accepted \subseteq Published!Accepted'
    BY <1>0, StepAccepts
  <2>3. ASSUME NEW q \in Procs, pc[q] = "announce", req[q].id = id, v \in unsent[q]
        PROVE  <<id, v>> \in Published!Accepted' \/ AboutToBeAnnounced(id, v)'
    <3>1. CASE q = p
      BY <1>0, <2>3, <3>1, AnnouncingGoesOn DEF AboutToBeAnnounced
    <3>2. CASE q # p
      <4>1. pc'[q] = pc[q] /\ req'[q] = req[q] /\ unsent'[q] = unsent[q]
        BY <1>0, <3>2, StepMovesOne, OthersKeepUnsent DEF Step, OnlyMoves
      <4>2. QED
        BY <2>3, <4>1 DEF AboutToBeAnnounced
    <3>3. QED
      BY <3>1, <3>2
  <2>4. QED
    BY <2>1, <2>2, <2>3 DEF AboutToBeAnnounced
<1>3. QED
  BY <1>1, <1>2

LEMMA PublishedAreAnnouncedInvariance ==
  ProtocolBodies /\ Faults = {} => (Spec => []PublishedAreAnnounced)
<1> SUFFICES ASSUME ProtocolBodies, Faults = {} PROVE Spec => []PublishedAreAnnounced
  OBVIOUS
<1>1. Init => PublishedAreAnnounced
  BY DEF Init, InitMongo, PublishedAreAnnounced, StillPublished, StateIn
<1>2. RInv /\ PublishedAreAnnounced /\ [Next]_vars => PublishedAreAnnounced'
  <2> SUFFICES ASSUME RInv, PublishedAreAnnounced, [Next]_vars PROVE PublishedAreAnnounced'
    OBVIOUS
  <2>1. ASSUME NEW p \in Procs, Step(p) PROVE PublishedAreAnnounced'
    BY <2>1, StepKeepsAnnounced
  <2>2. CASE Environment \/ UNCHANGED vars
    <3>1. UNCHANGED <<images, handlerVars>>
      BY <2>2 DEF Environment, ReleaseOrphanedLock, DeliverUploaded, DeliverPublished, LoseEvent,
                  mongoVars, vars
    <3>2. UNCHANGED publishedVars \/ Published!Deliver
      BY <2>2 DEF Environment, ReleaseOrphanedLock, DeliverUploaded, DeliverPublished, LoseEvent,
                  kafkaVars, vars
    <3>3. Published!Accepted' = Published!Accepted
      BY <3>2, PublishedAccepted DEF RInv, IInv, TypeOK
    <3>4. QED
      BY <3>1, <3>3 DEF PublishedAreAnnounced, StillPublished, StateIn, Has, StateOf,
                        AboutToBeAnnounced, handlerVars
  <2>3. QED
    BY <2>1, <2>2 DEF Next, Step
<1>3. QED
  BY <1>1, <1>2, RInvariance, PTL DEF Spec

\* A message that was taken is of an image that is published before as well.
LEMMA TakenBefore ==
  ASSUME ProtocolBodies, Known, ActOnEvents, Faults = {}, NEW p \in Procs, Step(p),
         NEW id \in Images, NEW v \in Variants, StillPublished(id, v)', publishings[<<id, v>>] # 0
  PROVE  StillPublished(id, v)
<1>1. images[id].state # "imported"
  BY AnnouncedExists
<1>2. QED
  BY <1>1, BecomingPublished DEF Known

LEMMA HandleKeepsReported ==
  ASSUME AcceptableReports, ProtocolBodies, Faults = {}, Known, DeliveryInv, TakenAreReported,
         NEW p \in Procs, Handle(p), AnswersAreTrue'
  PROVE  TakenAreReported'
<1> USE Actors
<1> DEFINE r == req[publisher]
<1>0. /\ HandlerTypeOK /\ Step(p) /\ (Lock(p) \/ Work(p) \/ Crash(p))
      /\ RequestsOfServices /\ ActOnEvents /\ FirstTime /\ publishings' = publishings
      /\ Faults \cap {"mongo", "crash"} = {}
  BY DEF Known, RInv, ImportInv, IInv, TypeOK, Handle, Step, DeliveryInv
<1> SUFFICES ASSUME NEW id \in Images, NEW v \in Variants,
                    StillPublished(id, v)', publishings[<<id, v>>] # 0
             PROVE  Asks(publisher)' /\ req'[publisher].id = id /\ req'[publisher].variant = v
  BY <1>0 DEF TakenAreReported
<1>1. StillPublished(id, v)
  BY <1>0, TakenBefore
<1>2. Asks(publisher) /\ r.id = id /\ r.variant = v
  BY <1>1 DEF TakenAreReported
<1>3. r.op = "updateDownload" /\ r.body.state = "completed"
  <2>1. r.op # "none"
    BY <1>0, <1>2, BusyHasRequest, RequestFields DEF Asks, LockedOps
  <2>2. QED
    BY <1>0, <2>1 DEF RequestsOfServices
<1>4. CASE p # publisher
  BY <1>0, <1>2, <1>4, StepMovesOne DEF Step, OnlyMoves, Asks
<1>5. CASE p = publisher
  <2>1. ASSUME pc[publisher] = "write" PROVE FALSE
    <3>1. images'[id].downloads[v].state = "completed"
      BY <1>0, <1>2, <1>3, <1>5, <2>1, ReportIsStored
    <3>2. QED
      BY <3>1 DEF StillPublished, StateOf
  <2>2. CheckAgainst(r, images[id]) = NoError /\ images[id] # NoImage
    <3>1. DownloadTransitionAllowed(StateOf(id, v), r.body.state)
      BY <1>1, <1>3 DEF StillPublished, DownloadTransitionAllowed
    <3>2. QED
      BY <1>1, <1>2, <1>3, <3>1, WhyRefused DEF StillPublished, StateIn
  <2>3. Asks(publisher)'
    BY <1>0, <1>2, <1>3, <1>5, <2>1, <2>2, ServiceGoesOn DEF Asks
  <2>4. req'[publisher] = r
    BY <1>0, <1>5, <2>3, HandlingKeepsRequest DEF Asks
  <2>5. QED
    BY <1>2, <2>3, <2>4
<1>6. QED
  BY <1>4, <1>5

LEMMA ServiceKeepsReported ==
  ASSUME ProtocolBodies, AcceptableReports, Known, TakenAreReported,
         \/ UserAsks \/ ImporterCreates \/ ImporterReports
         \/ \E id \in Images : ImporterStarts(id) \/ \E v \in Made : PublisherReports(id, v)
  PROVE  TakenAreReported'
<1> USE Actors
<1>0. HandlerTypeOK /\ ServiceTypeOK
  BY DEF Known, RInv, IInv, TypeOK
<1>1. ASSUME UNCHANGED <<images, publishings, pc[publisher], req[publisher]>> PROVE TakenAreReported'
  BY <1>1 DEF TakenAreReported, StillPublished, StateIn, Has, StateOf, Asks
<1>2. CASE UserAsks
  <2>1. PICK r, error, label : Receive(user, r, error, label)
    <3>1. CASE CreateImageHandler(user)
      BY <3>1 DEF CreateImageHandler
    <3>2. CASE UpdateImageHandler(user)
      BY <3>2 DEF UpdateImageHandler
    <3>3. CASE PublishImageHandler(user)
      BY <3>3 DEF PublishImageHandler
    <3>4. QED
      BY <1>2, <3>1, <3>2, <3>3 DEF UserAsks
  <2>2. QED
    BY <1>0, <1>1, <1>2, <2>1, Received DEF UserAsks, serviceVars
<1>3. CASE ImporterCreates \/ ImporterReports
  <2>1. PICK r, error, label : Receive(importer, r, error, label)
    <3>1. CASE ImporterCreates
      BY <3>1 DEF ImporterCreates
    <3>2. CASE ImporterReports
      BY <3>2 DEF ImporterReports
    <3>3. QED
      BY <1>3, <3>1, <3>2
  <2>2. publishings' = publishings
    BY <1>3 DEF ImporterCreates, ImporterReports
  <2>3. QED
    BY <1>0, <1>1, <2>1, <2>2, Received
<1>4. ASSUME NEW id \in Images, ImporterStarts(id) PROVE TakenAreReported'
  BY <1>1, <1>4 DEF ImporterStarts, vars, mongoVars, handlerVars
<1>5. ASSUME NEW id \in Images, NEW v \in Made, PublisherReports(id, v) PROVE TakenAreReported'
  <2>1. PICK body \in DownloadBodies :
          Receive(publisher, [op |-> "updateDownload", id |-> id, variant |-> v, body |-> body],
                  CheckDownload(body), "lock")
    BY <1>5 DEF PublisherReports
  <2>2. CheckDownload(body) = NoError
    BY ReportBodies
  <2>3. /\ pc[publisher] = "idle" /\ images' = images /\ Asks(publisher)'
        /\ req'[publisher] = [op |-> "updateDownload", id |-> id, variant |-> v, body |-> body]
    BY <1>0, <2>1, <2>2, Received DEF Asks
  <2>4. \A i \in Images, w \in Variants : publishings'[<<i, w>>] # 0 =>
          publishings[<<i, w>>] # 0 \/ (i = id /\ w = v)
    BY <1>0, <1>5 DEF PublisherReports, ServiceTypeOK
  <2>5. QED
    BY <2>3, <2>4 DEF TakenAreReported, StillPublished, StateIn, Has, StateOf, Asks
<1>6. QED
  BY <1>2, <1>3, <1>4, <1>5

\* While nothing fails, no publication is forgotten: a variant of a published
\* image that is not completed is about to be announced, or its message is still
\* to be taken, or the publisher is about to report it.
THEOREM PublicationsAreNotForgotten ==
  AcceptableReports /\ ProtocolBodies /\ Faults = {} => (PipelineSpec => []PublicationsAreUnderWay)
<1> SUFFICES ASSUME AcceptableReports, ProtocolBodies, Faults = {}
             PROVE  PipelineSpec => []PublicationsAreUnderWay
  OBVIOUS
<1>1. PipelineInit => TakenAreReported
  BY DEF PipelineInit, TakenAreReported
<1>2. Known /\ DeliveryInv /\ TakenAreReported /\ [PipelineNext]_pipelineVars /\ AnswersAreTrue'
      => TakenAreReported'
  <2> SUFFICES ASSUME Known, DeliveryInv, TakenAreReported, [PipelineNext]_pipelineVars,
                      AnswersAreTrue'
               PROVE  TakenAreReported'
    OBVIOUS
  <2>1. ASSUME NEW p \in Procs, Handle(p) PROVE TakenAreReported'
    BY <2>1, HandleKeepsReported
  <2>2. CASE (Environment /\ UNCHANGED serviceVars) \/ UNCHANGED pipelineVars
    <3>1. UNCHANGED <<images, handlerVars, serviceVars>>
      BY <2>2 DEF Environment, ReleaseOrphanedLock, DeliverUploaded, DeliverPublished, LoseEvent,
                  mongoVars, vars, pipelineVars
    <3>2. QED
      BY <3>1 DEF TakenAreReported, StillPublished, StateIn, Has, StateOf, Asks, handlerVars,
                  serviceVars
  <2>3. QED
    BY <2>1, <2>2, ServiceKeepsReported DEF PipelineNext
<1>3. Faults \cap {"mongo", "crash"} = {} /\ Faults \cap {"broker", "crash"} = {}
  OBVIOUS
<1>4. PipelineSpec => []DeliveryInv
  BY <1>3, DeliveryInvariance, PTL
<1>5. PipelineSpec => []Known
  BY <1>3, KnownInvariance, PTL
<1>6. Spec => []AnswersAreTrue
  BY <1>3, SuccessMeansDone, PTL
<1>7. Spec => []PublishedAreAnnounced
  BY PublishedAreAnnouncedInvariance, PTL
<1>8. PublishedAreAnnounced /\ TakenAreReported => PublicationsAreUnderWay
  BY DEF PublishedAreAnnounced, TakenAreReported, PublicationsAreUnderWay, StillPublished, Has,
         StateOf, StateIn, Asks, AboutToBeAnnounced
<1>9. QED
  BY <1>1, <1>2, <1>4, <1>5, <1>6, <1>7, <1>8, HandlersAreThose, PTL DEF PipelineSpec

=============================================================================
