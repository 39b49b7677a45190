---------------------------- MODULE ImagePipeline ----------------------------
(***************************************************************************)
(* The API between the two services its events drive.  The importer, told  *)
(* of an upload, creates all variants and then reports each of them; the   *)
(* static file publisher, told of a published variant, reports it          *)
(* completed.  A user creates, uploads, publishes and deletes images.      *)
(*                                                                         *)
(* The two services are not part of the repository: what they send is what *)
(* the routes of the API and the states of the models leave them to send.  *)
(* Kafka delivers a message at least once; a service gives a message up    *)
(* when a request it makes for it is not answered with a success.          *)
(***************************************************************************)
EXTENDS ImageAPI

CONSTANTS
  user, importer, publisher,   \* whose requests a slot carries
  NoJob,                       \* the importer has no message in hand
  MaxDeliveries                \* how often one message is delivered at most

ASSUME ActorsHaveSlots ==
  /\ {user, importer, publisher} = Procs
  /\ importer \notin {user, publisher} /\ user # publisher

ASSUME NoJobIsNoJob ==
  NoJob \notin [id : Images, create : SUBSET Variants, report : SUBSET Variants]

ASSUME MaxDeliveriesIsPositive == MaxDeliveries \in Nat \ {0}

VARIABLES
  job,           \* the image the importer works on, the variants it has still
                 \* to create and to report
  imports,       \* how often each image-uploaded message was taken
  publishings    \* how often each static-file-published message was taken

serviceVars  == <<job, imports, publishings>>
pipelineVars == <<vars, serviceVars>>

PipelineInit ==
  /\ Init
  /\ job = NoJob
  /\ imports = [id \in Images |-> 0]
  /\ publishings = [e \in Images \X Variants |-> 0]

----------------------------------------------------------------------------

Success == {200, 201, 204}

\* The variants the importer makes of an upload; each has a name.
Made == Variants \ {NoName}

\* A request of a handler goes on, or is answered: the importer drops its job
\* when that is not a success.
Handle(p) ==
  /\ Lock(p) \/ Work(p) \/ Crash(p)
  /\ job' = IF p = importer /\ pc'[p] = "idle" /\ answer[p] \notin Success THEN NoJob ELSE job
  /\ UNCHANGED <<imports, publishings>>

UserAsks ==
  /\ CreateImageHandler(user) \/ UpdateImageHandler(user) \/ PublishImageHandler(user)
  /\ UNCHANGED serviceVars

\* The next message is taken when the last request for the one before is done.
ImporterStarts(id) ==
  /\ job = NoJob /\ pc[importer] = "idle"
  /\ id \in uploadedTopic /\ imports[id] < MaxDeliveries
  /\ job' = [id |-> id, create |-> Made, report |-> Made]
  /\ imports' = [imports EXCEPT ![id] = @ + 1]
  /\ UNCHANGED <<publishings, vars>>

ImporterCreates ==
  /\ job # NoJob
  /\ \E v \in job.create, body \in DownloadBodies :
       /\ body.state = "importing"
       /\ Receive(importer, [op |-> "createDownload", id |-> job.id, variant |-> v, body |-> body],
                  CheckNewDownload(body), "lock")
       /\ job' = [job EXCEPT !.create = @ \ {v}]
  /\ UNCHANGED <<imports, publishings>>

ImporterReports ==
  /\ job # NoJob /\ job.create = {}
  /\ \E v \in job.report, body \in DownloadBodies :
       /\ body.state \in {"imported", "failed"}
       /\ Receive(importer, [op |-> "updateDownload", id |-> job.id, variant |-> v, body |-> body],
                  CheckDownload(body), "lock")
       /\ job' = IF job.report = {v} THEN NoJob ELSE [job EXCEPT !.report = @ \ {v}]
  /\ UNCHANGED <<imports, publishings>>

PublisherReports(id, v) ==
  /\ <<id, v>> \in publishedTopic /\ publishings[<<id, v>>] < MaxDeliveries
  /\ \E body \in DownloadBodies :
       /\ body.state = "completed"
       /\ Receive(publisher, [op |-> "updateDownload", id |-> id, variant |-> v, body |-> body],
                  CheckDownload(body), "lock")
  /\ publishings' = [publishings EXCEPT ![<<id, v>>] = @ + 1]
  /\ UNCHANGED <<job, imports>>

PipelineNext ==
  \/ \E p \in Procs : Handle(p)
  \/ UserAsks
  \/ ImporterCreates \/ ImporterReports
  \/ \E id \in Images : ImporterStarts(id) \/ \E v \in Made : PublisherReports(id, v)
  \/ Environment /\ UNCHANGED serviceVars

PipelineSpec == PipelineInit /\ [][PipelineNext]_pipelineVars

\* The handlers and the Kafka clients go on as in ImageAPI.  Of the services
\* only this is assumed: each message is taken at least once and its requests
\* are made.  Of the user nothing is.
FairPipelineSpec ==
  /\ PipelineSpec
  /\ \A p \in Procs : WF_pipelineVars(Work(p) /\ Handle(p)) /\ SF_pipelineVars(Lock(p) /\ Handle(p))
  /\ WF_pipelineVars(DeliverUploaded /\ UNCHANGED serviceVars)
  /\ WF_pipelineVars(DeliverPublished /\ UNCHANGED serviceVars)
  /\ WF_pipelineVars(ImporterCreates) /\ WF_pipelineVars(ImporterReports)
  /\ \A id \in Images :
       /\ WF_pipelineVars(ImporterStarts(id))
       /\ \A v \in Made : WF_pipelineVars(PublisherReports(id, v))

----------------------------------------------------------------------------

\* Type correctness with the services at work: what they send is stored as a
\* known state, and the messages they have in hand are known images.
PipelineTypeOK ==
  /\ TypeOK
  /\ job \in {NoJob} \cup [id : Images, create : SUBSET Made, report : SUBSET Made]
  /\ imports \in [Images -> 0..MaxDeliveries]
  /\ publishings \in [Images \X Variants -> 0..MaxDeliveries]

\* An image is imported only with all the variants its importer makes of it,
\* each of them imported, whatever calls fail and however often the message is
\* delivered: the state is never derived from a part of the variants.
ImportedMeansEverything ==
  \A id \in Images : images[id] # NoImage /\ images[id].state = "imported" =>
    /\ DOMAIN images[id].downloads = Made
    /\ \A v \in Made : images[id].downloads[v].state = "imported"

\* A service that acts on an event the first time it gets it is not refused,
\* unless the image is deleted or one of its variants has failed meanwhile: the
\* upload is announced before it is stored, but under the lock, so the importer
\* finds the image uploaded; a variant is stored before it is announced.
FirstReportsAreAccepted ==
  /\ pc[importer] \in {"unlock", "answered"} /\ imports[req[importer].id] = 1 =>
       \/ answer[importer] \in Success
       \/ images[req[importer].id].state \in {"deleted", "failed_import"}
  /\ pc[publisher] \in {"unlock", "answered"}
     /\ publishings[<<req[publisher].id, req[publisher].variant>>] = 1 =>
       \/ answer[publisher] \in Success
       \/ images[req[publisher].id].state = "deleted"

StateIn(id, states) == images[id] # NoImage /\ images[id].state \in states

\* No upload is forgotten: as long as an image is uploaded or importing, its
\* message is still to be taken, or the importer has it in hand or is about to
\* make the report that decides on it.
ImportsAreUnderWay ==
  \A id \in Images : StateIn(id, {"uploaded", "importing"}) =>
    \/ id \in Uploaded!Accepted /\ imports[id] = 0
    \/ job # NoJob /\ job.id = id
    \/ pc[importer] \in {"lock", "get", "write"} /\ req[importer].id = id

\* No publication is forgotten: as long as a variant of a published image is not
\* completed, it is about to be announced, or its message is still to be taken,
\* or the publisher is about to report it.
PublicationsAreUnderWay ==
  \A id \in Images, v \in Variants :
    /\ StateIn(id, {"published"})
    /\ v \in DOMAIN images[id].downloads /\ images[id].downloads[v].state = "published"
    => \/ \E p \in Procs : pc[p] = "announce" /\ req[p].id = id /\ v \in unsent[p]
       \/ <<id, v>> \in Published!Accepted /\ publishings[<<id, v>>] = 0
       \/ /\ pc[publisher] \in {"lock", "get", "write"}
          /\ req[publisher].id = id /\ req[publisher].variant = v

\* Every upload ends in an image that is imported, has failed or is deleted.
UploadsAreImported ==
  \A id \in Images :
    StateIn(id, {"uploaded"}) ~> StateIn(id, {"imported", "failed_import", "deleted"})

\* Every published image is completed or deleted in the end.
PublicationsAreCompleted ==
  \A id \in Images : StateIn(id, {"published"}) ~> StateIn(id, {"completed", "deleted"})
=============================================================================
