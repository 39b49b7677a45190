# TLA+ models of dp-image-api

The Image API keeps the metadata of images and of their download variants in
MongoDB, tells an importer through Kafka that an image was uploaded, is told by
the importer (over HTTP) what becomes of each variant, and on publication tells
the static file publisher, variant by variant, through Kafka. Several instances
run over one database. These modules model the handlers that change images and
those that read them, the life of one instance from start to exit, and the API
between the two services it drives. They are checked with TLC on small
instances, and their main safety properties are proved with TLAPS for every
instance.

## 1. Inventory

| Component | State | Operations | Modelled in |
|---|---|---|---|
| Models (`models/`) | none, pure functions | the state tables of an image and a download, validation of bodies, validation against the stored document, derived image state | `ImageModels` |
| Mongo store (`mongo/mongo.go`) | images collection, lock collection | `GetImage(s)`, `UpsertImage`, `UpdateImage`, `AcquireImageLock`, `UnlockImage`; `Init`, `Close` | `MongoImages`; `GetImages` in `ImageReads`, the connection in `ServiceLifecycle` |
| Event producers (`event/`, `schema/`) | an output channel per producer | `ImageUploaded`, `ImagePublished`: marshal, then a blocking send | `EventProducer` |
| Handlers that change an image (`api/image.go`) | per request: what it read, what it decided | create, update, create download, update download, publish | `ImageAPI`; what they promise in `ImageWorkflow` |
| Read handlers and link rewriting (`api/image.go`) | none | `GET` of images, an image, downloads, a download | `ImageReads` |
| Routes, authorisation (`api/api.go`) | none after `Setup` | publishing mode has all routes, web mode the `GET` ones | the `Arrive` actions of `ImageAPI`, `Setup` of `ServiceLifecycle`; authorisation is a middleware of another repository |
| Service lifecycle (`service/`, `main.go`) | which dependencies were created, server, channel of fatal errors | `Run`, `Close` with a timeout, the main `select` | `ServiceLifecycle` |
| Configuration, URL builder | none | read once; string formatting | the two switches, and whether a link parses, in `ServiceLifecycle` and `ImageReads` |
| Importer, static file publisher (other repositories) | the message in hand | report on variants | `ImagePipeline`, from what the routes and states leave them to do |
| Mocks | | generated | not modelled |

**Interactions.** A handler calls the store and the producers synchronously and
holds the lock of one image from `AcquireImageLock` to a deferred
`unlockImage`. All requests of all instances share the two collections; the
requests of an instance share its two producers. `CreateImageHandler` is the
only handler that writes without the lock.

**What is hard here.** Each handler reads a whole document, decides, and writes
it back in another call, so everything rests on the lock. Four handlers with
four different guards drive one state machine. Update announces the upload
*before* its write, publish announces *after* it, and neither can take an event
back or repeat it if the other half fails. The send to Kafka blocks, under the
lock. A driver error does not tell whether the write was applied, an unlock can
be lost, an instance can stop between any two calls.

**What makes each component correct.**

* Models: every state a handler derives is one transition away from the one it
  was derived from; the derived state speaks for *all* variants.
* Store: `$set` of a model must not erase what the model leaves out; a lock has
  one owner.
* Handlers: no lost update; the image state keeps to its table and summarises
  its variants; an event is sent exactly for what the database says; an answer
  is true; every return path unlocks.
* Producers: what a handler has handed over reaches the topic, while the broker
  works.
* Read handlers: what a reader has seen without a lock stays true enough to act
  on; nothing a writer stored takes a reader down.
* Lifecycle: no request meets a dependency that is not open; what is closed was
  open; the result of `Close` is true, though the timeout races the closing
  goroutine; the process exits when told to.
* The whole: an image is imported with all its variants or not at all; while
  nothing fails, what is begun is finished.

The hazards, each at its line and with the properties aimed at it, are listed
in `PROJECT.json`.

## 2. Modules

| Module | Models |
|---|---|
| `ImageModels` | package `models`: the operators the handlers decide with |
| `EventProducer` | one producer, its channel, and the Kafka client behind it (external) |
| `MongoImages` | the two collections, the `$set` semantics of the two writes, the lock |
| `ImageAPI` | composes the three: any number of requests over one store and two producers (`Uploaded` and `Published`, instances of `EventProducer`), and its properties |
| `DocumentedBehaviour` | what a comment says of the type of a variant and the handlers do not do |
| `ImageWorkflow` | the abstract specification: a table of images in which every change is one atomic step, and what has been announced; no locks, requests or failures |
| `ImageRefinement` | `ImageAPI` implements `ImageWorkflow` (`INSTANCE ... WITH`) |
| `ImageReads` | the four `GET` handlers next to `ImageAPI`, with link rewriting |
| `ImagePipeline` | `ImageAPI` with a user, an importer and a publisher that act on the events |
| `ServiceLifecycle` | `main`, `run`, `Run`, `Close`: one instance from start to exit |
| `MCImageAPI`, `MCImageReads`, `MCImageWorkflow`, `MCImageRefinement`, `MCImagePipeline` | request bodies and symmetries for TLC |
| `ImageAPIProofs`, `ImageWorkflowProofs`, `ImageRefinementProofs`, `ImagePromisesProofs` | the theorems about the handlers |
| `ImageReadsProofs`, `ImagePipelineProofs`, `ServiceLifecycleProofs` | the theorems about readers, about the two services and about one instance |

### How state and actions correspond to the code

* `images`, `locks`: the collections. A document is reduced to its state,
  whether its error text is set, whether its links are there and whose they are,
  and the map of downloads; a download to its state, its type and its links.
  Nothing else is ever tested by a handler (collection id, licence, sizes, times
  and file names are only carried along). `NoName` is the empty variant name,
  which a body may have and a route may not.
* The name of a variant is any string of a body, and `UpdateImage` makes it part
  of a database path (`downloads.<variant>.state`, mongo.go:169-216). `Entry[v]`
  is the entry that path leads to: `v` for a plain name, `a` for `a.b`, `NoName`
  where a part of the path would be empty (`PathsAreComplete`: the database
  refuses it). So publishing a variant `a.b` leaves it as it is and touches or
  makes the entry `a`, which gets fields the model of a download does not have:
  a new one is the `EmptyDownload`, a `Leftover`. `PlainNames` says that no name
  has a dot.
* A process `p \in Procs` is the slot of a request in flight, in whatever
  instance. `pc[p]` is the next call it makes to the store or a producer;
  `req`, `existing`, `unsent`, `answer` are the local variables of its handler
  (request, document read, events still to send, status settled on).
* One action per call: `Lock`, `GetImage`, `SendUploaded`, `UpdateImage`,
  `AddDownload`, `ReplaceDownload`, `MarkPublished`, `SendPublished`, `Unlock`;
  what the handler does between two calls (validation, building the model to
  write) belongs to the step before the next call. The checks before the lock
  are part of the arrival. Errors keep the order of the code: `e1 ?? e2` is the
  first error that is not nil.
* Every error return is there: a body that does not parse or validate, a lock,
  read or write that fails (`LockFails`, `GetImageFails`, the second disjunct of
  `Write`), an event that does not marshal (`SendUploadedFails`,
  `SendPublishedFails`). A write that fails may have been applied (`PutFails`).
* `UpsertImage` is `$set` of the bson document of the model, in which
  `omitempty` leaves out empty fields: `Upserted`. `UpdateImage` sets field by
  field, the downloads by path: `Updated`.
* The status is settled where the handler decides it; that the response is
  written before the deferred unlock (or, in `UpdateImageHandler`, after it)
  makes no difference to what is stored.
* `Crash(p)` stops one request; an instance that stops is a succession of these
  and of `LoseEvent`, which drops the events it holds. A lock nobody will
  release any more is `Orphaned`, and `ReleaseOrphanedLock` is the lock library
  giving it up. No step gives up the lock of a live handler; see section 6.
* Which of the four kinds of failure may happen is the constant `Faults`.
* `topic` is a set: the properties ask what reached Kafka, and that nothing is
  sent twice is a property of the steps that send.
* `ImageReads`: a `GET` of one image is one read of one document and so one
  step; a list is fetched document by document (`cursor`), and the writers move
  in between. `seen` is the state of each image a reader saw last, `outcome` how
  its request ended: a 500 of the store and one of a link are told apart, a nil
  dereference is `panic`.
* `ImageWorkflow`: `SetState`, `AddVariant`, `ReportVariant` and `Publish` are
  the handlers as they would be if nothing came between their calls;
  `AnnounceUpload` and `AnnouncePublication` what they may tell Kafka. In
  `ImageRefinement` the collection stands for itself and what a producer has
  accepted (its channel and the topic) for what is announced.
* `ImagePipeline`: each service has one slot. `job` is the message the importer
  has in hand; `imports` and `publishings` count deliveries, at most
  `MaxDeliveries` of each message. A service gives a message up when a request
  it makes is not answered with a success.
* `ServiceLifecycle`: `main` is what the main goroutine does next, `closer` what
  the goroutine of `Close` does next, `serve` the one in `ListenAndServe`;
  `flags` is the `ExternalServiceList`. The read of `gracefulShutdown` after a
  timeout is not ordered after the write: `CloseReturns` may see either value.

## 3. Runs

| Run | Instance | Shows |
|---|---|---|
| `any_clients` | 2 requests, 1 image, 1 variant, bodies with any state and bodies that fail a check, failing store and marshaller | types, lock discipline, no lock left behind, no stale write, the image state machine, events match the database, publications are not repeated and an image is announced for import again only to retry |
| `protocol_clients` | 2 requests, 1 image, 3 variants of which one has a name that makes no path in the database, clients that keep to the protocol, failing store and marshaller, crashes, lost locks and lost events | the image state summarises its variants; variants keep to their table; what is stored stays consistent when an instance stops anywhere or the database refuses to publish |
| `refinement` | 2 requests, 1 image, 2 variants of which one has a dot in its name, clients that upload images and report variants, failing store and marshaller | every behaviour of the handlers is one of the atomic workflow in which nothing announced is lost; a success is answered only for what is done, a 204 only when the loop over the events of both variants has ended well |
| `workflow` | 1 image, 3 variants, clients that keep to the protocol, announcements may be lost | a variant announced as published is published, and states summarise variants, in the workflow |
| `pipeline` | user, importer and publisher, 1 image, 2 variants, producers of capacity 1, each message delivered up to twice, nothing fails, fairness | every request ends, publications reach Kafka, first reports are accepted, no upload and no publication is without somebody to carry it on, uploads are imported, publications completed |
| `pipeline_faults` | the same with 3 variants and every kind of failure, without fairness | an image is imported only with all its variants |
| `reads` | 1 request at a time of clients that keep to the protocol, 1 image, 2 variants, 1 reader, rewriting on, failing store | what was seen stays true, and once the import was seen to be over the list of the variants is final |
| `reads_of_anything` | 1 request, 1 image, bodies with any state and with links of their own, three names: a plain one, one that leads past itself to the plain one, one that makes neither a URL nor a path | links stay the API's, and each `GET` goes down or answers 500 only for the names it wants or meets |
| `lifecycle` | 2 requests in flight, both modes, every call may fail or block, fairness | dependencies outlive requests, `Close` is truthful, a failed start is silent, the process stops when asked |
| `type_changed`, `missing_variant`, `dotted_variant` | 1 request, 1 image, 1 variant (`dotted_variant`: 2, one dotted), nothing fails | one disagreement between text and code each, section 5 |

**Protocol clients.** Any authorised client may PUT any image state and POST or
PUT any variant state. `ImageSummarisesDownloads` and `DownloadStateMachine` say
what the state of an image means when the states past `uploaded` are left to the
API: clients upload and delete images, the importer creates variants, under names
without a dot inside, and reports them imported or failed, the publisher reports
them completed.

**Bounds, and why they are enough.** Two requests: every property is about one
document, which is touched under one lock, so an interference shows with one
request between two calls and one other; a third only adds another waiter. One
image: images are coupled only through the channels of the producers, and a
channel that is full with the event of another image blocks no otherwise than
one that is full with the event of another variant, which `pipeline` has. One
variant with any body, two where the derived state must tell
*some* from *all*. Two variants and two requests are what it takes for two
importer workers to finish together. Three variants in
`workflow` and `pipeline_faults` add one that is neither the first nor the last
to report. A producer of capacity 1 is full after one event, so the blocking send
blocks. `MaxDeliveries = 2` is one repetition: the second delivery of a message
meets every state the first one leaves. One reader is enough, readers do not
meet. The lifecycle has no history to bound: one start, one stop. Documents have
no history other than their states, which are finite, so no run bounds the number of requests made: slots
are used again and again, until the state space is exhausted. Symmetry over
requests (and variants with plain names, where there are two) is used in runs of safety
properties only.

**Deadlock** is checked in every run but two: a state with nobody able to move
would be a request that waits for a lock for ever, or a queue nobody drains. (An
idle slot can always take a new request for an existing image identifier, so
nothing stops by itself.) `Lifecycle.cfg` does not check it because the process
exits, `Workflow.cfg` because an image may end in `deleted`.

**Fairness** (`FairSpec`). Weak fairness on the steps of a handler: goroutines
are scheduled and calls return (drivers have timeouts). Strong fairness on
`Lock`: `AcquireImageLock` blocks until the lock is released, "at which point we
acquire the lock and return" (mongo.go:50-52), which promises that a waiter is
not passed over for ever. Weak fairness on the delivery of events: the Kafka
client drains the channel. Nothing is assumed of clients, of failures or of
orphaned locks. `FairPipelineSpec` takes the same of handlers and Kafka, and of
the two services that each message is taken at least once and the requests it
calls for are made; nothing of the user. The liveness properties are claimed
only where nothing fails, because no code recovers from a lost event or a failed
report. `ServiceLifecycle` needs less: main is scheduled and its calls return,
and the timeout expires. The calls that close, the server and the requests may
hang for ever, and the process still exits.

Each property of a passing run has a mutant of a modelled definition which breaks
it; the mutants stand next to the definition they change, commented as such.

## 4. Theorems

All are for any sets of images, variants, requests in flight and bodies, any
capacity and any of the faults, unless a hypothesis is named.

| Theorem | Statement |
|---|---|
| **`ImageAPIProofs`** | |
| `TypeCorrectness` | `Spec => []TypeOK` |
| `LockIsHeld` | `Spec => []LockDiscipline` |
| `LocksAreReturned` | `Spec => []NoLockLeftBehind` |
| `MutualExclusion` | two requests between lock and unlock of one image are one |
| `NoLostUpdate` | `Spec => []NoStaleWrite` |
| `StateMachineIsKept` | `Spec => ImageStateMachine` |
| **`ImageWorkflowProofs`** | of the abstract workflow |
| `WorkflowType` | `[]WorkflowTypeOK` |
| `AnnouncedArePublished` | a variant announced as published is, unless its name has a dot, and stays published or completed |
| `StatesAlwaysSummarise` | with protocol clients, the state of an image summarises its variants |
| **`ImageRefinementProofs`** | |
| `Implementation` | `Spec => ImplementsWorkflow` |
| **`ImagePromisesProofs`** | of the handlers |
| `LinksAreKept` | `[]LinksAreOwn` |
| `DownloadsComeAfterUpload` | `[]DownloadsFollowUpload` |
| `UploadsAreAnnounced` | `[]UploadAnnounced`, if no instance stops and no delivery fails |
| `PublishedEventsAreTrue` | `[]PublishedEventsMatch` |
| `StatesSummarise` | `[]ImageSummarisesDownloads`, for protocol bodies |
| `SuccessMeansDone` | `[]AnswersAreTrue`, if no instance stops and no delivery fails |
| `PublishedAtMostOnce` | `PublishedOnce` |
| `UploadedAgainToRetry` | `UploadedOnce`, under every fault |
| `UploadedAtMostOnce` | no image is announced twice, if the store does not fail and no instance stops |
| `VariantsKeepTheirTable` | `DownloadStateMachine`, for protocol bodies |
| **`ImageReadsProofs`** | of the handlers with any number of readers |
| `ReadersAreTyped` | `[]ReadsTypeOK` |
| `StoredIsReadable` | `[]ReadsAreServed` |
| `ReadsStayTrue` | `[]SeenStaysTrue`, for protocol bodies |
| `ListsAreFinal` | `ListIsFinal`, for protocol bodies |
| **`ImagePipelineProofs`** | of the handlers with user, importer and publisher, any number of deliveries |
| `PipelineTypes` | `[]PipelineTypeOK` |
| `ImportedIsComplete` | `[]ImportedMeansEverything`, for protocol bodies |
| `FirstReportsAreTaken` | `[]FirstReportsAreAccepted`, for protocol bodies and acceptable reports, if the store does not fail and no instance stops |
| `UploadsAreNotForgotten` | `[]ImportsAreUnderWay`, if moreover no delivery fails |
| `PublicationsAreNotForgotten` | `[]PublicationsAreUnderWay`, if nothing fails |
| **`ServiceLifecycleProofs`** | for any number of requests in flight |
| `LifecycleTypes` | `[]TypeOK` |
| `DependenciesOutliveRequests` | `[]RequestsHaveDependencies` |
| `ClosesWhatIsOpen` | `OnlyOpenIsClosed` |
| `CloseTellsTheTruth` | `[]GracefulMeansClosed` |
| `ErrorsAreReal` | `[]ErrorMeansTrouble` |
| `FailedStartIsSilent` | `[]FailedStartServesNothing` |

Assumptions are those named in the modules: bodies are bodies, the special
values of a document and of a lock are distinct from the ordinary ones, the
capacity is positive, type names are not empty, the path of an entry leads to
that entry (`EntriesAreNames`). TLC evaluates them in the runs of these modules.
The hypotheses on bodies are met by those of the runs:
`ProtocolBodies` are the bodies and the plain names of section 3;
`AcceptableReports` says that what
the services report parses, names the variant of its route, and that two reports
which give a type give the same one (a report whose type differs from the stored
one is refused, as it should be).

**Handlers.** The inductive invariant is

    IInv == TypeOK /\ LockDiscipline /\ NoStaleWrite /\ InsertsAreFresh

None of the last three is inductive alone. That the document a handler read is
still stored when it writes must be kept against the other writers: those that
lock (they would need the same lock, `LockDiscipline`) and the one that does not
(`InsertsAreFresh`: its identifier is new, the other's document exists). Type
correctness needs `NoStaleWrite`: that a derived model is a well-formed document
depends on the checks made when it was read. The lemmas follow this: `WhoWrites`
and `WhoLocks` say which step touches which document and lock, `HowToHold`,
`HowToDecide`, `HowToInsert` how a request gets to the places the invariant
speaks of, `WritersApart` that two writers never meet. `StateMachineIsKept`
adds one fact carried from arrival to write (`CreatedAsImporting`) and
`WrittenMoves`: a write whose checks passed makes a move of the state machine.
TLC has checked `IInv` and `CreatedAsImporting` on the instance of `any_clients`.
`LocksAreReturned` is `LockDiscipline` the other way round and inductive with
`TypeOK` alone: `HowToLetGo` says that a request leaves the places between lock
and unlock only by a step that gives the lock up or orphans it.

**Refinement.** `RInv` adds to `IInv` what a request carries from one call to the
next: that its body passed its checks (`BodiesChecked`), that an upload about to
be written has been sent (`UploadsSent`), that the variants a publish request has
still to announce are published in the document (`Announcing`). Then each action
has one lemma (`SimulateUpdateImage`, `SimulateSendPublished`, ...): the write of
a document is the atomic step of the workflow, because `NoStaleWrite` makes the
document it was derived from the stored one and the checks of the handler the
guard of that step; a send is an announcement; a lost event, where `Faults`
permits one, a lost announcement; every other step leaves the abstract variables
alone. `StepAccepts` says how each step changes what the producers have accepted.

**Promises.** What is proved of the workflow, over three variables and without a
queue or a lock in sight, comes down to the handlers through `KeepsPromise`: the
workflow's theorems are instantiated, its assumptions proved as
`AssumptionsHold`. Two of its invariants are no property of a run, only steps to
those of the handlers: `ImportsFollowAnnouncements` (for `DownloadsComeAfterUpload`
and `UploadsAreAnnounced`) and `LinksStay` (for `LinksAreKept`). What the workflow does not speak of has its own invariants
over `RInv`: `AnnouncedSoFar` and `SuccessesAreTrue` for answers, `UnsentIsNew`
for publications sent once, `UploadsPending` for uploads.

**Lifecycle.** `LifecycleInv` is `TypeOK` with four facts that tie the program
counters of the goroutines to what is open: dependencies are opened in order
(`OpenedInOrder`), nothing is served before the start (`ServedAfterStart`), they
are closed in order and only by `Close` (`ClosedInOrder`), and the result is what
the closer has found (`ResultIsTrue`). `ErrorsAreReal` says less than one would
wish: an error means that something failed *or* that the time is over, and in the
second case everything may be closed all the same (section 5).

**Readers.** `ImageReads` is `ImageAPI` with more variables, so all that is proved
of the handlers holds next to readers. `StoredIsReadable` rests on `LinksAreKept`:
whatever links the bodies bring, those of a document are the API's own, but in the
empty entries left over by a dotted name. So a reader that dereferences nil asks
for a variant that is not there or reads an image with such a name
(`LinksAreThere`), and a link that makes no URL does so by the name in it.
`ReadsStayTrue` puts four earlier results together: what is seen is a state of its
image (`ReadIsTrue`, where `StatesSummarise` says what that tells of the
variants), images move along their table (`StateMachineIsKept`), variants only
as a step of the workflow moves them (`Implementation`, `WorkflowMovesVariants`),
and such moves lead from what is seen to what is `Later` (`WriteKeepsTrue`).
`ListsAreFinal` follows: what is `Later` than the end of an import is neither
uploaded nor importing, and only in these states does a move add a variant.

**Services.** The requests of the services are requests `ImageAPI` knows
(`ServicesAreClients`, `HandlersAreThose`), so `Known` gathers what is proved
above. On it stand three inductive invariants, each used by the next; TLC has
checked all of them on the instance of `pipeline` and on one with two images of
one variant each:

* `ImportInv`: what the importer has not to create any more is there, unless the
  request for it has failed and with it the job (`JobSoFar`), so when it reports,
  all variants are there (`ReportsComeLast`) and the state that is derived from
  the variants stored is derived from all. It holds under every fault and
  repetition, and gives `ImportedIsComplete`.
* `DeliveryInv`: a service acts only on what was delivered (`ActOnEvents`), the
  request of the importer is one of its job (`JobInHand`), and up to its own
  write a service finds what it is told for the first time as it was announced
  (`FirstTime`). `ImporterIsServed` and `PublisherIsServed` then show that every
  check of `CheckAgainst` passes, the first because an image that is announced and
  still `created` is one whose writer holds the lock (`UploadsPending`).
* `ImportWork`, `PublishedAreAnnounced` and `TakenAreReported`: an image that is
  not imported yet is the work of its first message, and each variant that is
  importing is still to be reported; a published variant that is not completed is
  accepted by the producer or in the hands of the request that publishes it, and
  once its message is taken the publisher is at work on it. That the
  importer does not end with an image still importing is where
  `ImageSummarisesDownloads` comes in: such an image has a variant that is
  importing, and that variant would be in the job. `ReportIsStored` takes from
  `AnswersAreTrue` that a report answered with a success was stored.

The faults are hypotheses because the code recovers from none of them: after a
failed write, a crash or a lost message a service gives the message up, and
`ImportsAreUnderWay` fails (section 5).

**Only model-checked**: liveness (`Answered`, `PublicationsReachKafka`,
`UploadsAreImported`, `PublicationsAreCompleted`, `StopsWhenAsked`), which is out
of the prover's reach. What it rests on is proved: `LocksAreReturned`, that a
lock somebody waits for has an owner that will give it back, and the two theorems
that no upload and no publication is forgotten.

## 5. Where text and code disagree

Each of these is a run that TLC refutes; the quotations are in `PROJECT.json`.

* `MissingVariantIsNotFound` (run `missing_variant`): with rewriting on, a `GET`
  of a variant the image does not have dereferences nil (image.go:458, 692)
  instead of answering 404.
* `TypeNeverChanges` (run `type_changed`): an update without a type erases the
  type of the variant, and the next may declare another (models/image.go:216).
* `DownloadsAreListed` (run `dotted_variant`): the name of a variant may hold a
  dot (image.go:356 takes it unchecked), and publish writes by path
  (mongo.go:198). Publishing `a.b` leaves `a.b` imported, although the answer is
  204 and its event is sent, and adds an entry `a` without links, on which
  `GET .../downloads` with rewriting dereferences nil (image.go:305, 692) instead
  of giving one of the answers of swagger.yaml:150-162. The publisher's report on
  `a.b` is then refused, since imported is not followed by completed.

Further disagreements that the models contain and no run is spent on:

* A publication sets the image to `published`; `publishing`, which
  swagger.yaml:252 says it sets, is no state of the models. `AnswersAreTrue`
  therefore speaks of `published`.
* An image set to imported without variants is published with 204 and no
  message (image.go:638; swagger.yaml:262 promises "a message queued").
* A client can PUT an importing image to imported, whatever its variants
  (swagger.yaml:514 says "only when all variants are in imported state").
* A variant of an image that was completed by PUT can still be set to failed,
  which sets the error of the image (models/image.go:127).
* A missing upload path is answered 500, not 400 (api.go:121; swagger.yaml:128).
* A PUT without a state is refused (models/image.go:93; swagger.yaml:109).
* A new download in state pending is refused (image.go:362; swagger.yaml:575).
* A new download needs no `id` (image.go:356; swagger.yaml:548 requires it): it
  is stored under the empty name, has no route to be updated, and the image that
  has it cannot be published (`MarkPublishedRefused`).
* When a request in flight outlasts the timeout, `Shutdown` uses up the time and
  `Close` returns with the database and the producers open (service.go:182);
  service_test.go:410 speaks of trying "to close all dependencies".

Gaps that no text contradicts, and that the properties therefore leave out:

* A write that fails after an upload event leaves an image that was announced
  and is still `created`, and the retry announces it again.
* A failure in the middle of the events of a publication leaves a published image
  of which some variants were never announced, and publish cannot be repeated. A
  delivery that fails is only logged.
* A failure in the middle of an import is not made good by another delivery of
  the message: variants that exist cannot be created again.
* The image becomes imported when the variants created *so far* are: an importer
  has to create all of them before it reports the first, as that of
  `ImagePipeline` does. One that does not violates `ImportedMeansEverything`.
* No report takes a published variant to failed, so `failed_publish` is reached
  only by a PUT of the image, and a failing publisher leaves it published.
* When the time given to `Close` is over just as the last dependency has been
  closed, `Close` may read `gracefulShutdown` before the closing goroutine sets it
  (service.go:182-187) and report "failed to shutdown gracefully" for a shutdown
  that went well. `CloseReturns` allows it and no property excludes it.
* An unlock that is lost with its request leaves the lock to the lock library;
  that requests which wait for it go on is not claimed.
* An update of a variant stores the body as the whole variant (the links
  excepted), so a report that leaves out the `href` or the size of an earlier one
  erases it.

## 6. Limits

Not modelled: the text of URLs, file names and events (so not which file name an
upload event carries, image.go:266, about which the repository says nothing); the
expiry of a lock whose holder is alive but slow (the lock library is not in this
repository; `NoStaleWrite` would then rest on its lease being longer than any
request, and the mutant `ReleaseAnyLock` shows what happens otherwise);
authorisation, a middleware of another repository; what the health checks look
at; the fields of the configuration other than `IsPublishing` and
`EnableURLRewriting`; query text, indexes and pagination of the database; mocks
and tests.

Names of variants: a name whose second part is the name of a field of a download
(`a.state`, `a.links.self`) is left out; publishing it would change that field of
another variant. That the database stores a map with a dotted key as it is given
(MongoDB from 3.6) is assumed, as is that it refuses a path with an empty part.
What is proved for protocol bodies is proved for plain names, everything else for
all the names that are modelled.

The importer and the publisher are external: their model is the least the routes
and the states of the models allow them to be (the variants the importer makes,
`Made`, have names, and they are the same for every upload), and what is claimed
of them holds for services that behave so.

What could be added: a pipeline whose services make several requests at once, and
the capacity of the producers shared with the events of other images.
