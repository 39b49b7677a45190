------------------------ MODULE ImageRefinementProofs ------------------------
(***************************************************************************)
(* Proof that the handlers implement the workflow, for any images,         *)
(* variants, bodies, requests in flight, capacities and faults.            *)
(***************************************************************************)
EXTENDS ImageRefinement, ImageAPIProofs

LossyFaults == Faults \cap {"broker", "crash"} # {}

----------------------------------------------------------------------------
(* The events a producer has accepted.                                     *)

Elements(q) == {q[i] : i \in DOMAIN q}

LEMMA ElementsAppend ==
  ASSUME NEW S, NEW q \in Seq(S), NEW e \in S
  PROVE  Elements(Append(q, e)) = Elements(q) \cup {e}
<1> DEFINE r == Append(q, e)
<1>1. /\ DOMAIN q = 1..Len(q) /\ DOMAIN r = 1..(Len(q) + 1) /\ Len(q) \in Nat
      /\ r[Len(q) + 1] = e
      /\ \A i \in 1..Len(q) : r[i] = q[i]
  OBVIOUS
<1>2. \A x : x \in Elements(r) <=> x \in Elements(q) \/ x = e
  <2> HIDE DEF r
  <2>1. ASSUME NEW x, x \in Elements(r)
        PROVE  x \in Elements(q) \/ x = e
    <3>1. PICK i \in 1..(Len(q) + 1) : x = r[i]
      BY <1>1, <2>1 DEF Elements
    <3>2. i \in 1..Len(q) \/ i = Len(q) + 1
      BY <1>1, <3>1
    <3>3. QED
      BY <1>1, <3>1, <3>2 DEF Elements
  <2>2. ASSUME NEW x, x \in Elements(q) \/ x = e
        PROVE  x \in Elements(r)
    <3>1. Len(q) + 1 \in DOMAIN r /\ \A i \in DOMAIN q : i \in DOMAIN r
      BY <1>1
    <3>2. QED
      BY <1>1, <2>2, <3>1 DEF Elements
  <2>3. QED
    BY <2>1, <2>2
<1>3. QED
  BY <1>2

LEMMA ElementsTail ==
  ASSUME NEW S, NEW q \in Seq(S), q # <<>>
  PROVE  Elements(q) = {Head(q)} \cup Elements(Tail(q))
<1> DEFINE r == Tail(q)
<1>1. /\ DOMAIN q = 1..Len(q) /\ Len(q) \in Nat /\ Len(q) # 0
      /\ DOMAIN r = 1..(Len(q) - 1) /\ Head(q) = q[1]
      /\ \A i \in 1..(Len(q) - 1) : r[i] = q[i + 1]
  OBVIOUS
<1>2. \A x : x \in Elements(q) <=> x = Head(q) \/ x \in Elements(r)
  <2> HIDE DEF r
  <2>1. ASSUME NEW x, x \in Elements(q)
        PROVE  x = Head(q) \/ x \in Elements(r)
    <3>1. PICK i \in 1..Len(q) : x = q[i]
      BY <1>1, <2>1 DEF Elements
    <3>2. CASE i = 1
      BY <1>1, <3>1, <3>2
    <3>3. CASE i # 1
      <4>1. i - 1 \in 1..(Len(q) - 1) /\ (i - 1) + 1 = i
        BY <1>1, <3>3
      <4>2. r[i - 1] = x
        BY <1>1, <3>1, <4>1
      <4>3. QED
        BY <1>1, <4>1, <4>2 DEF Elements
    <3>4. QED
      BY <3>2, <3>3
  <2>2. ASSUME NEW x, x = Head(q) \/ x \in Elements(r)
        PROVE  x \in Elements(q)
    <3>1. CASE x = Head(q)
      <4>1. 1 \in DOMAIN q /\ q[1] = x
        BY <1>1, <3>1
      <4>2. QED
        BY <4>1 DEF Elements
    <3>2. CASE x \in Elements(r)
      <4>1. PICK i \in 1..(Len(q) - 1) : x = r[i]
        BY <1>1, <3>2 DEF Elements
      <4>2. i + 1 \in DOMAIN q /\ q[i + 1] = x
        BY <1>1, <4>1
      <4>3. QED
        BY <4>2 DEF Elements
    <3>3. QED
      BY <2>2, <3>1, <3>2
  <2>3. QED
    BY <2>1, <2>2
<1>3. QED
  BY <1>2

\* A send adds the event, a delivery changes nothing, a loss takes away at most
\* the oldest event.
LEMMA UploadedAccepted ==
  ASSUME Uploaded!TypeOK
  PROVE  /\ \A id \in Images : Uploaded!Send(id) =>
              Uploaded!Accepted' = Uploaded!Accepted \cup {id}
         /\ Uploaded!Deliver => Uploaded!Accepted' = Uploaded!Accepted
         /\ Uploaded!Drop => \E id \in Images :
              \/ Uploaded!Accepted' = Uploaded!Accepted
              \/ Uploaded!Accepted' = Uploaded!Accepted \ {id}
         /\ UNCHANGED uploadedVars => Uploaded!Accepted' = Uploaded!Accepted
<1>1. uploadedOut \in Seq(Images)
  BY DEF Uploaded!TypeOK
<1>2. /\ Uploaded!Accepted = uploadedTopic \cup Elements(uploadedOut)
      /\ Uploaded!Accepted' = uploadedTopic' \cup Elements(uploadedOut')
  BY DEF Uploaded!Accepted, Elements
<1>3. ASSUME NEW id \in Images, Uploaded!Send(id)
      PROVE  Uploaded!Accepted' = Uploaded!Accepted \cup {id}
  BY <1>1, <1>2, <1>3, ElementsAppend DEF Uploaded!Send
<1>4. ASSUME uploadedOut # <<>>
      PROVE  /\ Head(uploadedOut) \in Images
             /\ Elements(uploadedOut) = {Head(uploadedOut)} \cup Elements(Tail(uploadedOut))
  BY <1>1, <1>4, ElementsTail
<1>5. Uploaded!Deliver => Uploaded!Accepted' = Uploaded!Accepted
  BY <1>2, <1>4 DEF Uploaded!Deliver
<1>6. ASSUME Uploaded!Drop
      PROVE  \E id \in Images : \/ Uploaded!Accepted' = Uploaded!Accepted
                                \/ Uploaded!Accepted' = Uploaded!Accepted \ {id}
  <2>1. /\ uploadedOut # <<>> /\ Uploaded!Accepted' = uploadedTopic \cup Elements(Tail(uploadedOut))
    BY <1>2, <1>6 DEF Uploaded!Drop
  <2>2. Uploaded!Accepted = Uploaded!Accepted' \cup {Head(uploadedOut)}
    BY <1>2, <1>4, <2>1
  <2>3. QED
    BY <1>4, <2>1, <2>2
<1>7. UNCHANGED uploadedVars => Uploaded!Accepted' = Uploaded!Accepted
  BY <1>2 DEF uploadedVars
<1>8. QED
  BY <1>3, <1>5, <1>6, <1>7

LEMMA PublishedAccepted ==
  ASSUME Published!TypeOK
  PROVE  /\ \A e \in Images \X Variants : Published!Send(e) =>
              Published!Accepted' = Published!Accepted \cup {e}
         /\ Published!Deliver => Published!Accepted' = Published!Accepted
         /\ Published!Drop => \E id \in Images, v \in Variants :
              \/ Published!Accepted' = Published!Accepted
              \/ Published!Accepted' = Published!Accepted \ {<<id, v>>}
         /\ UNCHANGED publishedVars => Published!Accepted' = Published!Accepted
<1> DEFINE Events == Images \X Variants
<1>1. publishedOut \in Seq(Events)
  BY DEF Published!TypeOK
<1>2. /\ Published!Accepted = publishedTopic \cup Elements(publishedOut)
      /\ Published!Accepted' = publishedTopic' \cup Elements(publishedOut')
  BY DEF Published!Accepted, Elements
<1>3. ASSUME NEW e \in Events, Published!Send(e)
      PROVE  Published!Accepted' = Published!Accepted \cup {e}
  <2> HIDE DEF Events
  <2>1. QED
    BY <1>1, <1>2, <1>3, ElementsAppend DEF Published!Send
<1>4. ASSUME publishedOut # <<>>
      PROVE  /\ Head(publishedOut) \in Events
             /\ Elements(publishedOut) = {Head(publishedOut)} \cup Elements(Tail(publishedOut))
  <2> HIDE DEF Events
  <2>1. QED
    BY <1>1, <1>4, ElementsTail
<1>5. Published!Deliver => Published!Accepted' = Published!Accepted
  BY <1>2, <1>4 DEF Published!Deliver
<1>6. ASSUME Published!Drop
      PROVE  \E id \in Images, v \in Variants :
               \/ Published!Accepted' = Published!Accepted
               \/ Published!Accepted' = Published!Accepted \ {<<id, v>>}
  <2>1. /\ publishedOut # <<>> /\ Published!Accepted' = publishedTopic \cup Elements(Tail(publishedOut))
    BY <1>2, <1>6 DEF Published!Drop
  <2>2. Published!Accepted = Published!Accepted' \cup {Head(publishedOut)}
    BY <1>2, <1>4, <2>1
  <2>3. PICK id \in Images, v \in Variants : Head(publishedOut) = <<id, v>>
    BY <1>4, <2>1
  <2>4. \/ Published!Accepted' = Published!Accepted
        \/ Published!Accepted' = Published!Accepted \ {<<id, v>>}
    BY <2>2, <2>3
  <2>5. QED
    BY <2>4
<1>7. UNCHANGED publishedVars => Published!Accepted' = Published!Accepted
  BY <1>2 DEF publishedVars
<1>8. QED
  BY <1>3, <1>5, <1>6, <1>7

----------------------------------------------------------------------------
(* What a request carries from its arrival to its last call.               *)

\* The checks on the body of an update, and where an upload is announced.
BodiesChecked ==
  \A p \in Procs :
    /\ pc[p] \in {"lock", "get", "sendUploaded", "write"} /\ req[p].op = "updateImage" =>
         req[p].body.state \in State
    /\ pc[p] = "sendUploaded" => req[p].body.state = "uploaded"

\* The upload is announced when it is written.
UploadsSent ==
  \A p \in Procs :
    pc[p] = "write" /\ req[p].op = "updateImage" /\ req[p].body.state = "uploaded" =>
      LossyFaults \/ req[p].id \in Uploaded!Accepted

\* The variants still to announce are published, those with plain names.
Announcing ==
  \A p \in Procs : pc[p] = "announce" =>
    /\ images[req[p].id] # NoImage /\ images[req[p].id].state = "published"
    /\ unsent[p] \subseteq DOMAIN images[req[p].id].downloads
    /\ \A v \in unsent[p] :
         Entry[v] = v => images[req[p].id].downloads[v].state = "published"

RInv == IInv /\ CreatedAsImporting /\ BodiesChecked /\ UploadsSent /\ Announcing

LEMMA StepBodiesChecked ==
  ASSUME HandlerTypeOK, BodiesChecked, NEW p \in Procs, Step(p)
  PROVE  BodiesChecked'
<1> SUFFICES ASSUME NEW q \in Procs
             PROVE  /\ pc'[q] \in {"lock", "get", "sendUploaded", "write"} /\ req'[q].op = "updateImage" =>
                         req'[q].body.state \in State
                    /\ pc'[q] = "sendUploaded" => req'[q].body.state = "uploaded"
  BY DEF BodiesChecked
<1>1. CASE q # p
  BY <1>1, StepMovesOne DEF Step, OnlyMoves, BodiesChecked
<1>2. CASE q = p
  <2> USE <1>2 DEF HandlerTypeOK, Goto, Settle
  <2>1. CASE UpdateImageHandler(p)
    <3>1. PICK id \in Images, body \in ImageBodies :
            Receive(p, [op |-> "updateImage", id |-> id, body |-> body], CheckImage(body), "lock")
      BY <2>1 DEF UpdateImageHandler
    <3>2. pc'[p] \in {"lock", "answered"} /\ req'[p].body = body
      BY <3>1 DEF Receive
    <3>3. pc'[p] = "lock" => CheckImage(body) = NoError
      BY <3>1 DEF Receive
    <3>4. CheckImage(body) = NoError => body.state \in State
      BY DEF CheckImage, Validate, Refuse, ??, NoError
    <3>5. QED
      BY <3>2, <3>3, <3>4
  <2>2. CASE CreateDownloadHandler(p) \/ PublishImageHandler(p)
             \/ CreateImageHandler(p) \/ UpdateDownloadHandler(p)
    BY <2>2 DEF CreateDownloadHandler, PublishImageHandler, CreateImageHandler,
                UpdateDownloadHandler, Receive
  <2>3. CASE Lock(p) \/ LockFails(p) \/ InsertImage(p)
    BY <2>3 DEF Lock, LockFails, InsertImage, BodiesChecked
  <2>4. CASE GetImage(p) \/ GetImageFails(p)
    BY <2>4 DEF GetImage, GetImageFails, AfterGet, BodiesChecked
  <2>5. CASE UpdateImage(p) \/ AddDownload(p) \/ ReplaceDownload(p) \/ MarkPublished(p)
    BY <2>5 DEF UpdateImage, AddDownload, ReplaceDownload, MarkPublished, Write
  <2>6. CASE SendUploaded(p) \/ SendUploadedFails(p) \/ MarkPublishedRefused(p)
    BY <2>6 DEF SendUploaded, SendUploadedFails, MarkPublishedRefused, BodiesChecked
  <2>7. CASE SendPublished(p) \/ SendPublishedFails(p) \/ AllPublished(p)
    BY <2>7 DEF SendPublished, SendPublishedFails, AllPublished
  <2>8. CASE Unlock(p) \/ UnlockFails(p) \/ Return(p) \/ Crash(p)
    BY <2>8 DEF Unlock, UnlockFails, Return, Crash, Forget
  <2>9. QED
    BY <2>1, <2>2, <2>3, <2>4, <2>5, <2>6, <2>7, <2>8 DEF Step, Arrive, Work
<1>3. QED
  BY <1>1, <1>2

\* Requests take no event back.
LEMMA StepAccepts ==
  ASSUME TypeOK, NEW p \in Procs, Step(p)
  PROVE  /\ \/ Uploaded!Accepted' = Uploaded!Accepted
            \/ SendUploaded(p) /\ Uploaded!Accepted' = Uploaded!Accepted \cup {req[p].id}
         /\ \/ Published!Accepted' = Published!Accepted
            \/ /\ SendPublished(p)
               /\ \E v \in unsent[p] :
                    Published!Accepted' = Published!Accepted \cup {<<req[p].id, v>>}
<1>1. /\ UNCHANGED uploadedVars => Uploaded!Accepted' = Uploaded!Accepted
      /\ UNCHANGED publishedVars => Published!Accepted' = Published!Accepted
  BY UploadedAccepted, PublishedAccepted DEF TypeOK
<1>2. CASE Arrive(p) \/ Lock(p) \/ Crash(p)
  BY <1>1, <1>2 DEF Arrive, CreateImageHandler, UpdateImageHandler, PublishImageHandler,
              CreateDownloadHandler, UpdateDownloadHandler, Receive, Lock, Crash, Forget, kafkaVars
<1>3. CASE LockFails(p) \/ InsertImage(p) \/ GetImage(p) \/ GetImageFails(p)
  BY <1>1, <1>3 DEF LockFails, InsertImage, GetImage, GetImageFails, kafkaVars
<1>4. CASE UpdateImage(p) \/ AddDownload(p) \/ ReplaceDownload(p) \/ MarkPublished(p)
  BY <1>1, <1>4 DEF UpdateImage, AddDownload, ReplaceDownload, MarkPublished, Write, kafkaVars
<1>5. CASE SendUploadedFails(p) \/ MarkPublishedRefused(p) \/ SendPublishedFails(p) \/ AllPublished(p)
           \/ Unlock(p) \/ UnlockFails(p) \/ Return(p)
  BY <1>1, <1>5 DEF SendUploadedFails, MarkPublishedRefused, SendPublishedFails, AllPublished,
              Unlock, UnlockFails, Return, Forget, kafkaVars
<1>6. CASE SendUploaded(p)
  <2>1. req[p].id \in Images
    BY <1>6, BusyHasRequest DEF SendUploaded, TypeOK
  <2>2. QED
    BY <1>1, <1>6, <2>1, UploadedAccepted DEF SendUploaded, TypeOK
<1>7. CASE SendPublished(p)
  <2>1. req[p].id \in Images /\ unsent[p] \subseteq Variants
    BY <1>7, BusyHasRequest DEF SendPublished, TypeOK, HandlerTypeOK
  <2>2. PICK v \in unsent[p] : Published!Send(<<req[p].id, v>>)
    BY <1>7 DEF SendPublished
  <2>3. Published!Accepted' = Published!Accepted \cup {<<req[p].id, v>>}
    BY <2>1, <2>2, PublishedAccepted DEF TypeOK
  <2>4. QED
    BY <1>1, <1>7, <2>3 DEF SendPublished
<1>8. QED
  BY <1>2, <1>3, <1>4, <1>5, <1>6, <1>7 DEF Step, Work

LEMMA StepUploadsSent ==
  ASSUME TypeOK, BodiesChecked, UploadsSent, NEW p \in Procs, Step(p)
  PROVE  UploadsSent'
<1> SUFFICES ASSUME NEW q \in Procs, pc'[q] = "write", req'[q].op = "updateImage",
                    req'[q].body.state = "uploaded"
             PROVE  LossyFaults \/ req'[q].id \in Uploaded!Accepted'
  BY DEF UploadsSent, LossyFaults
<1>0. HandlerTypeOK /\ Uploaded!Accepted \subseteq Uploaded!Accepted'
  BY StepAccepts DEF TypeOK
<1>1. CASE q # p
  BY <1>0, <1>1, StepMovesOne DEF Step, OnlyMoves, UploadsSent
<1>2. CASE q = p
  <2>1. ~(GetImage(p) \/ SendUploaded(p)) => FALSE
    BY <1>0, <1>2 DEF HandlerTypeOK, Goto, Settle, Step, Arrive, CreateImageHandler,
          UpdateImageHandler, PublishImageHandler, CreateDownloadHandler, UpdateDownloadHandler,
          Receive, Work, Lock, LockFails, InsertImage, GetImageFails, UpdateImage, AddDownload,
          ReplaceDownload, MarkPublished, Write, SendUploadedFails, MarkPublishedRefused,
          SendPublished, SendPublishedFails, AllPublished, Unlock, UnlockFails, Return, Crash, Forget
  <2>2. CASE GetImage(p)
    BY <1>0, <1>2, <2>2 DEF GetImage, AfterGet, HandlerTypeOK, Goto, Settle
  <2>3. CASE SendUploaded(p)
    <3>1. Uploaded!Accepted' = Uploaded!Accepted \cup {req[p].id} \/ req[p].id \in Uploaded!Accepted'
      <4>1. req[p].id \in Images /\ Uploaded!Send(req[p].id)
        BY <2>3, BusyHasRequest DEF SendUploaded, TypeOK
      <4>2. QED
        BY <4>1, UploadedAccepted DEF TypeOK
    <3>2. QED
      BY <1>2, <2>3, <3>1 DEF SendUploaded
  <2>4. QED
    BY <2>1, <2>2, <2>3
<1>3. QED
  BY <1>1, <1>2

LEMMA OthersKeepUnsent ==
  ASSUME HandlerTypeOK, NEW p \in Procs, Step(p), NEW q \in Procs \ {p}
  PROVE  unsent'[q] = unsent[q]
<1> USE DEF HandlerTypeOK
<1>1. CASE Arrive(p) \/ Lock(p) \/ Crash(p)
  BY <1>1 DEF Arrive, CreateImageHandler, UpdateImageHandler, PublishImageHandler,
              CreateDownloadHandler, UpdateDownloadHandler, Receive, Lock, Crash, Forget
<1>2. CASE LockFails(p) \/ InsertImage(p) \/ GetImage(p) \/ GetImageFails(p)
  BY <1>2 DEF LockFails, InsertImage, GetImage, GetImageFails
<1>3. CASE UpdateImage(p) \/ AddDownload(p) \/ ReplaceDownload(p) \/ MarkPublished(p)
  BY <1>3 DEF UpdateImage, AddDownload, ReplaceDownload, MarkPublished
<1>4. CASE SendUploaded(p) \/ SendUploadedFails(p) \/ MarkPublishedRefused(p)
  BY <1>4 DEF SendUploaded, SendUploadedFails, MarkPublishedRefused
<1>5. CASE SendPublished(p) \/ SendPublishedFails(p) \/ AllPublished(p)
  BY <1>5 DEF SendPublished, SendPublishedFails, AllPublished
<1>6. CASE Unlock(p) \/ UnlockFails(p) \/ Return(p)
  BY <1>6 DEF Unlock, UnlockFails, Return, Forget
<1>7. QED
  BY <1>1, <1>2, <1>3, <1>4, <1>5, <1>6 DEF Step, Work

\* An image with another state and other downloads.
LEMMA WithStateAndDownloads ==
  ASSUME NEW image \in Image, NEW s, NEW d
  PROVE  [image EXCEPT !.state = s, !.downloads = d] =
           [state |-> s, error |-> image.error, links |-> image.links, downloads |-> d]
<1> DEFINE i == [image EXCEPT !.state = s]
<1>1. i = [state |-> s, error |-> image.error, links |-> image.links, downloads |-> image.downloads]
  BY DEF Image
<1>2. [i EXCEPT !.downloads = d] =
        [state |-> s, error |-> image.error, links |-> image.links, downloads |-> d]
  <2> HIDE DEF i
  <2>1. QED
    BY <1>1
<1>3. QED
  BY <1>2

LEMMA WithDownloadsAndState ==
  ASSUME NEW image \in Image, NEW s, NEW d
  PROVE  [image EXCEPT !.downloads = d, !.state = s] =
           [state |-> s, error |-> image.error, links |-> image.links, downloads |-> d]
<1> DEFINE i == [image EXCEPT !.downloads = d]
<1>1. i = [state |-> image.state, error |-> image.error, links |-> image.links, downloads |-> d]
  BY DEF Image
<1>2. [i EXCEPT !.state = s] =
        [state |-> s, error |-> image.error, links |-> image.links, downloads |-> d]
  <2> HIDE DEF i
  <2>1. QED
    BY <1>1
<1>3. QED
  BY <1>2

\* Of an image with another state and another error.
LEMMA WithStateAndError ==
  ASSUME NEW image \in Image, NEW s, NEW e
  PROVE  [image EXCEPT !.state = s, !.error = @ \/ e] =
           [state |-> s, error |-> image.error \/ e, links |-> image.links,
            downloads |-> image.downloads]
<1> DEFINE i == [image EXCEPT !.state = s]
<1>1. i = [state |-> s, error |-> image.error, links |-> image.links, downloads |-> image.downloads]
  BY DEF Image
<1>2. [i EXCEPT !.error = @ \/ e] =
        [state |-> s, error |-> image.error \/ e, links |-> image.links,
         downloads |-> image.downloads]
  <2> HIDE DEF i
  <2>1. QED
    BY <1>1
<1>3. QED
  BY <1>2

\* The models of the workflow are those of the handlers.
LEMMA SameModels ==
  /\ Workflow!State = State
  /\ Workflow!NoDownloads = NoDownloads
  /\ Workflow!EmptyDownload = EmptyDownload
  /\ \A a, b : Workflow!TransitionAllowed(a, b) <=> TransitionAllowed(a, b)
  /\ \A d, b : Workflow!DownloadStateTransitionAllowed(d, b) <=> DownloadStateTransitionAllowed(d, b)
  /\ \A image : Workflow!UpdatedState(image) = UpdatedState(image)
<1>1. \A image, s :
        /\ Workflow!AllDownloadsOfState(image, s) <=> AllDownloadsOfState(image, s)
        /\ Workflow!AnyDownloadsOfState(image, s) <=> AnyDownloadsOfState(image, s)
  BY DEF Workflow!AllDownloadsOfState, AllDownloadsOfState,
         Workflow!AnyDownloadsOfState, AnyDownloadsOfState
<1>2. \A image : Workflow!UpdatedState(image) = UpdatedState(image)
  BY <1>1 DEF Workflow!UpdatedState, UpdatedState
<1>3. /\ \A a, b : Workflow!DownloadTransitionAllowed(a, b) <=> DownloadTransitionAllowed(a, b)
      /\ Workflow!DownloadState = DownloadState
  BY DEF Workflow!DownloadTransitionAllowed, DownloadTransitionAllowed,
         Workflow!DownloadState, DownloadState
<1>4. \A d, b : Workflow!DownloadStateTransitionAllowed(d, b) <=> DownloadStateTransitionAllowed(d, b)
  BY <1>3 DEF Workflow!DownloadStateTransitionAllowed, DownloadStateTransitionAllowed
<1>5. QED
  BY <1>2, <1>4 DEF Workflow!State, State, Workflow!NoDownloads, NoDownloads,
                    Workflow!EmptyDownload, EmptyDownload, Workflow!NoType, NoType,
                    Workflow!TransitionAllowed, TransitionAllowed

LEMMA WithState ==
  ASSUME NEW x \in Download, NEW s
  PROVE  [x EXCEPT !.state = s] = [state |-> s, type |-> x.type, links |-> x.links]
<1> DEFINE DS == DownloadState \cup {""}
           DT == Types \cup {NoType}
<1>1. x \in [state : DS, type : DT, links : Links]
  BY DEF Download
<1> HIDE DEF DS, DT
<1>2. QED
  BY <1>1

\* The update that publishes a document makes of it what the workflow does.
LEMMA PublishSetsStates ==
  ASSUME NEW image \in Image, PathsAreComplete(image)
  PROVE  Updated(image, PublishUpdate(image)) =
           [image EXCEPT !.state = "published",
                         !.downloads = Workflow!PublishedDownloads(image.downloads)]
<1>1. PICK new : new = Updated(image, PublishUpdate(image))
  OBVIOUS
<1>2. /\ new.state = "published" /\ new.error = image.error /\ new.links = image.links
      /\ DOMAIN new.downloads = DOMAIN image.downloads
                                 \cup {Entry[w] : w \in DOMAIN image.downloads}
  BY <1>1, PublishedDocument
<1>3. ASSUME NEW v \in DOMAIN new.downloads
      PROVE  LET old == EntryOf(image.downloads, v)
                 marked == v \in DOMAIN image.downloads /\ Entry[v] = v
             IN  /\ ~marked => new.downloads[v] = old
                 /\ marked => new.downloads[v] =
                              [state |-> "published", type |-> old.type, links |-> old.links]
  <2>1. v \in DOMAIN new.downloads
    BY <1>3
  <2>2. QED
    BY <1>1, <2>1, PublishedDocument
<1> DEFINE old == image.downloads
           S == DOMAIN old \cup {Entry[w] : w \in DOMAIN old}
           d == Workflow!PublishedDownloads(old)
<1>4. /\ d = [v \in S |-> d[v]]
      /\ \A v \in S : d[v] = IF v \notin DOMAIN old THEN EmptyDownload
                             ELSE IF Entry[v] = v THEN [old[v] EXCEPT !.state = "published"]
                             ELSE old[v]
  BY SameModels DEF Workflow!PublishedDownloads
<1>5. ASSUME NEW v \in DOMAIN new.downloads
      PROVE  new.downloads[v] = d[v]
  <2>1. LET stored == EntryOf(old, v)
            marked == v \in DOMAIN old /\ Entry[v] = v
        IN  /\ ~marked => new.downloads[v] = stored
            /\ marked => new.downloads[v] =
                         [state |-> "published", type |-> stored.type, links |-> stored.links]
    BY <1>3, <1>5
  <2>2. EntryOf(old, v) = IF v \in DOMAIN old THEN old[v] ELSE EmptyDownload
    BY DEF EntryOf
  <2>3. v \in S
    BY <1>2, <1>5
  <2>4. v \in DOMAIN old => old[v] \in Download
    BY DownloadsElim DEF Image
  <2> HIDE DEF old, d, S
  <2>5. CASE v \in DOMAIN old /\ Entry[v] = v
    <3>1. PICK x \in Download : x = old[v]
      BY <2>4, <2>5
    <3>2. new.downloads[v] = [state |-> "published", type |-> x.type, links |-> x.links]
      BY <2>1, <2>2, <2>5, <3>1
    <3>3. d[v] = [x EXCEPT !.state = "published"]
      BY <1>4, <2>3, <2>5, <3>1
    <3>4. QED
      BY <3>2, <3>3, WithState
  <2>6. CASE ~(v \in DOMAIN old /\ Entry[v] = v)
    BY <1>4, <2>1, <2>2, <2>3, <2>6
  <2>7. QED
    BY <2>5, <2>6
<1>6. new.downloads = d
  <2>1. new.downloads = [v \in DOMAIN new.downloads |-> new.downloads[v]]
    BY <1>1 DEF Updated
  <2> HIDE DEF d
  <2>2. QED
    BY <1>2, <1>4, <1>5, <2>1
<1>7. new = [state |-> "published", error |-> image.error, links |-> image.links, downloads |-> d]
  <2>1. PICK s, e, l, m : new = [state |-> s, error |-> e, links |-> l, downloads |-> m]
    BY <1>1 DEF Updated
  <2> HIDE DEF d
  <2>2. QED
    BY <1>2, <1>6, <2>1
<1>8. [image EXCEPT !.state = "published", !.downloads = d] =
        [state |-> "published", error |-> image.error, links |-> image.links, downloads |-> d]
  <2> HIDE DEF d
  <2>1. QED
    BY WithStateAndDownloads
<1>9. QED
  BY <1>1, <1>7, <1>8

LEMMA StepAnnouncing ==
  ASSUME IInv, Announcing, NEW p \in Procs, Step(p)
  PROVE  Announcing'
<1>0. MongoTypeOK /\ HandlerTypeOK /\ LockDiscipline /\ NoStaleWrite /\ InsertsAreFresh
  BY DEF IInv, TypeOK
<1> SUFFICES ASSUME NEW q \in Procs, pc'[q] = "announce"
             PROVE  LET image == images'[req'[q].id]
                    IN  /\ image # NoImage /\ image.state = "published"
                        /\ unsent'[q] \subseteq DOMAIN image.downloads
                        /\ \A v \in unsent'[q] :
                             Entry[v] = v => image.downloads[v].state = "published"
  BY DEF Announcing
<1>1. CASE q # p
  <2>1. /\ pc[q] = "announce" /\ req'[q] = req[q] /\ unsent'[q] = unsent[q]
        /\ req[q].id \in Images
    BY <1>0, <1>1, StepMovesOne, OthersKeepUnsent, BusyHasRequest DEF Step, OnlyMoves
  <2>2. images[req[q].id] # NoImage /\ locks[req[q].id] = q
    BY <1>0, <2>1 DEF Announcing, LockDiscipline, Holding
  <2>3. images'[req[q].id] = images[req[q].id]
    <3> SUFFICES ASSUME images'[req[q].id] # images[req[q].id]
                 PROVE  FALSE
      OBVIOUS
    <3>1. pc[p] \in {"insert", "write"} /\ req[p].id = req[q].id
      BY <1>0, <2>1, WhoWrites DEF Step
    <3>2. QED
      BY <1>0, <1>1, <2>2, <3>1 DEF InsertsAreFresh, LockDiscipline, Holding
  <2>4. QED
    BY <2>1, <2>3 DEF Announcing
<1>2. CASE q = p
  <2>1. MarkPublished(p) \/ SendPublished(p)
    BY <1>0, <1>2 DEF HandlerTypeOK, Goto, Settle, Step, Arrive, CreateImageHandler,
          UpdateImageHandler, PublishImageHandler, CreateDownloadHandler, UpdateDownloadHandler,
          Receive, Work, Lock, LockFails, InsertImage, GetImage, AfterGet, GetImageFails, UpdateImage,
          AddDownload, ReplaceDownload, Write, SendUploaded, SendUploadedFails, MarkPublishedRefused,
          SendPublishedFails, AllPublished, Unlock, UnlockFails, Return, Crash, Forget
  <2>2. CASE SendPublished(p)
    <3>1. /\ pc[p] = "announce" /\ images' = images /\ req' = req
          /\ unsent'[p] \subseteq unsent[p]
      BY <1>0, <2>2 DEF SendPublished, mongoVars, HandlerTypeOK
    <3>2. QED
      BY <1>2, <3>1 DEF Announcing
  <2>3. CASE MarkPublished(p)
    <3> DEFINE id == req[p].id
               image == existing[p]
               new == Updated(images[id], PublishUpdate(image))
    <3>1. pc[p] = "write" /\ id \in Images /\ req' = req
      BY <1>0, <2>3, BusyHasRequest DEF MarkPublished, Write
    <3>2. images[id] = image /\ image \in Image
      BY <1>0, <3>1 DEF NoStaleWrite, Deciding, MongoTypeOK
    <3>3. images'[id] = new
      <4> HIDE DEF new
      <4>1. Write(p, "publish", new, "announce", 0)
        BY <2>3 DEF MarkPublished, new
      <4>2. QED
        BY <1>0, <1>2, <3>1, <4>1 DEF Write, Settle, Goto, Put, PutFails, MongoTypeOK, HandlerTypeOK
    <3>4. unsent'[p] = DOMAIN image.downloads
      BY <1>0, <1>2, <2>3 DEF MarkPublished, HandlerTypeOK
    <3>5. /\ new.state = "published" /\ DOMAIN image.downloads \subseteq DOMAIN new.downloads
          /\ \A v \in DOMAIN image.downloads :
               Entry[v] = v => new.downloads[v].state = "published"
      <4>1. PICK doc : doc = new
        OBVIOUS
      <4>2. doc = Updated(image, PublishUpdate(image))
        BY <3>2, <4>1
      <4>3. /\ doc.state = "published"
            /\ DOMAIN doc.downloads = DOMAIN image.downloads
                                       \cup {Entry[w] : w \in DOMAIN image.downloads}
        BY <3>2, <4>2, PublishedDocument
      <4>4. ASSUME NEW v \in DOMAIN image.downloads, Entry[v] = v
            PROVE  doc.downloads[v].state = "published"
        <5>1. v \in DOMAIN doc.downloads
          BY <4>3
        <5>2. LET old == EntryOf(image.downloads, v)
                  marked == v \in DOMAIN image.downloads /\ Entry[v] = v
              IN  marked => doc.downloads[v] =
                              [state |-> "published", type |-> old.type, links |-> old.links]
          BY <3>2, <4>2, <5>1, PublishedDocument
        <5>3. PICK t, l : doc.downloads[v] = [state |-> "published", type |-> t, links |-> l]
          BY <4>4, <5>2
        <5>4. QED
          BY <5>3
      <4> HIDE DEF new
      <4>5. QED
        BY <4>1, <4>3, <4>4
    <3>6. new # NoImage
      <4>1. req[p].op = "publish" /\ PathsAreComplete(image)
        BY <2>3 DEF MarkPublished, Write
      <4>2. new \in Image
        BY <3>1, <4>1, WrittenType DEF IInv
      <4>3. QED
        <5> HIDE DEF new
        <5>1. QED
          BY <4>2, NoImageIsNoDocument
    <3>7. QED
      <4> HIDE DEF new
      <4>1. QED
        BY <1>2, <3>1, <3>3, <3>4, <3>5, <3>6
  <2>4. QED
    BY <2>1, <2>2, <2>3
<1>3. QED
  BY <1>1, <1>2

----------------------------------------------------------------------------
(* The steps of the workflow.                                              *)

\* A step of the workflow, or none.
Simulated == [Workflow!Next]_(Workflow!vars)

LEMMA ChangeSimulates ==
  ASSUME NEW id \in Images,
         \/ Workflow!Create(id)
         \/ Workflow!SetState(id)
         \/ Workflow!Publish(id)
         \/ \E v \in Variants, t \in Types \cup {NoType} :
              \/ Workflow!AddVariant(id, v, t)
              \/ \E s \in {body.state : body \in DownloadBodies} :
                   Workflow!ReportVariant(id, v, s, t)
  PROVE  Simulated
<1>1. Workflow!Change(id)
  BY DEF Workflow!Change, NoType, Workflow!NoType
<1>2. QED
  BY <1>1 DEF Workflow!Next, Simulated

LEMMA AnnounceSimulates ==
  ASSUME NEW id \in Images,
         \/ Workflow!AnnounceUpload(id)
         \/ Workflow!LoseUpload(id)
         \/ \E v \in Variants : Workflow!AnnouncePublication(id, v) \/ Workflow!LosePublication(id, v)
  PROVE  Simulated
<1>1. Workflow!Announce(id)
  BY DEF Workflow!Announce
<1>2. QED
  BY <1>1 DEF Workflow!Next, Simulated

LEMMA StutterSimulates ==
  ASSUME TypeOK, UNCHANGED <<images, uploadedVars, publishedVars>>
  PROVE  Simulated
<1>1. Uploaded!Accepted' = Uploaded!Accepted /\ Published!Accepted' = Published!Accepted
  BY UploadedAccepted, PublishedAccepted DEF TypeOK
<1>2. QED
  BY <1>1 DEF Simulated, Workflow!vars

----------------------------------------------------------------------------
(* The writes.                                                             *)

\* A request about to write: its document is the stored one, checked.
LEMMA AboutToWrite ==
  ASSUME RInv, NEW p \in Procs, pc[p] = "write"
  PROVE  /\ req[p] \in Request /\ req[p].id \in Images
         /\ existing[p] = images[req[p].id] /\ existing[p] \in Image /\ existing[p] # NoImage
         /\ CheckAgainst(req[p], existing[p]) = NoError
<1>1. HandlerTypeOK /\ NoStaleWrite /\ MongoTypeOK
  BY DEF RInv, IInv, TypeOK
<1>2. req[p] \in Request /\ req[p].id \in Images
  BY <1>1, BusyHasRequest
<1>3. QED
  BY <1>1, <1>2 DEF NoStaleWrite, Deciding, MongoTypeOK

\* A write stores its document, or nothing.
LEMMA WriteStores ==
  ASSUME TypeOK, NEW p \in Procs, NEW op, NEW new, NEW label, NEW status,
         Write(p, op, new, label, status)
  PROVE  /\ pc[p] = "write" /\ req[p].op = op
         /\ \/ /\ images' = [images EXCEPT ![req[p].id] = new]
               /\ UNCHANGED <<Uploaded!Accepted, Published!Accepted>>
            \/ Simulated
<1>1. UNCHANGED uploadedVars /\ UNCHANGED publishedVars
  BY DEF Write, kafkaVars
<1>2. Uploaded!Accepted' = Uploaded!Accepted /\ Published!Accepted' = Published!Accepted
  BY <1>1, UploadedAccepted, PublishedAccepted DEF TypeOK
<1>3. QED
  BY <1>1, <1>2, StutterSimulates DEF Write, Put, PutFails

LEMMA UpsertedImage ==
  ASSUME NEW stored \in Image, stored # NoImage, NEW image,
         image.state # "", DOMAIN image.downloads # {}, image.links = stored.links
  PROVE  Upserted(stored, image) =
           [state |-> image.state, error |-> stored.error \/ image.error,
            links |-> stored.links, downloads |-> image.downloads]
BY DEF Upserted

LEMMA SimulateUpdateImage ==
  ASSUME RInv, NEW p \in Procs, UpdateImage(p)
  PROVE  Simulated
<1> DEFINE r == req[p]
           image == existing[p]
           new == Upserted(images[r.id], ImageUpdate(r, image))
<1>0. TypeOK
  BY DEF RInv, IInv
<1>1. /\ pc[p] = "write" /\ r.op = "updateImage"
      /\ \/ /\ images' = [images EXCEPT ![r.id] = new]
            /\ UNCHANGED <<Uploaded!Accepted, Published!Accepted>>
         \/ Simulated
  <2> HIDE DEF new
  <2>1. Write(p, "updateImage", new, "unlock", 200)
    BY DEF UpdateImage, new
  <2>2. QED
    BY <1>0, <2>1, WriteStores
<1>2. /\ r \in Request /\ r.id \in Images
      /\ image = images[r.id] /\ image \in Image /\ image # NoImage
      /\ CheckAgainst(r, image) = NoError
  BY <1>1, AboutToWrite
<1>3. /\ r.body \in ImageBodies /\ r.body \in ImageBody /\ r.body.state \in State
  BY <1>1, <1>2, BodiesAreBodies DEF Request, RInv, BodiesChecked
<1>4. image.state # "completed" /\ TransitionAllowed(image.state, r.body.state)
  <2>1. image.state \in State
    BY <1>2 DEF Image
  <2>2. QED
    BY <1>1, <1>2, <1>3, <2>1
       DEF CheckAgainst, ValidateTransitionFrom, Refuse, ??, NoError, StateTransitionAllowed, State
<1>5. r.body.state = "uploaded" => LossyFaults \/ r.id \in Uploaded!Accepted
  BY <1>1 DEF RInv, UploadsSent
<1>6. new = [state |-> r.body.state, error |-> image.error \/ r.body.error,
             links |-> image.links, downloads |-> image.downloads]
  BY <1>2, <1>3, NoDownloadsType DEF Upserted, ImageUpdate, State
<1>7. [image EXCEPT !.state = r.body.state, !.error = @ \/ r.body.error] = new
  <2> HIDE DEF new
  <2>1. \A s, e : [image EXCEPT !.state = s, !.error = @ \/ e] =
          [state |-> s, error |-> image.error \/ e, links |-> image.links,
           downloads |-> image.downloads]
    BY <1>2, WithStateAndError
  <2>2. QED
    BY <1>6, <2>1
<1>8. ASSUME images' = [images EXCEPT ![r.id] = new],
             UNCHANGED <<Uploaded!Accepted, Published!Accepted>>
      PROVE  Workflow!SetState(r.id)
  <2> HIDE DEF new
  <2>1. Workflow!Exists(r.id)
    BY <1>2 DEF Workflow!Exists
  <2>2. r.body.state = "uploaded" => Faults \cap {"broker", "crash"} # {} \/ r.id \in Uploaded!Accepted
    BY <1>5 DEF LossyFaults
  <2>3. Workflow!Becomes(r.id, [images[r.id] EXCEPT !.state = r.body.state, !.error = @ \/ r.body.error])
    BY <1>2, <1>7, <1>8 DEF Workflow!Becomes
  <2>4. Workflow!TransitionAllowed(images[r.id].state, r.body.state) /\ images[r.id].state # "completed"
    BY <1>2, <1>4, SameModels
  <2>5. /\ r.body.state \in {body.state : body \in ImageBodies}
        /\ r.body.error \in {body.error : body \in ImageBodies}
    BY <1>3
  <2>6. QED
    <3> HIDE DEF r
    <3>1. QED
      BY <2>1, <2>2, <2>3, <2>4, <2>5 DEF Workflow!SetState
<1>9. QED
  <2> HIDE DEF new, r
  <2>1. QED
    BY <1>1, <1>2, <1>8, ChangeSimulates

LEMMA SimulateAddDownload ==
  ASSUME RInv, NEW p \in Procs, AddDownload(p)
  PROVE  Simulated
<1> DEFINE r == req[p]
           image == existing[p]
           d == WithDownload(image, r.variant, NewDownload(r))
           new == Upserted(images[r.id], DownloadAdded(r, image))
<1>0. TypeOK
  BY DEF RInv, IInv
<1>1. /\ pc[p] = "write" /\ r.op = "createDownload"
      /\ \/ /\ images' = [images EXCEPT ![r.id] = new]
            /\ UNCHANGED <<Uploaded!Accepted, Published!Accepted>>
         \/ Simulated
  <2> HIDE DEF new
  <2>1. Write(p, "createDownload", new, "unlock", 201)
    BY DEF AddDownload, new
  <2>2. QED
    BY <1>0, <2>1, WriteStores
<1>2. /\ r \in Request /\ r.id \in Images
      /\ image = images[r.id] /\ image \in Image /\ image # NoImage
      /\ CheckAgainst(r, image) = NoError
  BY <1>1, AboutToWrite
<1>3. /\ r.variant \in Variants /\ r.body.type \in Types \cup {NoType}
      /\ r.body.state = "importing"
  BY <1>1, <1>2, RequestFields DEF DownloadBody, RInv, CreatedAsImporting
<1>4. image.state \in {"uploaded", "importing"} /\ r.variant \notin DOMAIN image.downloads
  BY <1>1, <1>2, <1>3
     DEF CheckAgainst, CheckNewVariant, ValidateForImage, Refuse, ??, NoError
<1>5. d = Workflow!SetDownload(image, r.variant,
            [state |-> "importing", type |-> r.body.type, links |-> "own"])
  BY DEF Workflow!SetDownload, WithDownload, NewDownload, createLinksForDownload
<1>6. [image EXCEPT !.state = "importing", !.downloads = d] = new
  <2> HIDE DEF d
  <2>1. /\ [image EXCEPT !.state = "importing", !.downloads = d] =
             [state |-> "importing", error |-> image.error, links |-> image.links, downloads |-> d]
        /\ DownloadAdded(r, image) =
             [state |-> "importing", error |-> image.error, links |-> image.links, downloads |-> d]
    <3>1. DownloadAdded(r, image) = [image EXCEPT !.downloads = d, !.state = "importing"]
      BY DEF DownloadAdded, d
    <3>2. QED
      BY <1>2, <3>1, WithStateAndDownloads, WithDownloadsAndState
  <2>2. image.error \in BOOLEAN /\ DOMAIN d # {}
    BY <1>2 DEF Image, d, WithDownload
  <2>3. new = Upserted(image, [state |-> "importing", error |-> image.error,
                               links |-> image.links, downloads |-> d])
    BY <1>2, <2>1
  <2> DEFINE added == [state |-> "importing", error |-> image.error,
                       links |-> image.links, downloads |-> d]
  <2>4. /\ added.state = "importing" /\ added.error = image.error
        /\ added.links = image.links /\ added.downloads = d
    OBVIOUS
  <2>5. Upserted(image, added) = added
    <3> HIDE DEF added
    <3>1. Upserted(image, added) =
            [state |-> added.state, error |-> image.error \/ added.error,
             links |-> image.links, downloads |-> added.downloads]
      BY <1>2, <2>2, <2>4, UpsertedImage
    <3>2. QED
      BY <2>2, <2>4, <3>1 DEF added
  <2>6. QED
    BY <2>1, <2>3, <2>5
<1>7. ASSUME images' = [images EXCEPT ![r.id] = new],
             UNCHANGED <<Uploaded!Accepted, Published!Accepted>>
      PROVE  Workflow!AddVariant(r.id, r.variant, r.body.type)
  <2> HIDE DEF new, d
  <2>1. Workflow!MayAdd(r.id, r.variant)
    BY <1>2, <1>4 DEF Workflow!MayAdd, Workflow!Exists
  <2>2. Workflow!Becomes(r.id, [images[r.id] EXCEPT !.state = "importing", !.downloads = d])
    BY <1>2, <1>6, <1>7 DEF Workflow!Becomes
  <2>3. QED
    BY <1>2, <1>5, <2>1, <2>2 DEF Workflow!AddVariant
<1>8. QED
  <2> HIDE DEF new, r
  <2>1. QED
    BY <1>1, <1>2, <1>3, <1>7, ChangeSimulates

LEMMA SimulateReplaceDownload ==
  ASSUME RInv, NEW p \in Procs, ReplaceDownload(p)
  PROVE  Simulated
<1> DEFINE r == req[p]
           v == r.variant
           s == r.body.state
           image == existing[p]
           old == image.downloads[v]
           d == WithDownload(image, v, DownloadOf(r, old.links))
           seen == [image EXCEPT !.downloads = d]
           new == Upserted(images[r.id], DownloadReplaced(r, image))
<1>0. TypeOK
  BY DEF RInv, IInv
<1>1. /\ pc[p] = "write" /\ r.op = "updateDownload"
      /\ \/ /\ images' = [images EXCEPT ![r.id] = new]
            /\ UNCHANGED <<Uploaded!Accepted, Published!Accepted>>
         \/ Simulated
  <2> HIDE DEF new
  <2>1. Write(p, "updateDownload", new, "unlock", 200)
    BY DEF ReplaceDownload, new
  <2>2. QED
    BY <1>0, <2>1, WriteStores
<1>2. /\ r \in Request /\ r.id \in Images
      /\ image = images[r.id] /\ image \in Image /\ image # NoImage
      /\ CheckAgainst(r, image) = NoError
  BY <1>1, AboutToWrite
<1>3. /\ v \in Variants /\ r.body.type \in Types \cup {NoType} /\ r.body \in DownloadBodies
  BY <1>1, <1>2, RequestFields DEF DownloadBody, Request
<1>4. /\ v \in DOMAIN image.downloads
      /\ ValidateForImage(r.body, image) = NoError
      /\ ValidateDownloadTransitionFrom(r.body, old) = NoError
  BY <1>1, <1>2 DEF CheckAgainst, CheckVariant, ??, NoError
<1>5. DownloadStateTransitionAllowed(old, s) /\ s \in DownloadState
  BY <1>4 DEF ValidateDownloadTransitionFrom, Refuse, ??, NoError,
              DownloadStateTransitionAllowed
<1>6. image.state \in Workflow!Hosts(s)
  <2>1. image.state \in State
    BY <1>2 DEF Image
  <2>2. s \in {"pending", "importing", "imported", "failed", "published", "completed"}
    BY <1>5 DEF DownloadState
  <2>3. /\ s = "importing" => image.state \in {"uploaded", "importing"}
        /\ s = "imported" => image.state = "importing"
        /\ s = "completed" => image.state = "published"
    BY <1>4 DEF ValidateForImage, Refuse, ??, NoError
  <2>4. QED
    BY <2>1, <2>2, <2>3, SameModels DEF Workflow!Hosts
<1>7. d = Workflow!SetDownload(image, v, [state |-> s, type |-> r.body.type, links |-> old.links])
  BY DEF Workflow!SetDownload, WithDownload, DownloadOf
<1>8. seen \in Image
  <2>1. DownloadOf(r, old.links) \in Download
    <3>1. s \in DownloadState
      BY <1>5
    <3>2. old.links \in Links
      BY <1>2, <1>4, DownloadsElim DEF Image, Download
    <3>3. QED
      BY <1>3, <3>1, <3>2 DEF DownloadOf, Download
  <2>2. d \in Downloads
    BY <1>2, <1>3, <2>1, WithDownloadType DEF Image
  <2>3. QED
    <3> HIDE DEF d
    <3>1. QED
      BY <1>2, <2>2 DEF Image
<1>9. seen = [state |-> image.state, error |-> image.error, links |-> image.links, downloads |-> d]
  <2> HIDE DEF d
  <2>1. QED
    BY <1>2 DEF Image
<1>10. [seen EXCEPT !.state = UpdatedState(seen), !.error = @ \/ s = "failed"] = new
  <2>1. DownloadReplaced(r, image) =
          [seen EXCEPT !.state = UpdatedState(seen), !.error = @ \/ s = "failed"]
    BY DEF DownloadReplaced
  <2>2. UpdatedState(seen) # "" /\ DOMAIN seen.downloads # {}
    <3>1. UpdatedState(seen) \in State
      <4> HIDE DEF seen
      <4>1. QED
        BY <1>8, UpdatedStateType DEF Image
    <3>2. seen.downloads = d /\ DOMAIN d # {}
      <4>1. DOMAIN d # {}
        BY DEF WithDownload
      <4>2. seen.downloads = d
        <5> HIDE DEF d
        <5>1. QED
          BY <1>9
      <4>3. QED
        BY <4>1, <4>2
    <3>3. QED
      <4> HIDE DEF d
      <4>1. QED
        BY <3>1, <3>2 DEF State
  <2>3. seen.links = image.links /\ seen.error = image.error /\ image.error \in BOOLEAN
    <3> HIDE DEF d
    <3>1. QED
      BY <1>2, <1>9 DEF Image
  <2>4. QED
    <3> HIDE DEF seen
    <3>1. \A t, e : [seen EXCEPT !.state = t, !.error = @ \/ e] =
            [state |-> t, error |-> seen.error \/ e, links |-> seen.links,
             downloads |-> seen.downloads]
      BY <1>8, WithStateAndError
    <3>2. DownloadReplaced(r, image) =
            [state |-> UpdatedState(seen), error |-> seen.error \/ s = "failed",
             links |-> seen.links, downloads |-> seen.downloads]
      BY <2>1, <3>1
    <3>3. new = Upserted(image,
                  [state |-> UpdatedState(seen), error |-> seen.error \/ s = "failed",
                   links |-> seen.links, downloads |-> seen.downloads])
      BY <1>2, <3>2
    <3>4. new = [state |-> UpdatedState(seen), error |-> image.error \/ seen.error \/ s = "failed",
                 links |-> image.links, downloads |-> seen.downloads]
      BY <1>2, <2>2, <2>3, <3>3, UpsertedImage
    <3>5. new = DownloadReplaced(r, image)
      BY <2>3, <3>2, <3>4
    <3>6. QED
      BY <2>1, <3>5
<1>11. ASSUME images' = [images EXCEPT ![r.id] = new],
              UNCHANGED <<Uploaded!Accepted, Published!Accepted>>
       PROVE  Workflow!ReportVariant(r.id, v, s, r.body.type)
  <2>1. Workflow!MayReport(r.id, v, s)
    BY <1>2, <1>4, <1>5, <1>6, SameModels DEF Workflow!MayReport, Workflow!Exists
  <2>2. Workflow!Becomes(r.id, [seen EXCEPT !.state = Workflow!UpdatedState(seen),
                                           !.error = @ \/ s = "failed"])
    <3> HIDE DEF new, seen
    <3>1. QED
      BY <1>10, <1>11, SameModels DEF Workflow!Becomes
  <2>3. seen = [images[r.id] EXCEPT !.downloads =
           Workflow!SetDownload(images[r.id], v,
             [state |-> s, type |-> r.body.type, links |-> images[r.id].downloads[v].links])]
    BY <1>2, <1>7
  <2>4. QED
    <3> HIDE DEF seen, r, v, s
    <3>1. QED
      BY <2>1, <2>2, <2>3 DEF Workflow!ReportVariant
<1>12. QED
  <2>1. s \in {body.state : body \in DownloadBodies}
    BY <1>3
  <2> HIDE DEF new, r, v, s
  <2>2. QED
    BY <1>1, <1>2, <1>3, <1>11, <2>1, ChangeSimulates

LEMMA SimulateMarkPublished ==
  ASSUME RInv, NEW p \in Procs, MarkPublished(p)
  PROVE  Simulated
<1> DEFINE r == req[p]
           image == existing[p]
           new == Updated(images[r.id], PublishUpdate(image))
<1>0. TypeOK
  BY DEF RInv, IInv
<1>1. /\ pc[p] = "write" /\ r.op = "publish"
      /\ \/ /\ images' = [images EXCEPT ![r.id] = new]
            /\ UNCHANGED <<Uploaded!Accepted, Published!Accepted>>
         \/ Simulated
  <2> HIDE DEF new
  <2>1. Write(p, "publish", new, "announce", 0)
    BY DEF MarkPublished, new
  <2>2. QED
    BY <1>0, <2>1, WriteStores
<1>2. /\ r.id \in Images
      /\ image = images[r.id] /\ image \in Image /\ image # NoImage
      /\ CheckAgainst(r, image) = NoError
  BY <1>1, AboutToWrite
<1>3. TransitionAllowed(image.state, "published")
  <2>1. image.state \in State
    BY <1>2 DEF Image
  <2>2. QED
    BY <1>1, <1>2, <2>1
       DEF CheckAgainst, CheckPublishable, Refuse, NoError, StateTransitionAllowed
<1>4. /\ new = [image EXCEPT !.state = "published",
                             !.downloads = Workflow!PublishedDownloads(image.downloads)]
      /\ \A v \in DOMAIN image.downloads : Entry[v] # NoName
  <2>1. PathsAreComplete(image)
    BY DEF MarkPublished
  <2>2. QED
    BY <1>2, <2>1, PublishSetsStates DEF PathsAreComplete
<1>5. ASSUME images' = [images EXCEPT ![r.id] = new],
             UNCHANGED <<Uploaded!Accepted, Published!Accepted>>
      PROVE  Workflow!Publish(r.id)
  <2> HIDE DEF new
  <2>1. Workflow!Becomes(r.id, new)
    BY <1>5 DEF Workflow!Becomes
  <2>2. QED
    BY <1>2, <1>3, <1>4, <2>1, SameModels DEF Workflow!Publish, Workflow!Exists
<1>6. QED
  <2> HIDE DEF new, r
  <2>1. QED
    BY <1>1, <1>2, <1>5, ChangeSimulates

LEMMA SimulateInsertImage ==
  ASSUME RInv, NEW p \in Procs, InsertImage(p)
  PROVE  Simulated
<1> DEFINE id == req[p].id
<1>0. TypeOK /\ InsertsAreFresh
  BY DEF RInv, IInv
<1>1. pc[p] = "insert" /\ id \in Images /\ images[id] = NoImage
  BY <1>0, BusyHasRequest DEF InsertImage, InsertsAreFresh, TypeOK
<1>2. UNCHANGED <<uploadedVars, publishedVars>>
  BY DEF InsertImage, kafkaVars
<1>3. images' = [images EXCEPT ![id] = NewImage] \/ UNCHANGED images
  BY <1>1 DEF InsertImage, Upserted, Put, PutFails
<1>4. CASE UNCHANGED images
  BY <1>0, <1>2, <1>4, StutterSimulates
<1>5. CASE images' = [images EXCEPT ![id] = NewImage]
  <2>1. UNCHANGED <<Uploaded!Accepted, Published!Accepted>>
    BY <1>0, <1>2, UploadedAccepted, PublishedAccepted DEF TypeOK
  <2>2. Workflow!Create(id)
    BY <1>1, <1>5, <2>1, SameModels
       DEF Workflow!Create, Workflow!Exists, Workflow!Becomes, NewImage, createLinksForImage
  <2>3. QED
    BY <1>1, <2>2, ChangeSimulates
<1>6. QED
  BY <1>3, <1>4, <1>5

----------------------------------------------------------------------------
(* The events.                                                             *)

\* A request about to announce an upload: nobody has uploaded the image.
LEMMA AboutToAnnounce ==
  ASSUME RInv, NEW p \in Procs, pc[p] = "sendUploaded"
  PROVE  /\ req[p].id \in Images /\ req[p].op = "updateImage" /\ req[p].body.state = "uploaded"
         /\ images[req[p].id] # NoImage /\ images[req[p].id].state = "created"
<1> DEFINE r == req[p]
           image == images[r.id]
<1>0. TypeOK /\ HandlerTypeOK /\ NoStaleWrite
  BY DEF RInv, IInv, TypeOK
<1>1. r.id \in Images
  BY <1>0, BusyHasRequest
<1>2. r.op = "updateImage" /\ r.body.state = "uploaded"
  BY <1>0 DEF HandlerTypeOK, Ops, RInv, BodiesChecked
<1>3. /\ image # NoImage /\ image \in Image
      /\ CheckAgainst(r, image) = NoError
  BY <1>0, <1>1 DEF NoStaleWrite, Deciding, TypeOK, MongoTypeOK
<1>4. image.state = "created"
  <2>1. image.state \in State
    BY <1>3 DEF Image
  <2>2. StateTransitionAllowed(image, "uploaded")
    BY <1>2, <1>3 DEF CheckAgainst, ValidateTransitionFrom, Refuse, ??, NoError
  <2>3. QED
    BY <2>1, <2>2 DEF StateTransitionAllowed, TransitionAllowed
<1>5. QED
  BY <1>1, <1>2, <1>3, <1>4

LEMMA SimulateSendUploaded ==
  ASSUME RInv, NEW p \in Procs, SendUploaded(p)
  PROVE  Simulated
<1> DEFINE id == req[p].id
<1>0. TypeOK
  BY DEF RInv, IInv
<1>1. pc[p] = "sendUploaded" /\ Uploaded!Send(id)
  BY DEF SendUploaded
<1>2. id \in Images /\ images[id] # NoImage /\ images[id].state = "created"
  BY <1>1, AboutToAnnounce
<1>3. Uploaded!Accepted' = Uploaded!Accepted \cup {id}
  BY <1>0, <1>1, <1>2, UploadedAccepted DEF TypeOK
<1>4. UNCHANGED <<images, Published!Accepted>>
  BY <1>0, PublishedAccepted DEF SendUploaded, mongoVars, TypeOK
<1>5. Workflow!AnnounceUpload(id)
  BY <1>2, <1>3, <1>4 DEF Workflow!AnnounceUpload, Workflow!Exists
<1>6. QED
  <2> HIDE DEF id
  <2>1. QED
    BY <1>2, <1>5, AnnounceSimulates

LEMMA SimulateSendPublished ==
  ASSUME RInv, NEW p \in Procs, SendPublished(p)
  PROVE  Simulated
<1> DEFINE id == req[p].id
<1>0. TypeOK /\ HandlerTypeOK /\ Announcing
  BY DEF RInv, IInv, TypeOK
<1>1. pc[p] = "announce" /\ id \in Images /\ unsent[p] \subseteq Variants
  BY <1>0, BusyHasRequest DEF SendPublished, HandlerTypeOK
<1>2. PICK v \in unsent[p] : Published!Send(<<id, v>>)
  BY DEF SendPublished
<1>3. /\ images[id] # NoImage /\ images[id].state = "published"
      /\ v \in DOMAIN images[id].downloads
      /\ Entry[v] = v => images[id].downloads[v].state = "published"
  BY <1>0, <1>1, <1>2 DEF Announcing
<1>4. v \in Variants /\ Published!Accepted' = Published!Accepted \cup {<<id, v>>}
  BY <1>0, <1>1, <1>2, PublishedAccepted DEF TypeOK
<1>5. UNCHANGED <<images, Uploaded!Accepted>>
  BY <1>0, UploadedAccepted DEF SendPublished, mongoVars, TypeOK
<1>6. Workflow!AnnouncePublication(id, v)
  BY <1>3, <1>4, <1>5 DEF Workflow!AnnouncePublication, Workflow!Exists
<1>7. QED
  <2> HIDE DEF id
  <2>1. QED
    BY <1>1, <1>4, <1>6, AnnounceSimulates

LEMMA SimulateEnvironment ==
  ASSUME RInv, Environment
  PROVE  Simulated
<1>0. TypeOK
  BY DEF RInv, IInv
<1>1. UNCHANGED images
  BY DEF Environment, ReleaseOrphanedLock, DeliverUploaded, DeliverPublished, LoseEvent, mongoVars
<1>2. CASE ReleaseOrphanedLock
  BY <1>0, <1>1, <1>2, StutterSimulates DEF ReleaseOrphanedLock, kafkaVars
<1>3. CASE DeliverUploaded \/ DeliverPublished
  <2>1. UNCHANGED <<Uploaded!Accepted, Published!Accepted>>
    BY <1>0, <1>3, UploadedAccepted, PublishedAccepted
       DEF DeliverUploaded, DeliverPublished, TypeOK
  <2>2. QED
    BY <1>1, <2>1 DEF Simulated, Workflow!vars
<1>4. CASE LoseEvent
  <2>1. Faults \cap {"broker", "crash"} # {}
    BY <1>4 DEF LoseEvent
  <2>2. CASE Uploaded!Drop /\ UNCHANGED publishedVars
    <3>1. UNCHANGED Published!Accepted
      BY <1>0, <2>2, PublishedAccepted DEF TypeOK
    <3>2. PICK id \in Images : \/ Uploaded!Accepted' = Uploaded!Accepted
                               \/ Uploaded!Accepted' = Uploaded!Accepted \ {id}
      BY <1>0, <2>2, UploadedAccepted DEF TypeOK
    <3>3. UNCHANGED Uploaded!Accepted \/ Workflow!LoseUpload(id)
      BY <1>1, <2>1, <3>1, <3>2 DEF Workflow!LoseUpload
    <3>4. QED
      BY <1>1, <3>1, <3>3, AnnounceSimulates DEF Simulated, Workflow!vars
  <2>3. CASE Published!Drop /\ UNCHANGED uploadedVars
    <3>1. UNCHANGED Uploaded!Accepted
      BY <1>0, <2>3, UploadedAccepted DEF TypeOK
    <3>2. PICK id \in Images, v \in Variants :
            \/ Published!Accepted' = Published!Accepted
            \/ Published!Accepted' = Published!Accepted \ {<<id, v>>}
      BY <1>0, <2>3, PublishedAccepted DEF TypeOK
    <3>3. UNCHANGED Published!Accepted \/ Workflow!LosePublication(id, v)
      BY <1>1, <2>1, <3>1, <3>2 DEF Workflow!LosePublication
    <3>4. QED
      BY <1>1, <3>1, <3>3, AnnounceSimulates DEF Simulated, Workflow!vars
  <2>4. QED
    BY <1>4, <2>2, <2>3 DEF LoseEvent
<1>5. QED
  BY <1>2, <1>3, <1>4 DEF Environment

----------------------------------------------------------------------------
(* Every step.                                                             *)

LEMMA SimulateStep ==
  ASSUME RInv, NEW p \in Procs, Step(p)
  PROVE  Simulated
<1>0. TypeOK
  BY DEF RInv, IInv
<1>1. CASE Arrive(p) \/ Lock(p) \/ Crash(p)
  <2>1. UNCHANGED <<images, kafkaVars>>
    BY <1>1 DEF Arrive, CreateImageHandler, UpdateImageHandler, PublishImageHandler,
                CreateDownloadHandler, UpdateDownloadHandler, Receive, Lock, Crash, Forget, mongoVars
  <2>2. QED
    BY <1>0, <2>1, StutterSimulates DEF kafkaVars
<1>2. CASE LockFails(p) \/ GetImage(p) \/ GetImageFails(p) \/ SendUploadedFails(p)
           \/ MarkPublishedRefused(p) \/ SendPublishedFails(p) \/ AllPublished(p)
           \/ Unlock(p) \/ UnlockFails(p) \/ Return(p)
  <2>1. UNCHANGED <<images, kafkaVars>>
    BY <1>2 DEF LockFails, GetImage, GetImageFails, SendUploadedFails, MarkPublishedRefused,
                SendPublishedFails, AllPublished, Unlock, UnlockFails, Return, Forget, mongoVars
  <2>2. QED
    BY <1>0, <2>1, StutterSimulates DEF kafkaVars
<1>3. QED
  BY <1>1, <1>2, SimulateInsertImage, SimulateUpdateImage, SimulateAddDownload,
     SimulateReplaceDownload, SimulateMarkPublished, SimulateSendUploaded, SimulateSendPublished
     DEF Step, Work

LEMMA StepRInv ==
  ASSUME RInv, NEW p \in Procs, Step(p)
  PROVE  RInv'
<1>1. IInv /\ TypeOK /\ HandlerTypeOK
  BY DEF RInv, IInv, TypeOK
<1>2. IInv'
  BY <1>1, NextIInv DEF Next, Step
<1>3. CreatedAsImporting' /\ BodiesChecked' /\ UploadsSent' /\ Announcing'
  BY <1>1, StepCreatedAsImporting, StepBodiesChecked, StepUploadsSent, StepAnnouncing DEF RInv
<1>4. QED
  BY <1>2, <1>3 DEF RInv

LEMMA EnvironmentRInv ==
  ASSUME RInv, Environment \/ UNCHANGED vars
  PROVE  RInv'
<1>1. IInv'
  BY NextIInv DEF Next, RInv
<1>2. UNCHANGED <<images, handlerVars>>
  BY DEF Environment, ReleaseOrphanedLock, DeliverUploaded, DeliverPublished, LoseEvent,
         mongoVars, vars
<1>3. CreatedAsImporting' /\ BodiesChecked' /\ Announcing'
  BY <1>2 DEF RInv, CreatedAsImporting, BodiesChecked, Announcing, handlerVars
<1>4. LossyFaults \/ Uploaded!Accepted' = Uploaded!Accepted
  BY UploadedAccepted
     DEF RInv, IInv, TypeOK, Environment, ReleaseOrphanedLock, DeliverUploaded, DeliverPublished,
         LoseEvent, LossyFaults, kafkaVars, vars
<1>5. UploadsSent'
  BY <1>2, <1>4 DEF RInv, UploadsSent, LossyFaults, handlerVars
<1>6. QED
  BY <1>1, <1>3, <1>5 DEF RInv

LEMMA InitRInv == Init => RInv
<1> SUFFICES ASSUME Init PROVE RInv
  OBVIOUS
<1>1. \A p \in Procs : pc[p] = "idle"
  BY DEF Init
<1>2. QED
  BY <1>1, InitIInv DEF RInv, CreatedAsImporting, BodiesChecked, UploadsSent, Announcing

LEMMA RInvariance == Spec => []RInv
<1>1. RInv /\ [Next]_vars => RInv'
  BY StepRInv, EnvironmentRInv DEF Next, Step
<1>2. QED
  BY <1>1, InitRInv, PTL DEF Spec

\* The handlers, whatever clients send, however requests interleave and whatever
\* fails, change images and announce changes only as the workflow does.
THEOREM Implementation == Spec => ImplementsWorkflow
<1>1. Init => Workflow!Init
  <2> SUFFICES ASSUME Init PROVE Workflow!Init
    OBVIOUS
  <2>1. Uploaded!Accepted = {} /\ Published!Accepted = {}
    BY DEF Init, Uploaded!Init, Published!Init, Uploaded!Accepted, Published!Accepted
  <2>2. QED
    BY <2>1 DEF Init, InitMongo, Workflow!Init
<1>2. RInv /\ [Next]_vars => [Workflow!Next]_(Workflow!vars)
  <2> SUFFICES ASSUME RInv, [Next]_vars PROVE Simulated
    BY DEF Simulated
  <2>1. CASE UNCHANGED vars
    BY <2>1, StutterSimulates DEF RInv, IInv, vars, mongoVars, kafkaVars
  <2>2. QED
    BY <2>1, SimulateStep, SimulateEnvironment DEF Next, Step
<1>3. QED
  BY <1>1, <1>2, RInvariance, PTL DEF Spec, ImplementsWorkflow, Workflow!Spec
=============================================================================
