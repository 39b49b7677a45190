------------------------- MODULE ImageWorkflowProofs -------------------------
(***************************************************************************)
(* Proofs about ImageWorkflow, for any images, variants and types, any     *)
(* states clients ask for and report, with and without lost announcements. *)
(***************************************************************************)
EXTENDS ImageWorkflow, TLAPS

----------------------------------------------------------------------------
(* Lemmas about the documents.                                             *)

LEMMA MapsOfDownloads ==
  /\ \A S \in SUBSET Variants : \A d \in [S -> Download] : d \in Downloads
  /\ \A d \in Downloads : DOMAIN d \in SUBSET Variants /\ d \in [DOMAIN d -> Download]
BY DEF Downloads

LEMMA NoDownloadsIsEmpty == NoDownloads \in Downloads /\ DOMAIN NoDownloads = {}
<1>1. NoDownloads \in [{} -> Download] /\ DOMAIN NoDownloads = {}
  BY DEF NoDownloads
<1>2. QED
  BY <1>1, MapsOfDownloads

\* The map with one download set, spelled out.
LEMMA SetDownloadIs ==
  ASSUME NEW image \in Image, NEW v \in Variants, NEW d \in Download
  PROVE  LET new == SetDownload(image, v, d)
         IN  /\ new \in Downloads
             /\ DOMAIN new = DOMAIN image.downloads \cup {v}
             /\ \A w \in DOMAIN new : new[w] = IF w = v THEN d ELSE image.downloads[w]
<1> DEFINE new == SetDownload(image, v, d)
           S == DOMAIN image.downloads \cup {v}
<1>1. /\ DOMAIN image.downloads \in SUBSET Variants
      /\ image.downloads \in [DOMAIN image.downloads -> Download]
  BY MapsOfDownloads DEF Image
<1>2. DOMAIN new = S /\ \A w \in S : new[w] = IF w = v THEN d ELSE image.downloads[w]
  BY DEF SetDownload
<1>3. new \in [S -> Download]
  BY <1>1 DEF SetDownload
<1>4. S \in SUBSET Variants
  BY <1>1
<1>5. new \in Downloads
  BY <1>3, <1>4, MapsOfDownloads
<1>6. QED
  BY <1>2, <1>5

\* The derived state is the state of the image, or follows it.
LEMMA UpdatedStateIs ==
  ASSUME NEW image, image.state \in State
  PROVE  /\ UpdatedState(image) \in State
         /\ image.state \notin {"importing", "published"} => UpdatedState(image) = image.state
         /\ image.state = "importing" =>
              UpdatedState(image) \in {"importing", "imported", "failed_import"}
         /\ image.state = "published" =>
              UpdatedState(image) \in {"published", "completed", "failed_publish"}
BY DEF UpdatedState, State

----------------------------------------------------------------------------
(* The invariant, image by image.                                          *)

\* The states an image that has been published may be in.
Announceable == {"published", "completed", "failed_publish", "deleted"}

\* An entry without links is one that publishing has left over.
LinksOK(image) ==
  /\ image.links = "own"
  /\ \A v \in DOMAIN image.downloads :
       \/ image.downloads[v].links = "own"
       \/ Leftover(image, v) /\ image.state \in Announceable

ImageOK(id, image) ==
  /\ image \in Image
  /\ image.state \in {"created", "uploaded"} => DOMAIN image.downloads = {}
  /\ image.state \notin {"created", "deleted"} => Lossy \/ id \in uploads
  /\ \A v \in Variants : <<id, v>> \in publications =>
       /\ image.state \in Announceable
       /\ v \in DOMAIN image.downloads
       /\ Entry[v] = v => image.downloads[v].state \in {"published", "completed"}
  /\ LinksOK(image)

WorkflowInv ==
  /\ WorkflowTypeOK
  /\ \A id \in Images : Exists(id) => ImageOK(id, images[id])
  /\ \A id \in Images, v \in Variants : <<id, v>> \in publications => Exists(id)

LEMMA WorkflowInvImplies ==
  WorkflowInv =>
    WorkflowTypeOK /\ ImportsFollowAnnouncements /\ PublicationsAreTrue /\ LinksStay
BY DEF WorkflowInv, ImageOK, LinksOK, ImportsFollowAnnouncements, PublicationsAreTrue,
       LinksStay, Announceable

\* A change of one image to a good one keeps the invariant.
LEMMA BecomesKeeps ==
  ASSUME WorkflowInv, NEW id \in Images, NEW image, Becomes(id, image), ImageOK(id, image)
  PROVE  WorkflowInv'
<1>1. \A i \in Images : images'[i] = IF i = id THEN image ELSE images[i]
  BY DEF WorkflowInv, WorkflowTypeOK, Becomes
<1>2. uploads' = uploads /\ publications' = publications
  BY DEF Becomes
<1>3. image \in Image /\ image # NoImage
  BY NoImageIsNotAnImage DEF ImageOK
<1>4. WorkflowTypeOK'
  BY <1>2, <1>3 DEF WorkflowInv, WorkflowTypeOK, Becomes
<1>5. ASSUME NEW i \in Images, Exists(i)'
      PROVE  ImageOK(i, images[i])'
  BY <1>1, <1>2, <1>5 DEF WorkflowInv, ImageOK, Exists
<1>6. \A i \in Images, v \in Variants : <<i, v>> \in publications' => Exists(i)'
  BY <1>1, <1>2, <1>3 DEF WorkflowInv, Exists
<1>7. QED
  BY <1>4, <1>5, <1>6 DEF WorkflowInv

LEMMA CreateKeeps ==
  ASSUME WorkflowInv, NEW id \in Images, Create(id)
  PROVE  WorkflowInv'
<1> DEFINE new == [state |-> "created", error |-> FALSE, links |-> "own", downloads |-> NoDownloads]
<1>1. new \in Image /\ DOMAIN new.downloads = {}
  BY NoDownloadsIsEmpty DEF Image, State, Links
<1>2. \A v \in Variants : <<id, v>> \notin publications
  BY DEF WorkflowInv, Create
<1>3. ImageOK(id, new)
  BY <1>1, <1>2 DEF ImageOK, LinksOK
<1>4. QED
  BY <1>3, BecomesKeeps DEF Create

LEMMA SetStateKeeps ==
  ASSUME WorkflowInv, NEW id \in Images, SetState(id)
  PROVE  WorkflowInv'
<1>1. PICK s \in ClientStates, e \in ClientErrors :
        /\ Exists(id)
        /\ TransitionAllowed(images[id].state, s) /\ images[id].state # "completed"
        /\ s = "uploaded" => Lossy \/ id \in uploads
        /\ Becomes(id, [images[id] EXCEPT !.state = s, !.error = @ \/ e])
  BY DEF SetState
<1> DEFINE old == images[id]
           new == [old EXCEPT !.state = s, !.error = @ \/ e]
<1>2. ImageOK(id, old) /\ old \in Image /\ old.state \in State
  BY <1>1 DEF WorkflowInv, ImageOK, Image
<1>3. s \in State
  BY <1>1 DEF TransitionAllowed, State
<1>4. /\ new \in Image /\ new.state = s /\ new.downloads = old.downloads
      /\ new.links = old.links
  BY <1>2, <1>3, RequestsAreRequests DEF Image
<1>5. ImageOK(id, new)
  <2> HIDE DEF new
  <2>1. s # "created" /\ (s = "uploaded" => old.state = "created")
    BY <1>1 DEF TransitionAllowed
  <2>2. s \notin {"created", "deleted"} => Lossy \/ id \in uploads
    BY <1>1, <1>2 DEF TransitionAllowed, ImageOK
  <2>3. old.state \in Announceable => s \in Announceable
    BY <1>1 DEF TransitionAllowed, Announceable
  <2>4. LinksOK(new)
    BY <1>2, <1>4, <2>3 DEF ImageOK, LinksOK, Leftover
  <2>5. QED
    BY <1>2, <1>4, <2>1, <2>2, <2>3, <2>4 DEF ImageOK
<1>6. QED
  BY <1>1, <1>5, BecomesKeeps

LEMMA AddVariantKeeps ==
  ASSUME WorkflowInv, NEW id \in Images, NEW v \in Variants, NEW t \in Types \cup {NoType},
         AddVariant(id, v, t)
  PROVE  WorkflowInv'
<1> DEFINE old == images[id]
           added == [state |-> "importing", type |-> t, links |-> "own"]
           d == SetDownload(old, v, added)
           new == [old EXCEPT !.state = "importing", !.downloads = d]
<1>1. /\ Exists(id) /\ old.state \in {"uploaded", "importing"}
      /\ v \notin DOMAIN old.downloads /\ Becomes(id, new)
  BY DEF AddVariant, MayAdd
<1>2. ImageOK(id, old) /\ old \in Image
  BY <1>1 DEF WorkflowInv, ImageOK
<1>3. added \in Download
  BY DEF Download, DownloadState, Links
<1>4. /\ d \in Downloads /\ DOMAIN d = DOMAIN old.downloads \cup {v}
      /\ \A w \in DOMAIN d : d[w] = IF w = v THEN added ELSE old.downloads[w]
  <2> HIDE DEF added, old
  <2>1. QED
    BY <1>2, <1>3, SetDownloadIs
<1>5. /\ new \in Image /\ new.state = "importing" /\ new.downloads = d
      /\ new.links = old.links
  BY <1>2, <1>4 DEF Image, State
<1>6. \A w \in Variants : <<id, w>> \notin publications
  BY <1>1, <1>2 DEF ImageOK, Announceable
<1>7. LinksOK(new)
  <2>1. old.links = "own" /\ \A w \in DOMAIN old.downloads : old.downloads[w].links = "own"
    BY <1>1, <1>2 DEF ImageOK, LinksOK, Announceable
  <2>2. added.links = "own"
    OBVIOUS
  <2> HIDE DEF new, d, added
  <2>3. QED
    BY <1>4, <1>5, <2>1, <2>2 DEF LinksOK
<1>8. ImageOK(id, new)
  <2> HIDE DEF new, d
  <2>1. QED
    BY <1>1, <1>2, <1>4, <1>5, <1>6, <1>7 DEF ImageOK
<1>9. QED
  BY <1>1, <1>8, BecomesKeeps

\* A report that a variant accepts names a state, and one of "completed" only a
\* published variant accepts.
LEMMA AcceptedReport ==
  ASSUME NEW download, NEW s, DownloadStateTransitionAllowed(download, s)
  PROVE  /\ s \in DownloadState
         /\ download.state \in DownloadState => DownloadTransitionAllowed(download.state, s)
         /\ download.state \notin DownloadState => s = "importing"
BY DEF DownloadStateTransitionAllowed, DownloadTransitionAllowed, DownloadState

LEMMA ReportVariantKeeps ==
  ASSUME WorkflowInv, NEW id \in Images, NEW v \in Variants, NEW s \in Reports,
         NEW t \in Types \cup {NoType}, ReportVariant(id, v, s, t)
  PROVE  WorkflowInv'
<1> DEFINE old == images[id]
           reported == [state |-> s, type |-> t, links |-> old.downloads[v].links]
           d == SetDownload(old, v, reported)
           seen == [old EXCEPT !.downloads = d]
           new == [seen EXCEPT !.state = UpdatedState(seen), !.error = @ \/ s = "failed"]
<1>1. /\ Exists(id) /\ v \in DOMAIN old.downloads /\ old.state \in Hosts(s)
      /\ DownloadStateTransitionAllowed(old.downloads[v], s)
      /\ Becomes(id, new)
  BY DEF ReportVariant, MayReport
<1>2. ImageOK(id, old) /\ old \in Image /\ old.state \in State
  BY <1>1 DEF WorkflowInv, ImageOK, Image
<1>3. s \in DownloadState /\ old.downloads[v].links = "own"
  <2>1. s \in DownloadState
    BY <1>1, AcceptedReport
  <2>2. SUFFICES ASSUME old.downloads[v] = EmptyDownload, old.state \in Announceable
                 PROVE  FALSE
    BY <1>1, <1>2, <2>1 DEF ImageOK, LinksOK, Leftover
  <2>3. EmptyDownload.state \notin DownloadState
    BY DEF EmptyDownload, DownloadState
  <2>4. s = "importing"
    BY <1>1, <2>2, <2>3, AcceptedReport
  <2>5. QED
    BY <1>1, <2>2, <2>4 DEF Hosts, Announceable
<1>4. reported \in Download
  BY <1>3 DEF Download, Links
<1>5. /\ d \in Downloads /\ DOMAIN d = DOMAIN old.downloads
      /\ \A w \in DOMAIN d : d[w] = IF w = v THEN reported ELSE old.downloads[w]
  <2>1. v \in DOMAIN old.downloads /\ old \in Image
    BY <1>1, <1>2
  <2>2. DOMAIN old.downloads \cup {v} = DOMAIN old.downloads
    BY <2>1
  <2> HIDE DEF reported, old
  <2>3. /\ d \in Downloads /\ DOMAIN d = DOMAIN old.downloads \cup {v}
        /\ \A w \in DOMAIN d : d[w] = IF w = v THEN reported ELSE old.downloads[w]
    BY <1>4, <2>1, SetDownloadIs
  <2>4. QED
    BY <2>2, <2>3
<1>6. seen \in Image /\ seen.state = old.state /\ seen.downloads = d /\ seen.links = old.links
  BY <1>2, <1>5 DEF Image
<1>7. /\ UpdatedState(seen) \in State
      /\ old.state \notin {"importing", "published"} => UpdatedState(seen) = old.state
      /\ old.state = "importing" =>
           UpdatedState(seen) \in {"importing", "imported", "failed_import"}
      /\ old.state = "published" =>
           UpdatedState(seen) \in {"published", "completed", "failed_publish"}
  <2> HIDE DEF seen
  <2>1. QED
    BY <1>2, <1>6, UpdatedStateIs
<1>8. /\ new \in Image /\ new.state = UpdatedState(seen) /\ new.downloads = d
      /\ new.links = old.links
  <2> HIDE DEF seen
  <2>1. QED
    BY <1>6, <1>7 DEF Image
<1>9. ASSUME NEW w \in Variants, <<id, w>> \in publications
      PROVE  /\ new.state \in Announceable
             /\ w \in DOMAIN d
             /\ Entry[w] = w => d[w].state \in {"published", "completed"}
  <2>1. /\ old.state \in Announceable /\ w \in DOMAIN old.downloads
        /\ Entry[w] = w => old.downloads[w].state \in {"published", "completed"}
    BY <1>2, <1>9 DEF ImageOK
  <2>2. new.state \in Announceable
    BY <1>7, <1>8, <2>1 DEF Announceable
  <2>3. w = v /\ Entry[w] = w => s = "completed"
    BY <1>1, <2>1, AcceptedReport DEF DownloadTransitionAllowed, DownloadState
  <2>4. QED
    BY <1>5, <2>1, <2>2, <2>3
<1>10. ImageOK(id, new)
  <2>1. new.state \in {"created", "uploaded"} => DOMAIN d = {}
    BY <1>2, <1>5, <1>7, <1>8 DEF ImageOK
  <2>2. new.state \notin {"created", "deleted"} => Lossy \/ id \in uploads
    BY <1>2, <1>7, <1>8 DEF ImageOK
  <2>3. LinksOK(new)
    <3>1. \A w \in DOMAIN d : d[w].links = old.downloads[w].links
      BY <1>5
    <3>2. \A w \in DOMAIN d : d[w].links # "own" => d[w] = old.downloads[w]
      BY <1>3, <1>5
    <3>3. old.state \in Announceable => new.state \in Announceable
      BY <1>7, <1>8 DEF Announceable
    <3>4. LinksOK(old)
      BY <1>2 DEF ImageOK
    <3> HIDE DEF new, d, old
    <3>5. QED
      BY <1>5, <1>6, <1>8, <3>1, <3>2, <3>3, <3>4 DEF LinksOK, Leftover
  <2>4. QED
    <3> HIDE DEF new, d
    <3>1. QED
      BY <1>2, <1>8, <1>9, <2>1, <2>2, <2>3 DEF ImageOK
<1>11. QED
  BY <1>1, <1>10, BecomesKeeps

\* What publishing makes of a map of downloads is a map of downloads.
LEMMA PublishedDownloadsAre ==
  ASSUME NEW downloads \in Downloads, \A v \in DOMAIN downloads : Entry[v] # NoName
  PROVE  LET d == PublishedDownloads(downloads)
         IN  /\ d \in Downloads
             /\ DOMAIN d = DOMAIN downloads \cup {Entry[w] : w \in DOMAIN downloads}
             /\ \A v \in DOMAIN d : d[v] = IF v \notin DOMAIN downloads THEN EmptyDownload
                                          ELSE IF Entry[v] = v
                                          THEN [downloads[v] EXCEPT !.state = "published"]
                                          ELSE downloads[v]
<1> DEFINE d == PublishedDownloads(downloads)
           S == DOMAIN downloads \cup {Entry[w] : w \in DOMAIN downloads}
<1>1. DOMAIN downloads \in SUBSET Variants /\ downloads \in [DOMAIN downloads -> Download]
  BY MapsOfDownloads
<1>2. S \in SUBSET Variants
  BY <1>1, EntriesAreNames
<1>3. /\ DOMAIN d = S
      /\ \A v \in S : d[v] = IF v \notin DOMAIN downloads THEN EmptyDownload
                             ELSE IF Entry[v] = v
                             THEN [downloads[v] EXCEPT !.state = "published"]
                             ELSE downloads[v]
  BY DEF PublishedDownloads
<1>4. ASSUME NEW v \in S
      PROVE  d[v] \in Download
  <2>1. EmptyDownload \in Download
    BY DEF EmptyDownload, Download, Links
  <2>2. ASSUME NEW x \in Download
        PROVE  [x EXCEPT !.state = "published"] \in Download
    BY DEF Download, DownloadState
  <2>3. v \in DOMAIN downloads => downloads[v] \in Download
    BY <1>1
  <2>4. v \in DOMAIN downloads => [downloads[v] EXCEPT !.state = "published"] \in Download
    BY <2>2, <2>3
  <2>5. QED
    BY <1>3, <2>1, <2>3, <2>4
<1>5. d = [v \in S |-> d[v]]
  BY DEF PublishedDownloads
<1>6. d \in [S -> Download]
  BY <1>4, <1>5
<1>7. d \in Downloads
  BY <1>2, <1>6, MapsOfDownloads
<1>8. QED
  BY <1>3, <1>7

LEMMA PublishKeeps ==
  ASSUME WorkflowInv, NEW id \in Images, Publish(id)
  PROVE  WorkflowInv'
<1> DEFINE old == images[id]
           d == PublishedDownloads(old.downloads)
           new == [old EXCEPT !.state = "published", !.downloads = d]
<1>1. /\ Exists(id) /\ old.state = "imported" /\ Becomes(id, new)
      /\ \A v \in DOMAIN old.downloads : Entry[v] # NoName
  BY DEF Publish, TransitionAllowed
<1>2. ImageOK(id, old) /\ old \in Image
  BY <1>1 DEF WorkflowInv, ImageOK
<1>3. old.downloads \in Downloads
  BY <1>2 DEF Image
<1>4. /\ d \in Downloads
      /\ DOMAIN d = DOMAIN old.downloads \cup {Entry[w] : w \in DOMAIN old.downloads}
      /\ \A v \in DOMAIN d : d[v] = IF v \notin DOMAIN old.downloads THEN EmptyDownload
                                   ELSE IF Entry[v] = v
                                   THEN [old.downloads[v] EXCEPT !.state = "published"]
                                   ELSE old.downloads[v]
  <2> HIDE DEF old
  <2>1. QED
    BY <1>1, <1>3, PublishedDownloadsAre
<1>5. \A v \in DOMAIN old.downloads : old.downloads[v] \in Download
  BY <1>3, MapsOfDownloads
<1>6. new \in Image /\ new.state = "published" /\ new.downloads = d /\ new.links = old.links
  <2> HIDE DEF d
  <2>1. QED
    BY <1>2, <1>4 DEF Image, State
<1>7. \A v \in Variants : <<id, v>> \notin publications
  BY <1>1, <1>2 DEF ImageOK, Announceable
<1>8. LinksOK(new)
  <2>1. old.links = "own" /\ \A v \in DOMAIN old.downloads : old.downloads[v].links = "own"
    BY <1>1, <1>2 DEF ImageOK, LinksOK, Announceable
  <2>2. ASSUME NEW v \in DOMAIN d, v \in DOMAIN old.downloads
        PROVE  d[v].links = "own"
    BY <1>4, <1>5, <2>1, <2>2 DEF Download
  <2>3. ASSUME NEW v \in DOMAIN d, v \notin DOMAIN old.downloads
        PROVE  d[v] = EmptyDownload /\ \E w \in DOMAIN d : w # v /\ Entry[w] = v
    BY <1>4, <2>3
  <2> HIDE DEF new, d, old
  <2>4. QED
    BY <1>6, <2>1, <2>2, <2>3 DEF LinksOK, Leftover, Announceable
<1>9. ImageOK(id, new)
  <2> HIDE DEF new, d
  <2>1. QED
    BY <1>1, <1>2, <1>6, <1>7, <1>8 DEF ImageOK
<1>10. QED
  BY <1>1, <1>9, BecomesKeeps

LEMMA AnnounceKeeps ==
  ASSUME WorkflowInv, NEW id \in Images, Announce(id)
  PROVE  WorkflowInv'
<1>1. images' = images
  BY DEF Announce, AnnounceUpload, LoseUpload, AnnouncePublication, LosePublication
<1>2. CASE AnnounceUpload(id)
  BY <1>2 DEF AnnounceUpload, WorkflowInv, WorkflowTypeOK, ImageOK, Exists
<1>3. CASE LoseUpload(id)
  BY <1>3 DEF LoseUpload, WorkflowInv, WorkflowTypeOK, ImageOK, Exists
<1>4. ASSUME NEW v \in Variants, AnnouncePublication(id, v)
      PROVE  WorkflowInv'
  BY <1>4 DEF AnnouncePublication, WorkflowInv, WorkflowTypeOK, ImageOK, Exists, Announceable
<1>5. ASSUME NEW v \in Variants, LosePublication(id, v)
      PROVE  WorkflowInv'
  BY <1>5 DEF LosePublication, WorkflowInv, WorkflowTypeOK, ImageOK, Exists
<1>6. QED
  BY <1>2, <1>3, <1>4, <1>5 DEF Announce

LEMMA WorkflowInvariance == Spec => []WorkflowInv
<1>1. Init => WorkflowInv
  BY DEF Init, WorkflowInv, WorkflowTypeOK, Exists
<1>2. WorkflowInv /\ [Next]_vars => WorkflowInv'
  <2> SUFFICES ASSUME WorkflowInv, [Next]_vars PROVE WorkflowInv'
    OBVIOUS
  <2>1. ASSUME NEW id \in Images, Change(id)
        PROVE  WorkflowInv'
    BY <2>1, CreateKeeps, SetStateKeeps, AddVariantKeeps, ReportVariantKeeps, PublishKeeps
       DEF Change
  <2>2. ASSUME NEW id \in Images, Announce(id)
        PROVE  WorkflowInv'
    BY <2>2, AnnounceKeeps
  <2>3. CASE UNCHANGED vars
    BY <2>3 DEF vars, WorkflowInv, WorkflowTypeOK, ImageOK, Exists
  <2>4. QED
    BY <2>1, <2>2, <2>3 DEF Next
<1>3. QED
  BY <1>1, <1>2, PTL DEF Spec

\* Only documents with known states are stored, only known variants announced.
THEOREM WorkflowType == Spec => []WorkflowTypeOK
<1>1. QED
  BY WorkflowInvariance, WorkflowInvImplies, PTL

\* Variants come after the upload, the upload after its announcement.
LEMMA AnnouncedFirst == Spec => []ImportsFollowAnnouncements
<1>1. QED
  BY WorkflowInvariance, WorkflowInvImplies, PTL

\* What is announced as published is, whatever clients do to the image.
THEOREM AnnouncedArePublished == Spec => []PublicationsAreTrue
<1>1. QED
  BY WorkflowInvariance, WorkflowInvImplies, PTL

\* No change of an image touches a link.
LEMMA LinksNeverChange == Spec => []LinksStay
<1>1. QED
  BY WorkflowInvariance, WorkflowInvImplies, PTL

----------------------------------------------------------------------------
(* The state of an image summarises its variants.                          *)

AllIn(image, states) == \A v \in DOMAIN image.downloads : image.downloads[v].state \in states
SomeIn(image, s) == \E v \in DOMAIN image.downloads : image.downloads[v].state = s

\* Summary without the set of states.
Summarised(image) ==
  /\ image.state = "importing" => SomeIn(image, "importing") /\ AllIn(image, {"importing", "imported"})
  /\ image.state = "imported" => SomeIn(image, "imported") /\ AllIn(image, {"imported"})
  /\ image.state = "published" => SomeIn(image, "published") /\ AllIn(image, {"published", "completed"})
  /\ image.state = "completed" => SomeIn(image, "completed") /\ AllIn(image, {"completed"})
  /\ image.state = "failed_import" => SomeIn(image, "failed")
  /\ image.state # "failed_publish"
  /\ image.error <=> SomeIn(image, "failed")

LEMMA SummaryIs ==
  ASSUME NEW image
  PROVE  Summary(image) <=> Summarised(image)
<1> DEFINE states == {image.downloads[v].state : v \in DOMAIN image.downloads}
<1>1. \A s : s \in states <=> SomeIn(image, s)
  BY DEF SomeIn
<1>2. \A S : states \subseteq S <=> AllIn(image, S)
  BY DEF AllIn
<1>3. \A s : states = {s} <=> SomeIn(image, s) /\ AllIn(image, {s})
  BY <1>1, <1>2
<1>4. QED
  <2> HIDE DEF states
  <2>1. Summary(image) <=>
          /\ image.state = "importing" =>
               "importing" \in states /\ states \subseteq {"importing", "imported"}
          /\ image.state = "imported" => states = {"imported"}
          /\ image.state = "published" =>
               "published" \in states /\ states \subseteq {"published", "completed"}
          /\ image.state = "completed" => states = {"completed"}
          /\ image.state = "failed_import" => "failed" \in states
          /\ image.state # "failed_publish"
          /\ image.error <=> "failed" \in states
    BY DEF Summary, states
  <2>2. QED
    BY <1>1, <1>2, <1>3, <2>1 DEF Summarised

AllSummarised == \A id \in Images : Exists(id) => Summarised(images[id])

LEMMA BecomesSummarised ==
  ASSUME WorkflowInv, AllSummarised, NEW id \in Images, NEW image,
         Becomes(id, image), Summarised(image)
  PROVE  AllSummarised'
<1>1. \A i \in Images : images'[i] = IF i = id THEN image ELSE images[i]
  BY DEF WorkflowInv, WorkflowTypeOK, Becomes
<1>2. QED
  BY <1>1 DEF AllSummarised, Exists

LEMMA SetStateSummarised ==
  ASSUME WorkflowInv, AllSummarised, ProtocolClients, NEW id \in Images, SetState(id)
  PROVE  AllSummarised'
<1>1. PICK s \in ClientStates, e \in ClientErrors :
        /\ Exists(id)
        /\ TransitionAllowed(images[id].state, s)
        /\ Becomes(id, [images[id] EXCEPT !.state = s, !.error = @ \/ e])
  BY DEF SetState
<1> DEFINE old == images[id]
           new == [old EXCEPT !.state = s, !.error = @ \/ e]
<1>2. s \in {"uploaded", "deleted"} /\ e = FALSE
  BY DEF ProtocolClients
<1>3. old \in Image /\ Summarised(old)
  BY <1>1 DEF WorkflowInv, ImageOK, AllSummarised
<1>4. new.state = s /\ new.downloads = old.downloads /\ (new.error <=> old.error)
  BY <1>2, <1>3 DEF Image
<1>5. Summarised(new)
  <2> HIDE DEF new
  <2>1. QED
    BY <1>2, <1>3, <1>4 DEF Summarised, SomeIn
<1>6. QED
  BY <1>1, <1>5, BecomesSummarised

LEMMA AddVariantSummarised ==
  ASSUME WorkflowInv, AllSummarised, NEW id \in Images, NEW v \in Variants,
         NEW t \in Types \cup {NoType}, AddVariant(id, v, t)
  PROVE  AllSummarised'
<1> DEFINE old == images[id]
           added == [state |-> "importing", type |-> t, links |-> "own"]
           d == SetDownload(old, v, added)
           new == [old EXCEPT !.state = "importing", !.downloads = d]
<1>1. /\ Exists(id) /\ old.state \in {"uploaded", "importing"}
      /\ v \notin DOMAIN old.downloads /\ Becomes(id, new)
  BY DEF AddVariant, MayAdd
<1>2. ImageOK(id, old) /\ old \in Image /\ Summarised(old)
  BY <1>1 DEF WorkflowInv, ImageOK, AllSummarised
<1>3. added \in Download
  BY DEF Download, DownloadState, Links
<1>4. /\ d \in Downloads /\ DOMAIN d = DOMAIN old.downloads \cup {v}
      /\ \A w \in DOMAIN d : d[w] = IF w = v THEN added ELSE old.downloads[w]
  <2> HIDE DEF added, old
  <2>1. QED
    BY <1>2, <1>3, SetDownloadIs
<1>5. new.state = "importing" /\ new.downloads = d /\ (new.error <=> old.error)
  BY <1>2 DEF Image
<1>6. \A w \in DOMAIN old.downloads : old.downloads[w].state \in {"importing", "imported"}
  BY <1>1, <1>2 DEF ImageOK, Summarised, AllIn
<1>7. d[v].state = "importing"
      /\ \A w \in DOMAIN d : d[w].state \in {"importing", "imported"}
  BY <1>1, <1>4, <1>6
<1>8. ~old.error
  BY <1>2, <1>6 DEF Summarised, SomeIn
<1>9. Summarised(new)
  <2> HIDE DEF new, d
  <2>1. QED
    BY <1>4, <1>5, <1>7, <1>8 DEF Summarised, SomeIn, AllIn
<1>10. QED
  BY <1>1, <1>9, BecomesSummarised

LEMMA PublishSummarised ==
  ASSUME WorkflowInv, AllSummarised, ProtocolClients, NEW id \in Images, Publish(id)
  PROVE  AllSummarised'
<1> DEFINE old == images[id]
           d == PublishedDownloads(old.downloads)
           new == [old EXCEPT !.state = "published", !.downloads = d]
<1>1. /\ Exists(id) /\ old.state = "imported" /\ Becomes(id, new)
      /\ \A v \in DOMAIN old.downloads : Entry[v] # NoName
  BY DEF Publish, TransitionAllowed
<1>2. old \in Image /\ Summarised(old)
  BY <1>1 DEF WorkflowInv, ImageOK, AllSummarised
<1>3. /\ DOMAIN old.downloads \in SUBSET Variants
      /\ old.downloads \in [DOMAIN old.downloads -> Download]
  BY <1>2, MapsOfDownloads DEF Image
<1>4. DOMAIN d = DOMAIN old.downloads /\ \A v \in DOMAIN d : d[v].state = "published"
  <2>1. \A v \in DOMAIN old.downloads : Entry[v] = v
    BY <1>3 DEF ProtocolClients, PlainNames
  <2>2. DOMAIN d = DOMAIN old.downloads
    BY <2>1 DEF PublishedDownloads
  <2>3. \A v \in DOMAIN d : d[v] = [old.downloads[v] EXCEPT !.state = "published"]
    BY <2>1, <2>2 DEF PublishedDownloads
  <2>4. QED
    BY <1>3, <2>2, <2>3 DEF Download
<1>5. new.state = "published" /\ new.downloads = d /\ (new.error <=> old.error)
  BY <1>2 DEF Image
<1>6. DOMAIN old.downloads # {} /\ ~old.error
  BY <1>1, <1>2 DEF Summarised, SomeIn, AllIn
<1>7. Summarised(new)
  <2> HIDE DEF new, d
  <2>1. QED
    BY <1>4, <1>5, <1>6 DEF Summarised, SomeIn, AllIn
<1>8. QED
  BY <1>1, <1>7, BecomesSummarised

\* The derived state, spelled out.
LEMMA UpdatedStateSays ==
  ASSUME NEW image
  PROVE  /\ image.state = "importing" /\ SomeIn(image, "failed") =>
              UpdatedState(image) = "failed_import"
         /\ image.state = "importing" /\ ~SomeIn(image, "failed") /\ SomeIn(image, "imported")
              /\ AllIn(image, {"imported"}) => UpdatedState(image) = "imported"
         /\ image.state = "importing" /\ ~SomeIn(image, "failed")
              /\ ~AllIn(image, {"imported"}) => UpdatedState(image) = "importing"
         /\ image.state = "published" /\ ~SomeIn(image, "failed") /\ SomeIn(image, "completed")
              /\ AllIn(image, {"completed"}) => UpdatedState(image) = "completed"
         /\ image.state = "published" /\ ~SomeIn(image, "failed")
              /\ ~AllIn(image, {"completed"}) => UpdatedState(image) = "published"
         /\ image.state \notin {"importing", "published"} => UpdatedState(image) = image.state
BY DEF UpdatedState, AllDownloadsOfState, AnyDownloadsOfState, SomeIn, AllIn

LEMMA ReportVariantSummarised ==
  ASSUME WorkflowInv, AllSummarised, ProtocolClients, NEW id \in Images, NEW v \in Variants,
         NEW s \in Reports, NEW t \in Types \cup {NoType}, ReportVariant(id, v, s, t)
  PROVE  AllSummarised'
<1> DEFINE old == images[id]
           reported == [state |-> s, type |-> t, links |-> old.downloads[v].links]
           d == SetDownload(old, v, reported)
           seen == [old EXCEPT !.downloads = d]
           new == [seen EXCEPT !.state = UpdatedState(seen), !.error = @ \/ s = "failed"]
<1>1. /\ Exists(id) /\ v \in DOMAIN old.downloads /\ old.state \in Hosts(s)
      /\ DownloadTransitionAllowed(old.downloads[v].state, s)
      /\ Becomes(id, new)
  <2>1. /\ Exists(id) /\ v \in DOMAIN old.downloads /\ old.state \in Hosts(s)
        /\ DownloadStateTransitionAllowed(old.downloads[v], s)
        /\ Becomes(id, new)
    BY DEF ReportVariant, MayReport
  <2>2. old.downloads[v].state \in DownloadState
    <3>1. SUFFICES ASSUME old.downloads[v].state \notin DownloadState PROVE FALSE
      OBVIOUS
    <3>2. old.state \in {"uploaded", "importing"}
      BY <2>1, <3>1, AcceptedReport DEF Hosts
    <3>3. ImageOK(id, old) /\ Summarised(old)
      BY <2>1 DEF WorkflowInv, AllSummarised
    <3>4. QED
      BY <2>1, <3>1, <3>2, <3>3 DEF ImageOK, Summarised, AllIn, DownloadState
  <2>3. QED
    BY <2>1, <2>2, AcceptedReport
<1>2. ImageOK(id, old) /\ old \in Image /\ Summarised(old)
  BY <1>1 DEF WorkflowInv, ImageOK, AllSummarised
<1>3. s \in {"importing", "imported", "failed", "completed"}
  BY DEF ProtocolClients
<1>4. /\ DOMAIN d = DOMAIN old.downloads
      /\ \A w \in DOMAIN d : d[w].state = IF w = v THEN s ELSE old.downloads[w].state
  BY <1>1 DEF SetDownload
<1>5. seen.state = old.state /\ seen.downloads = d /\ (seen.error <=> old.error)
  BY <1>2 DEF Image
<1>6. /\ new.state = UpdatedState(seen) /\ new.downloads = d
      /\ (new.error <=> (old.error \/ s = "failed"))
  <2> HIDE DEF d
  <2>1. seen \in [state : State, error : BOOLEAN, links : Links, downloads : {d}]
    BY <1>2 DEF Image
  <2>2. QED
    <3> HIDE DEF seen
    <3>1. QED
      BY <1>5, <2>1
<1>7. old.downloads[v].state # "failed"
  BY <1>1 DEF DownloadTransitionAllowed
<1>8. SomeIn(new, "failed") <=> SomeIn(old, "failed") \/ s = "failed"
  <2> HIDE DEF new, d
  <2>1. QED
    BY <1>1, <1>4, <1>6, <1>7 DEF SomeIn
<1>9. \A x, X : /\ SomeIn(seen, x) <=> SomeIn(new, x)
                /\ AllIn(seen, X) <=> AllIn(new, X)
  <2> HIDE DEF new, seen, d
  <2>1. QED
    BY <1>5, <1>6 DEF SomeIn, AllIn
<1>10. CASE old.state = "importing"
  <2>1. AllIn(old, {"importing", "imported"}) /\ ~SomeIn(old, "failed")
    BY <1>2, <1>10 DEF Summarised, AllIn, SomeIn
  <2>2. s \in {"imported", "failed"}
    BY <1>1, <1>3, <2>1 DEF AllIn, DownloadTransitionAllowed
  <2>3. CASE s = "failed"
    <3>1. new.state = "failed_import" /\ SomeIn(new, "failed")
      BY <1>5, <1>6, <1>8, <1>9, <1>10, <2>3, UpdatedStateSays
    <3>2. Summarised(new)
      BY <1>6, <2>3, <3>1 DEF Summarised
    <3>3. QED
      BY <1>1, <3>2, BecomesSummarised
  <2>4. CASE s = "imported"
    <3>1. AllIn(new, {"importing", "imported"}) /\ SomeIn(new, "imported")
          /\ ~SomeIn(new, "failed")
      <4> HIDE DEF new, d
      <4>1. QED
        BY <1>1, <1>4, <1>6, <1>8, <2>1, <2>4 DEF AllIn, SomeIn
    <3>2. new.state = IF AllIn(new, {"imported"}) THEN "imported" ELSE "importing"
      BY <1>5, <1>6, <1>9, <1>10, <3>1, UpdatedStateSays
    <3>3. ~AllIn(new, {"imported"}) => SomeIn(new, "importing")
      BY <3>1 DEF AllIn, SomeIn
    <3>4. ~new.error
      BY <1>2, <1>6, <2>1, <2>4 DEF Summarised
    <3>5. Summarised(new)
      <4> HIDE DEF new
      <4>1. QED
        BY <3>1, <3>2, <3>3, <3>4 DEF Summarised
    <3>6. QED
      BY <1>1, <3>5, BecomesSummarised
  <2>5. QED
    BY <2>2, <2>3, <2>4
<1>11. CASE old.state = "published"
  <2>1. AllIn(old, {"published", "completed"}) /\ ~SomeIn(old, "failed")
    BY <1>2, <1>11 DEF Summarised, AllIn, SomeIn
  <2>2. s = "completed"
    BY <1>1, <1>3, <2>1 DEF AllIn, DownloadTransitionAllowed
  <2>3. AllIn(new, {"published", "completed"}) /\ SomeIn(new, "completed")
        /\ ~SomeIn(new, "failed")
    <3> HIDE DEF new, d
    <3>1. QED
      BY <1>1, <1>4, <1>6, <1>8, <2>1, <2>2 DEF AllIn, SomeIn
  <2>4. new.state = IF AllIn(new, {"completed"}) THEN "completed" ELSE "published"
    BY <1>5, <1>6, <1>9, <1>11, <2>3, UpdatedStateSays
  <2>5. ~AllIn(new, {"completed"}) => SomeIn(new, "published")
    BY <2>3 DEF AllIn, SomeIn
  <2>6. ~new.error
    BY <1>2, <1>6, <2>1, <2>2 DEF Summarised
  <2>7. Summarised(new)
    <3> HIDE DEF new
    <3>1. QED
      BY <2>3, <2>4, <2>5, <2>6 DEF Summarised
  <2>8. QED
    BY <1>1, <2>7, BecomesSummarised
<1>12. CASE old.state \notin {"importing", "published"}
  <2>1. new.state = old.state
    BY <1>5, <1>6, <1>12, UpdatedStateSays
  <2>2. old.state \notin {"created", "uploaded", "imported", "completed"}
    BY <1>1, <1>2, <1>3 DEF ImageOK, Summarised, AllIn, DownloadTransitionAllowed
  <2>3. SomeIn(old, "failed") => SomeIn(new, "failed")
    BY <1>8
  <2>4. new.error <=> SomeIn(new, "failed")
    BY <1>2, <1>6, <1>8 DEF Summarised
  <2>5. Summarised(new)
    <3> HIDE DEF new
    <3>1. QED
      BY <1>2, <1>12, <2>1, <2>2, <2>3, <2>4 DEF Summarised
  <2>6. QED
    BY <1>1, <2>5, BecomesSummarised
<1>13. QED
  BY <1>10, <1>11, <1>12

LEMMA CreateSummarised ==
  ASSUME WorkflowInv, AllSummarised, NEW id \in Images, Create(id)
  PROVE  AllSummarised'
<1> DEFINE new == [state |-> "created", error |-> FALSE, links |-> "own", downloads |-> NoDownloads]
<1>1. Summarised(new)
  BY NoDownloadsIsEmpty DEF Summarised, SomeIn
<1>2. QED
  BY <1>1, BecomesSummarised DEF Create

\* With clients that keep to the protocol, the state of an image says where its
\* variants are, and its error that one of them has failed, at every moment and
\* for any number of variants, in whatever order they are reported.
THEOREM StatesAlwaysSummarise == Spec => []StatesSummarise
<1>1. Init => AllSummarised
  BY DEF Init, AllSummarised, Exists
<1>2. ProtocolClients /\ WorkflowInv /\ AllSummarised /\ [Next]_vars => AllSummarised'
  <2> SUFFICES ASSUME ProtocolClients, WorkflowInv, AllSummarised, [Next]_vars
               PROVE  AllSummarised'
    OBVIOUS
  <2>1. ASSUME NEW id \in Images, Change(id)
        PROVE  AllSummarised'
    BY <2>1, CreateSummarised, SetStateSummarised, AddVariantSummarised, ReportVariantSummarised,
       PublishSummarised DEF Change
  <2>2. ASSUME images' = images
        PROVE  AllSummarised'
    BY <2>2 DEF AllSummarised, Exists
  <2>3. QED
    BY <2>1, <2>2 DEF Next, Announce, AnnounceUpload, LoseUpload, AnnouncePublication,
                      LosePublication, vars
<1>3. AllSummarised => \A id \in Images : Exists(id) => Summary(images[id])
  BY SummaryIs DEF AllSummarised
<1>4. CASE ProtocolClients
  <2>1. AllSummarised => StatesSummarise
    BY <1>3 DEF StatesSummarise
  <2>2. WorkflowInv /\ AllSummarised /\ [Next]_vars => AllSummarised'
    BY <1>2, <1>4
  <2>3. QED
    BY <1>1, <2>1, <2>2, WorkflowInvariance, PTL DEF Spec
<1>5. CASE ~ProtocolClients
  <2>1. StatesSummarise
    BY <1>5 DEF StatesSummarise
  <2>2. QED
    BY <2>1, PTL
<1>6. QED
  BY <1>4, <1>5
=============================================================================
