---------------------------- MODULE ImageWorkflow ----------------------------
(***************************************************************************)
(* What the Image API promises to the rest of the system, without locks,   *)
(* requests, producers or failures: a table of images in which every       *)
(* change is one atomic step taken from the image as it is, and the sets   *)
(* of uploads and publications that have been announced.  The handlers of  *)
(* ImageAPI implement it (ImageRefinement).                                *)
(*                                                                         *)
(* An image is uploaded only after its upload was announced, a variant is  *)
(* announced as published only after its image was.                        *)
(***************************************************************************)
EXTENDS ImageModels

CONSTANTS
  Images,         \* image identifiers
  NoImage,        \* no image with this identifier
  ClientStates,   \* states clients ask for an image by PUT
  ClientErrors,   \* whether such a request carries an error text
  Reports,        \* states clients report for a variant
  Lossy           \* whether an announcement may be lost

ASSUME NoImageIsNotAnImage == NoImage \notin Image

ASSUME RequestsAreRequests ==
  /\ ClientStates \subseteq StateField
  /\ ClientErrors \subseteq BOOLEAN
  /\ Reports \subseteq DownloadStateField
  /\ Lossy \in BOOLEAN

VARIABLES
  images,         \* the table of images
  uploads,        \* the images whose upload has been announced
  publications    \* the variants whose publication has been announced

vars == <<images, uploads, publications>>

Init ==
  /\ images = [id \in Images |-> NoImage]
  /\ uploads = {}
  /\ publications = {}

----------------------------------------------------------------------------
(* The changes of an image.                                                *)

Exists(id) == images[id] # NoImage

Becomes(id, image) ==
  /\ images' = [images EXCEPT ![id] = image]
  /\ UNCHANGED <<uploads, publications>>

Create(id) ==
  /\ ~Exists(id)
  /\ Becomes(id, [state |-> "created", error |-> FALSE, links |-> "own", downloads |-> NoDownloads])

SetState(id) == \E s \in ClientStates, e \in ClientErrors :
  /\ Exists(id)
  /\ TransitionAllowed(images[id].state, s) /\ images[id].state # "completed"
  /\ s = "uploaded" => Lossy \/ id \in uploads
  /\ Becomes(id, [images[id] EXCEPT !.state = s, !.error = @ \/ e])

\* The map of downloads with one of them set.
SetDownload(image, v, download) ==
  [w \in DOMAIN image.downloads \cup {v} |-> IF w = v THEN download ELSE image.downloads[w]]

MayAdd(id, v) ==
  /\ Exists(id)
  /\ images[id].state \in {"uploaded", "importing"}
  /\ v \notin DOMAIN images[id].downloads

AddVariant(id, v, t) ==
  /\ MayAdd(id, v)
  /\ LET new == [state |-> "importing", type |-> t, links |-> "own"]
     IN  Becomes(id, [images[id] EXCEPT !.state = "importing",
                                        !.downloads = SetDownload(images[id], v, new)])

\* The states an image may be in for a variant of it to come to a state.
Hosts(s) == CASE s = "importing" -> {"uploaded", "importing"}
              [] s = "imported"  -> {"importing"}
              [] s = "completed" -> {"published"}
              [] OTHER           -> State

MayReport(id, v, s) ==
  /\ Exists(id)
  /\ v \in DOMAIN images[id].downloads
  /\ images[id].state \in Hosts(s)
  /\ DownloadStateTransitionAllowed(images[id].downloads[v], s)

\* Mutant: the image takes the state of the report.
ReportStateOnly(id, v, s, t) ==
  /\ MayReport(id, v, s)
  /\ LET new == [state |-> s, type |-> t, links |-> images[id].downloads[v].links]
     IN  Becomes(id, [images[id] EXCEPT !.state = s, !.downloads = SetDownload(images[id], v, new)])

\* The image takes the state its variants have then.
ReportVariant(id, v, s, t) ==
  /\ MayReport(id, v, s)
  /\ LET old == images[id].downloads[v]
         new == [images[id] EXCEPT !.downloads =
                   SetDownload(images[id], v, [state |-> s, type |-> t, links |-> old.links])]
     IN  Becomes(id, [new EXCEPT !.state = UpdatedState(new), !.error = @ \/ s = "failed"])

\* Every variant with a plain name is published.  One with a dot in its name
\* stays as it is, and leaves an empty entry.
PublishedDownloads(downloads) ==
  [v \in DOMAIN downloads \cup {Entry[w] : w \in DOMAIN downloads} |->
     IF v \notin DOMAIN downloads THEN EmptyDownload
     ELSE IF Entry[v] = v THEN [downloads[v] EXCEPT !.state = "published"]
     ELSE downloads[v]]

Publish(id) ==
  /\ Exists(id)
  /\ TransitionAllowed(images[id].state, "published")
  /\ \A v \in DOMAIN images[id].downloads : Entry[v] # NoName
  /\ Becomes(id, [images[id] EXCEPT !.state = "published",
                                    !.downloads = PublishedDownloads(@)])

----------------------------------------------------------------------------
(* The announcements.                                                      *)

AnnounceUpload(id) ==
  /\ Exists(id) /\ images[id].state = "created"
  /\ uploads' = uploads \cup {id}
  /\ UNCHANGED <<images, publications>>

\* Mutant: publications are announced before the image is published.
AnnounceEarly(id, v) ==
  /\ Exists(id) /\ images[id].state \in {"imported", "published"}
  /\ v \in DOMAIN images[id].downloads
  /\ publications' = publications \cup {<<id, v>>}
  /\ UNCHANGED <<images, uploads>>

AnnouncePublication(id, v) ==
  /\ Exists(id) /\ images[id].state = "published"
  /\ v \in DOMAIN images[id].downloads
  /\ Entry[v] = v => images[id].downloads[v].state \in {"published", "completed"}
  /\ publications' = publications \cup {<<id, v>>}
  /\ UNCHANGED <<images, uploads>>

LoseUpload(id) ==
  /\ Lossy
  /\ uploads' = uploads \ {id}
  /\ UNCHANGED <<images, publications>>

LosePublication(id, v) ==
  /\ Lossy
  /\ publications' = publications \ {<<id, v>>}
  /\ UNCHANGED <<images, uploads>>

Change(id) ==
  \/ Create(id) \/ SetState(id) \/ Publish(id)
  \/ \E v \in Variants, t \in Types \cup {NoType} :
       \/ AddVariant(id, v, t)
       \/ \E s \in Reports : ReportVariant(id, v, s, t)

Announce(id) ==
  \/ AnnounceUpload(id) \/ LoseUpload(id)
  \/ \E v \in Variants : AnnouncePublication(id, v) \/ LosePublication(id, v)

Next == \E id \in Images : Change(id) \/ Announce(id)

Spec == Init /\ [][Next]_vars

----------------------------------------------------------------------------
(* What the promise implies.                                               *)

WorkflowTypeOK ==
  /\ images \in [Images -> Image \cup {NoImage}]
  /\ uploads \subseteq Images
  /\ publications \subseteq Images \X Variants

\* Nobody gets to import an image that was not announced: variants come after
\* the upload, the upload after its announcement, unless that one was lost.
ImportsFollowAnnouncements ==
  \A id \in Images : Exists(id) =>
    /\ images[id].state \in {"created", "uploaded"} => DOMAIN images[id].downloads = {}
    /\ images[id].state \notin {"created", "deleted"} => Lossy \/ id \in uploads

\* Whoever is told of a publication finds the image and the variant published,
\* unless the name of the variant has a dot.
PublicationsAreTrue ==
  \A id \in Images, v \in Variants : <<id, v>> \in publications =>
    /\ Exists(id)
    /\ images[id].state \in {"published", "completed", "failed_publish", "deleted"}
    /\ v \in DOMAIN images[id].downloads
    /\ Entry[v] = v => images[id].downloads[v].state \in {"published", "completed"}

\* Nobody changes a link, and no report reaches what publishing has left over.
LinksStay ==
  \A id \in Images : Exists(id) =>
    /\ images[id].links = "own"
    /\ \A v \in DOMAIN images[id].downloads :
         \/ images[id].downloads[v].links = "own"
         \/ /\ Leftover(images[id], v)
            /\ images[id].state \in {"published", "completed", "failed_publish", "deleted"}

\* Clients that leave the states of an image past "uploaded" to its variants, and
\* name these without dots.
ProtocolClients ==
  /\ PlainNames
  /\ ClientStates \subseteq {"uploaded", "deleted"}
  /\ ClientErrors \subseteq {FALSE}
  /\ Reports \subseteq {"importing", "imported", "failed", "completed"}

\* The state of an image says where its variants are.
Summary(image) ==
  LET states == {image.downloads[v].state : v \in DOMAIN image.downloads}
  IN  /\ image.state = "importing" =>
           "importing" \in states /\ states \subseteq {"importing", "imported"}
      /\ image.state = "imported" => states = {"imported"}
      /\ image.state = "published" =>
           "published" \in states /\ states \subseteq {"published", "completed"}
      /\ image.state = "completed" => states = {"completed"}
      /\ image.state = "failed_import" => "failed" \in states
      /\ image.state # "failed_publish"
      /\ image.error <=> "failed" \in states

\* With those clients, it does at every moment, whichever variant reports first.
StatesSummarise ==
  ProtocolClients => \A id \in Images : Exists(id) => Summary(images[id])
=============================================================================
