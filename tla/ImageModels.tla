---------------------------- MODULE ImageModels ----------------------------
(***************************************************************************)
(* The image and download models (package models): their states, the       *)
(* transitions each state machine allows, the validations run on a request *)
(* body and on the document it is applied to, and the rule that derives    *)
(* the state of an image from the states of its downloads.                 *)
(*                                                                         *)
(* An image is kept to what the handlers decide on: its state, whether its *)
(* error text is non-empty, whose links it carries, and the map from       *)
(* variant to download.  Of a download, the state, the type and the links  *)
(* are kept.  A Go map is a function whose domain is the set of keys       *)
(* present, and a Go error is the name of the variable of package          *)
(* apierrors that holds it.                                                *)
(*                                                                         *)
(* A name with a dot matters where it is made part of a Mongo path: there  *)
(* "a.b" is the field b of the entry a.  Entry[v] is the entry that the    *)
(* path downloads.<v>.<field> leads to: v itself for a plain name, the     *)
(* part before the first dot for another one.                              *)
(***************************************************************************)

CONSTANTS
  Variants,   \* names of the download variants
  NoName,     \* the empty name, which a body that leaves the id out gives
  Entry,      \* where the path of each name leads, NoName if a part is empty
  Types       \* download types a client may declare ("png", ...)

\* The empty type string: a type the body or the document leaves out.
NoType == ""

ASSUME TypesAreNonEmpty == NoType \notin Types

ASSUME EntriesAreNames ==
  /\ Entry \in [Variants -> Variants \cup {NoName}]
  /\ \A v \in Variants : Entry[v] # NoName => Entry[Entry[v]] = Entry[v]
  /\ NoName \in Variants => Entry[NoName] = NoName

\* Clients that put no dot into the name of a variant.
PlainNames == \A v \in Variants : Entry[v] = v

State == {"created", "uploaded", "importing", "imported", "published",
          "completed", "deleted", "failed_import", "failed_publish"}

DownloadState == {"pending", "importing", "imported", "published",
                  "completed", "failed"}

\* What a state field of a request body may hold: a valid name, nothing, or a
\* string that ParseState and ParseDownloadState refuse.
StateField == State \cup {"", "unknown"}
DownloadStateField == DownloadState \cup {"", "unknown"}

\* A Links field: nil, built by the API, or taken from a request body.
Links == {"none", "own", "foreign"}

Download == [state : DownloadState \cup {""}, type : Types \cup {NoType}, links : Links]

Downloads == UNION {[S -> Download] : S \in SUBSET Variants}

Image == [state : State, error : BOOLEAN, links : Links, downloads : Downloads]

NoDownloads == [v \in {} |-> v]

\* The zero Download.
EmptyDownload == [state |-> "", type |-> NoType, links |-> "none"]

\* Whether v is no variant anybody has created but the entry that a write by
\* path has made for a name with a dot.
Leftover(image, v) ==
  /\ image.downloads[v] = EmptyDownload
  /\ \E w \in DOMAIN image.downloads : w # v /\ Entry[w] = v

----------------------------------------------------------------------------
(* The two state machines.                                                 *)

TransitionAllowed(current, target) ==
  \/ current = "created"   /\ target \in {"uploaded", "deleted"}
  \/ current = "uploaded"  /\ target \in {"importing", "failed_import", "deleted"}
  \/ current = "importing" /\ target \in {"imported", "failed_import", "deleted"}
  \/ current = "imported"  /\ target \in {"published", "deleted"}
  \/ current = "published" /\ target \in {"completed", "failed_publish", "deleted"}
  \/ current \in {"completed", "failed_import", "failed_publish"} /\ target = "deleted"

DownloadTransitionAllowed(current, target) ==
  \/ current = "pending"   /\ target = "importing"
  \/ current = "importing" /\ target \in {"imported", "failed"}
  \/ current = "imported"  /\ target = "published"
  \/ current = "published" /\ target = "completed"

\* Mutant: an image may be published while importing.
PublishingEarlyIsAllowed(image, target) ==
  target \in State /\ \/ image.state = "importing" /\ target = "published"
                      \/ TransitionAllowed(image.state, target)

\* A stored state that does not parse counts as the initial one; a target that
\* does not parse is never allowed.
StateTransitionAllowed(image, target) ==
  LET current == IF image.state \in State THEN image.state ELSE "created"
  IN  target \in State /\ TransitionAllowed(current, target)

DownloadStateTransitionAllowed(download, target) ==
  LET current == IF download.state \in DownloadState THEN download.state ELSE "pending"
  IN  target \in DownloadState /\ DownloadTransitionAllowed(current, target)

----------------------------------------------------------------------------
(* The state of an image as a function of its downloads.                   *)

\* Mutant: one download in the state is taken for all of them.
OneDownloadOfStateSuffices(image, s) ==
  \E v \in DOMAIN image.downloads : image.downloads[v].state = s

AllDownloadsOfState(image, s) ==
  /\ DOMAIN image.downloads # {}
  /\ \A v \in DOMAIN image.downloads : image.downloads[v].state = s

AnyDownloadsOfState(image, s) ==
  \E v \in DOMAIN image.downloads : image.downloads[v].state = s

UpdatedState(image) ==
  CASE image.state = "importing" /\ AnyDownloadsOfState(image, "failed") -> "failed_import"
    [] image.state = "importing" /\ AllDownloadsOfState(image, "imported") -> "imported"
    [] image.state = "published" /\ AnyDownloadsOfState(image, "failed") -> "failed_publish"
    [] image.state = "published" /\ AllDownloadsOfState(image, "completed") -> "completed"
    [] OTHER -> image.state

----------------------------------------------------------------------------
(* Validation, the checks in the order the code makes them.  The upload    *)
(* section of a body is absent, present with an empty path, or complete.   *)

UploadSection == {"absent", "no_path", "complete"}

\* The nil error, a check that refuses with an error, and checks made in turn:
\* the first one that refuses decides.
NoError == ""
Refuse(condition, error) == IF condition THEN error ELSE NoError
first ?? second == IF first # NoError THEN first ELSE second

ValidateUpload(upload) ==
  Refuse(upload = "absent", "ErrImageUploadEmpty")
  ?? Refuse(upload = "no_path", "ErrImageUploadPathEmpty")

Validate(image) ==
  Refuse(image.longFilename, "ErrImageFilenameTooLong")
  ?? Refuse(image.state \notin State, "ErrImageInvalidState")
  ?? (IF image.state = "uploaded" THEN ValidateUpload(image.upload) ELSE NoError)

\* Mutant: a completed image is not protected.
ValidateTransitionByTable(image, existing) ==
  Refuse(image.state # "" /\ ~StateTransitionAllowed(existing, image.state),
         "ErrImageStateTransitionNotAllowed")

ValidateTransitionFrom(image, existing) ==
  Refuse(image.state # "" /\ ~StateTransitionAllowed(existing, image.state),
         "ErrImageStateTransitionNotAllowed")
  ?? Refuse(existing.state = "completed", "ErrImageAlreadyCompleted")

ValidateDownload(download) ==
  Refuse(download.state # "" /\ download.state \notin DownloadState,
         "ErrImageDownloadInvalidState")

ValidateDownloadTransitionFrom(download, existing) ==
  Refuse(~DownloadStateTransitionAllowed(existing, download.state),
         "ErrVariantStateTransitionNotAllowed")
  ?? Refuse(NoType \notin {download.type, existing.type} /\ download.type # existing.type,
            "ErrImageDownloadTypeMismatch")

ValidateForImage(download, image) ==
  Refuse(/\ download.state = "importing"
         /\ image.state \notin {"uploaded", "importing"}, "ErrImageNotImporting")
  ?? Refuse(download.state = "imported" /\ image.state # "importing", "ErrImageNotImporting")
  ?? Refuse(download.state = "completed" /\ image.state = "completed", "ErrImageAlreadyCompleted")
  ?? Refuse(download.state = "completed" /\ image.state # "published", "ErrImageNotPublished")
=============================================================================
