----------------------------- MODULE ImageReads -----------------------------
(***************************************************************************)
(* The handlers that only read (package api, in both modes), next to those *)
(* of ImageAPI that write.  None of them takes a lock.  A GET of an image, *)
(* of its downloads or of one download reads one whole document, so what   *)
(* it answers was stored at one moment; a list is fetched from the         *)
(* database document by document.                                          *)
(*                                                                         *)
(* With URL rewriting on, a handler rewrites the links of what it read     *)
(* before it answers.  What it does there depends on what the handlers     *)
(* that write have left in the links, and on nothing else.                 *)
(***************************************************************************)
EXTENDS ImageAPI

CONSTANTS
  Readers,              \* clients, each with one GET at a time
  EnableURLRewriting,   \* the configuration of the instances
  Unparsable            \* the variants whose name makes a link that is no URL

ASSUME RewritingIsASwitch == EnableURLRewriting \in BOOLEAN

ASSUME UnparsableAreVariants == Unparsable \subseteq Variants

VARIABLES
  cursor,    \* the documents the list of each reader has still to fetch
  seen,      \* the state of each image each reader has seen last
  outcome    \* which was the last GET of each reader, how it ended, whose links
             \* it rewrote, and the variants of the image it read

readerVars == <<cursor, seen, outcome>>
allVars    == <<vars, readerVars>>

Op == {"getImages", "getImage", "getDownloads", "getDownload"}

\* 200, 404, 500 because of the store or of a link, and no answer at all, when
\* the handler dereferences nil.
Ending == {"ok", "notFound", "storeError", "linkError", "panic"}

Outcome == [op : Op, ending : Ending, wanted : SUBSET Variants, stored : SUBSET Variants]

NothingRead == [op |-> "none", ending |-> "ok", wanted |-> {}, stored |-> {}]

ReadsInit ==
  /\ Init
  /\ cursor = [c \in Readers |-> {}]
  /\ seen = [c \in Readers |-> [id \in Images |-> "none"]]
  /\ outcome = [c \in Readers |-> NothingRead]

----------------------------------------------------------------------------
(* Rewriting.                                                              *)

\* BuildLink fails on a link that is no URL, which the name of a variant in it
\* can make of the API's own, and a client may send anything.
BuildLinkFails(links, names) == links = "foreign" \/ names \cap Unparsable # {}

\* rewriteImageLinks skips an image without links.
RewriteImageLinks(image) ==
  IF EnableURLRewriting /\ image.links # "none" /\ BuildLinkFails(image.links, {})
  THEN "linkError" ELSE "ok"

\* rewriteDownloadLinks does not.
RewriteDownloadLinks(links, v) ==
  IF links = "none" THEN "panic"
  ELSE IF BuildLinkFails(links, {v}) THEN "linkError" ELSE "ok"

\* The links of an entry of the map, and of the zero value for an absent one.
LinksOf(image, v) ==
  IF v \in DOMAIN image.downloads THEN image.downloads[v].links ELSE "none"

\* Which of the downloads that cannot be rewritten ends GetDownloadsHandler
\* depends on the order in which Go ranges over the map.
GetDownloadsEndings(image) ==
  LET failures == IF ~EnableURLRewriting THEN {}
                  ELSE {RewriteDownloadLinks(LinksOf(image, v), v) : v \in DOMAIN image.downloads}
                         \ {"ok"}
  IN  IF failures = {} THEN {"ok"} ELSE failures

\* GetDownloadHandler rewrites first and then looks whether the variant exists.
GetDownloadEnding(image, v) ==
  LET rewritten == IF EnableURLRewriting THEN RewriteDownloadLinks(LinksOf(image, v), v) ELSE "ok"
  IN  CASE rewritten # "ok"                 -> rewritten
        [] v \notin DOMAIN image.downloads -> "notFound"
        [] OTHER                            -> "ok"

----------------------------------------------------------------------------
(* The handlers.  A reader waits for an answer before its next request.    *)

Ready(c) == cursor[c] = {}

EndOf(c, op, ending, wanted, stored) ==
  outcome' = [outcome EXCEPT ![c] = [op |-> op, ending |-> ending,
                                     wanted |-> wanted, stored |-> stored]]

\* The end of a GET that is not about variants.
End(c, op, ending) == EndOf(c, op, ending, {}, {})

\* What every handler answers when the store does.
Absent(c, op, id) ==
  /\ images[id] = NoImage
  /\ End(c, op, "notFound")
  /\ UNCHANGED <<cursor, seen>>

GetImageHandler(c) == \E id \in Images :
  /\ Ready(c)
  /\ \/ Absent(c, "getImage", id)
     \/ /\ images[id] # NoImage
        /\ End(c, "getImage", RewriteImageLinks(images[id]))
        /\ seen' = [seen EXCEPT ![c][id] = images[id].state]
        /\ UNCHANGED cursor

GetDownloadsHandler(c) == \E id \in Images :
  /\ Ready(c)
  /\ \/ Absent(c, "getDownloads", id)
     \/ /\ images[id] # NoImage
        /\ LET stored == DOMAIN images[id].downloads
           IN  \E ending \in GetDownloadsEndings(images[id]) :
                 EndOf(c, "getDownloads", ending, stored, stored)
        /\ UNCHANGED <<cursor, seen>>

\* The route of a variant needs a name.
GetDownloadHandler(c) == \E id \in Images, v \in Variants \ {NoName} :
  /\ Ready(c)
  /\ \/ Absent(c, "getDownload", id)
     \/ /\ images[id] # NoImage
        /\ EndOf(c, "getDownload", GetDownloadEnding(images[id], v), {v}, DOMAIN images[id].downloads)
        /\ UNCHANGED <<cursor, seen>>

\* The images of one collection, or all.
GetImagesHandler(c) == \E wanted \in SUBSET Images \ {{}} :
  /\ Ready(c)
  /\ cursor' = [cursor EXCEPT ![c] = wanted]
  /\ UNCHANGED <<seen, outcome>>

\* GetImages: the Find fetches the next document, if there is one of this
\* identifier, and the last one ends the request.
Fetch(c) == \E id \in cursor[c] :
  LET ending == IF images[id] = NoImage THEN "ok" ELSE RewriteImageLinks(images[id])
      left   == IF ending = "ok" THEN cursor[c] \ {id} ELSE {}
  IN  /\ cursor' = [cursor EXCEPT ![c] = left]
      /\ seen' = IF images[id] = NoImage THEN seen
                 ELSE [seen EXCEPT ![c][id] = images[id].state]
      /\ IF left = {} THEN End(c, "getImages", ending) ELSE UNCHANGED outcome

\* The store returns an error.
ReadFails(c) == \E op \in Op :
  /\ "mongo" \in Faults
  /\ Ready(c) <=> op # "getImages"
  /\ End(c, op, "storeError")
  /\ cursor' = [cursor EXCEPT ![c] = {}]
  /\ UNCHANGED seen

Read(c) ==
  \/ GetImageHandler(c) \/ GetDownloadsHandler(c) \/ GetDownloadHandler(c)
  \/ GetImagesHandler(c) \/ Fetch(c) \/ ReadFails(c)

ReadsNext ==
  \/ Next /\ UNCHANGED readerVars
  \/ \E c \in Readers : Read(c) /\ UNCHANGED vars

ReadsSpec == ReadsInit /\ [][ReadsNext]_allVars

----------------------------------------------------------------------------
(* Properties.                                                             *)

ReadsTypeOK ==
  /\ cursor \in [Readers -> SUBSET Images]
  /\ seen \in [Readers -> [Images -> State \cup {"none"}]]
  /\ outcome \in [Readers -> Outcome \cup {NothingRead}]

\* Whatever bodies clients have sent, and whatever order the writes came in, a
\* GET goes down on what is stored only if it wants a variant that is not there
\* or the image has one with a dot in its name, and it answers 500 only for a
\* failing store or when the name of a variant it wants makes no URL: never
\* because of what another handler has left in the links.
ReadsAreServed ==
  \A c \in Readers :
    LET read == outcome[c]
    IN  /\ read.ending = "panic" =>
             ~(read.wanted \subseteq read.stored) \/ \E v \in read.stored : Entry[v] # v
        /\ read.ending = "linkError" => read.wanted \cap Unparsable # {}

\* The states that follow each state, at any distance.
Later == [created       |-> State,
          uploaded      |-> State \ {"created"},
          importing     |-> State \ {"created", "uploaded"},
          imported      |-> {"imported", "published", "completed", "failed_publish", "deleted"},
          published     |-> {"published", "completed", "failed_publish", "deleted"},
          completed     |-> {"completed", "deleted"},
          failed_import |-> {"failed_import", "deleted"},
          failed_publish |-> {"failed_publish", "deleted"},
          deleted       |-> {"deleted"}]

\* Reads without a lock are safe to act on.  With clients that leave the states
\* past "uploaded" to the API, what a reader has seen of an image, in a GET or
\* anywhere in a list, holds for all it can read later: the image does not go
\* back, and if it was seen imported, published or completed, then so is every
\* variant in every later list of its downloads.
SeenStaysTrue ==
  \A c \in Readers, id \in Images : seen[c][id] # "none" =>
    /\ images[id] # NoImage
    /\ images[id].state \in Later[seen[c][id]]
    /\ seen[c][id] = "imported"  => VariantStates(id) \subseteq {"imported", "published", "completed"}
    /\ seen[c][id] = "published" => VariantStates(id) \subseteq {"published", "completed"}
    /\ seen[c][id] = "completed" => VariantStates(id) = {"completed"}

\* Once a client has seen that the import of an image is over, by success, failure
\* or deletion, the list of its downloads is final: no variant is added to it
\* by an importer that is late or told twice, and none is lost.
ListIsFinal ==
  [][\A c \in Readers, id \in Images :
       seen[c][id] \notin {"none", "created", "uploaded", "importing"} =>
         DOMAIN images'[id].downloads = DOMAIN images[id].downloads]_allVars

\* api/image_test.go:1640-1650, of a "nonexistent download": "a status code 404
\* (NotFound) is returned"; swagger.yaml:210 and 280 say the same.
MissingVariantIsNotFound ==
  \A c \in Readers : outcome[c].op = "getDownload" => outcome[c].ending # "panic"

\* swagger.yaml:150-162: GET /images/{image_id}/downloads answers 200 with the
\* downloads, or one of four errors.
DownloadsAreListed ==
  \A c \in Readers : outcome[c].op = "getDownloads" => outcome[c].ending # "panic"
=============================================================================
