-------------------------- MODULE ImageReadsProofs --------------------------
(***************************************************************************)
(* What is said of readers, proved for any of them, any images and bodies. *)
(* The handlers that write are those of ImageAPI, whatever is read next to *)
(* them, so everything proved of these holds here too.                     *)
(***************************************************************************)
EXTENDS ImageReads, ImagePromisesProofs

\* Readers do not disturb the handlers that write.
LEMMA WritersAreThose == ReadsSpec => Spec
<1>1. ReadsInit => Init
  BY DEF ReadsInit
<1>2. [ReadsNext]_allVars => [Next]_vars
  BY DEF ReadsNext, allVars
<1>3. QED
  BY <1>1, <1>2, PTL DEF ReadsSpec, Spec

\* A step of this specification is one of a writer or one of a reader.
LEMMA WriteOrRead ==
  ASSUME [ReadsNext]_allVars
  PROVE  \/ UNCHANGED readerVars
         \/ \E c \in Readers : Read(c) /\ UNCHANGED vars
BY DEF ReadsNext, allVars

----------------------------------------------------------------------------
(* Rewriting.                                                              *)

LEMMA ImageRewritten ==
  ASSUME NEW image
  PROVE  /\ RewriteImageLinks(image) \in {"ok", "linkError"}
         /\ image.links = "own" => RewriteImageLinks(image) = "ok"
BY DEF RewriteImageLinks, BuildLinkFails

LEMMA DownloadRewritten ==
  ASSUME NEW links, NEW v
  PROVE  /\ RewriteDownloadLinks(links, v) \in {"ok", "linkError", "panic"}
         /\ RewriteDownloadLinks(links, v) = "panic" => links = "none"
         /\ links \in {"own", "none"} /\ RewriteDownloadLinks(links, v) = "linkError" =>
              v \in Unparsable
BY DEF RewriteDownloadLinks, BuildLinkFails

\* What LinksAreOwn says of the downloads of a document, and whether one of its
\* variants has a dot in its name.
OwnOrLeftOver(image) ==
  \A v \in DOMAIN image.downloads : image.downloads[v].links = "own" \/ Leftover(image, v)

HasDottedName(image) == \E v \in DOMAIN image.downloads : Entry[v] # v

LEMMA LinksAreThere ==
  ASSUME NEW image, OwnOrLeftOver(image), NEW v
  PROVE  /\ LinksOf(image, v) \in {"own", "none"}
         /\ LinksOf(image, v) = "none" => v \notin DOMAIN image.downloads \/ HasDottedName(image)
<1>1. CASE v \notin DOMAIN image.downloads
  BY <1>1 DEF LinksOf
<1>2. CASE v \in DOMAIN image.downloads
  <2>1. LinksOf(image, v) = image.downloads[v].links
    BY <1>2 DEF LinksOf
  <2>2. EmptyDownload.links = "none"
    BY DEF EmptyDownload
  <2>3. CASE Leftover(image, v)
    BY <2>1, <2>2, <2>3 DEF Leftover, HasDottedName
  <2>4. QED
    BY <1>2, <2>1, <2>3 DEF OwnOrLeftOver
<1>3. QED
  BY <1>1, <1>2

LEMMA DownloadsListed ==
  ASSUME NEW image, NEW ending \in GetDownloadsEndings(image)
  PROVE  /\ ending \in {"ok", "linkError", "panic"}
         /\ OwnOrLeftOver(image) =>
              /\ ending = "panic" => HasDottedName(image)
              /\ ending = "linkError" => DOMAIN image.downloads \cap Unparsable # {}
<1> DEFINE failures == IF ~EnableURLRewriting THEN {}
                       ELSE {RewriteDownloadLinks(LinksOf(image, v), v) : v \in DOMAIN image.downloads}
                              \ {"ok"}
<1>1. CASE ending = "ok"
  BY <1>1
<1>2. CASE ending # "ok"
  <2>1. ending \in failures
    BY <1>2 DEF GetDownloadsEndings
  <2>2. PICK v \in DOMAIN image.downloads : ending = RewriteDownloadLinks(LinksOf(image, v), v)
    BY <2>1
  <2>3. QED
    BY <1>2, <2>2, LinksAreThere, DownloadRewritten
<1>3. QED
  BY <1>1, <1>2

LEMMA DownloadRead ==
  ASSUME NEW image, NEW v
  PROVE  /\ GetDownloadEnding(image, v) \in {"ok", "linkError", "panic", "notFound"}
         /\ OwnOrLeftOver(image) =>
              /\ GetDownloadEnding(image, v) = "panic" =>
                   v \notin DOMAIN image.downloads \/ HasDottedName(image)
              /\ GetDownloadEnding(image, v) = "linkError" => v \in Unparsable
<1> DEFINE rewritten == RewriteDownloadLinks(LinksOf(image, v), v)
<1>1. /\ GetDownloadEnding(image, v) \in {"ok", "linkError", "panic", "notFound"}
      /\ GetDownloadEnding(image, v) \in {"linkError", "panic"} =>
           GetDownloadEnding(image, v) = rewritten
  BY DownloadRewritten DEF GetDownloadEnding
<1>2. QED
  BY <1>1, LinksAreThere, DownloadRewritten

----------------------------------------------------------------------------
(* Types.                                                                  *)

LEMMA ReadTypes ==
  ASSUME MongoTypeOK, ReadsTypeOK, NEW c \in Readers, Read(c)
  PROVE  ReadsTypeOK'
<1> USE DEF ReadsTypeOK, Ready
<1>1. \A id \in Images : images[id] # NoImage => images[id].state \in State
  BY DEF MongoTypeOK, Image
<1>2. /\ \A op \in Op, ending \in Ending, wanted \in SUBSET Variants, stored \in SUBSET Variants :
           EndOf(c, op, ending, wanted, stored) =>
             outcome' \in [Readers -> Outcome \cup {NothingRead}]
      /\ \A op \in Op, ending \in Ending :
           End(c, op, ending) => outcome' \in [Readers -> Outcome \cup {NothingRead}]
  <2>1. ASSUME NEW op \in Op, NEW ending \in Ending,
               NEW wanted \in SUBSET Variants, NEW stored \in SUBSET Variants,
               EndOf(c, op, ending, wanted, stored)
        PROVE  outcome' \in [Readers -> Outcome \cup {NothingRead}]
    <3>1. [op |-> op, ending |-> ending, wanted |-> wanted, stored |-> stored] \in Outcome
      BY DEF Outcome
    <3>2. QED
      BY <2>1, <3>1 DEF EndOf
  <2>2. ASSUME NEW op \in Op, NEW ending \in Ending, End(c, op, ending)
        PROVE  outcome' \in [Readers -> Outcome \cup {NothingRead}]
    <3>1. {} \in SUBSET Variants /\ EndOf(c, op, ending, {}, {})
      BY <2>2 DEF End
    <3>2. QED
      BY <2>1, <3>1
  <2>3. QED
    BY <2>1, <2>2
<1>0. \A id \in Images : images[id] # NoImage => DOMAIN images[id].downloads \in SUBSET Variants
  BY DownloadsElim DEF MongoTypeOK, Image
<1>3. ASSUME NEW op \in Op, NEW id \in Images, Absent(c, op, id)
      PROVE  ReadsTypeOK'
  BY <1>2, <1>3 DEF Absent, Ending
<1>4. CASE GetImageHandler(c)
  <2>1. PICK id \in Images : \/ Absent(c, "getImage", id)
                             \/ /\ images[id] # NoImage
                                /\ End(c, "getImage", RewriteImageLinks(images[id]))
                                /\ seen' = [seen EXCEPT ![c][id] = images[id].state]
                                /\ UNCHANGED cursor
    BY <1>4 DEF GetImageHandler
  <2>2. CASE ~Absent(c, "getImage", id)
    <3>1. outcome' \in [Readers -> Outcome \cup {NothingRead}]
      BY <1>2, <2>1, <2>2, ImageRewritten DEF Op, Ending
    <3>2. /\ seen' = [seen EXCEPT ![c][id] = images[id].state] /\ cursor' = cursor
          /\ images[id].state \in State
      BY <1>1, <2>1, <2>2
    <3>3. seen' \in [Readers -> [Images -> State \cup {"none"}]]
      BY <3>2
    <3>4. QED
      BY <3>1, <3>2, <3>3
  <2>3. QED
    BY <1>3, <2>1, <2>2 DEF Op
<1>5. CASE GetDownloadsHandler(c)
  <2>1. PICK id \in Images :
          \/ Absent(c, "getDownloads", id)
          \/ /\ images[id] # NoImage
             /\ LET stored == DOMAIN images[id].downloads
                IN  \E ending \in GetDownloadsEndings(images[id]) :
                      EndOf(c, "getDownloads", ending, stored, stored)
             /\ UNCHANGED <<cursor, seen>>
    BY <1>5 DEF GetDownloadsHandler
  <2>2. CASE ~Absent(c, "getDownloads", id)
    <3>1. outcome' \in [Readers -> Outcome \cup {NothingRead}]
      <4>1. PICK ending \in GetDownloadsEndings(images[id]) :
              EndOf(c, "getDownloads", ending,
                    DOMAIN images[id].downloads, DOMAIN images[id].downloads)
        BY <2>1, <2>2
      <4>2. "getDownloads" \in Op /\ ending \in Ending
        BY DownloadsListed DEF Op, Ending
      <4>3. DOMAIN images[id].downloads \in SUBSET Variants
        BY <1>0, <2>1, <2>2
      <4>4. QED
        BY <1>2, <4>1, <4>2, <4>3
    <3>2. QED
      BY <2>1, <2>2, <3>1
  <2>3. QED
    BY <1>3, <2>2 DEF Op
<1>6. CASE GetDownloadHandler(c)
  <2>1. PICK id \in Images, v \in Variants \ {NoName} :
          \/ Absent(c, "getDownload", id)
          \/ /\ images[id] # NoImage
             /\ EndOf(c, "getDownload", GetDownloadEnding(images[id], v),
                      {v}, DOMAIN images[id].downloads)
             /\ UNCHANGED <<cursor, seen>>
    BY <1>6 DEF GetDownloadHandler
  <2>2. CASE ~Absent(c, "getDownload", id)
    <3>1. outcome' \in [Readers -> Outcome \cup {NothingRead}]
      <4>1. "getDownload" \in Op /\ GetDownloadEnding(images[id], v) \in Ending
        BY DownloadRead DEF Op, Ending
      <4>2. {v} \in SUBSET Variants /\ DOMAIN images[id].downloads \in SUBSET Variants
        BY <1>0, <2>1, <2>2
      <4>3. QED
        BY <1>2, <2>1, <2>2, <4>1, <4>2
    <3>2. QED
      BY <2>1, <2>2, <3>1
  <2>3. QED
    BY <1>3, <2>2 DEF Op
<1>7. CASE GetImagesHandler(c)
  BY <1>7 DEF GetImagesHandler
<1>8. CASE Fetch(c)
  <2>1. PICK id \in cursor[c] :
          LET ending == IF images[id] = NoImage THEN "ok" ELSE RewriteImageLinks(images[id])
              left   == IF ending = "ok" THEN cursor[c] \ {id} ELSE {}
          IN  /\ cursor' = [cursor EXCEPT ![c] = left]
              /\ seen' = IF images[id] = NoImage THEN seen
                         ELSE [seen EXCEPT ![c][id] = images[id].state]
              /\ IF left = {} THEN End(c, "getImages", ending) ELSE UNCHANGED outcome
    BY <1>8 DEF Fetch
  <2>2. id \in Images /\ cursor' \in [Readers -> SUBSET Images]
    BY <2>1
  <2>3. seen' \in [Readers -> [Images -> State \cup {"none"}]]
    BY <1>1, <2>1, <2>2
  <2>4. outcome' \in [Readers -> Outcome \cup {NothingRead}]
    <3>1. (IF images[id] = NoImage THEN "ok" ELSE RewriteImageLinks(images[id])) \in Ending
      BY ImageRewritten DEF Ending
    <3>2. QED
      BY <1>2, <2>1, <3>1 DEF Op
  <2>5. QED
    BY <2>2, <2>3, <2>4
<1>9. CASE ReadFails(c)
  BY <1>2, <1>9 DEF ReadFails, Ending
<1>10. QED
  BY <1>4, <1>5, <1>6, <1>7, <1>8, <1>9 DEF Read

\* Whatever is stored and however a read ends, a reader holds a list of known
\* images, known states and one of the endings of its handler.
THEOREM ReadersAreTyped == ReadsSpec => []ReadsTypeOK
<1>1. ReadsInit => ReadsTypeOK
  BY DEF ReadsInit, ReadsTypeOK, NothingRead
<1>2. MongoTypeOK /\ ReadsTypeOK /\ [ReadsNext]_allVars => ReadsTypeOK'
  <2> SUFFICES ASSUME MongoTypeOK, ReadsTypeOK, [ReadsNext]_allVars PROVE ReadsTypeOK'
    OBVIOUS
  <2>1. CASE UNCHANGED readerVars
    BY <2>1 DEF readerVars, ReadsTypeOK
  <2>2. CASE \E c \in Readers : Read(c) /\ UNCHANGED vars
    BY <2>2, ReadTypes
  <2>3. QED
    BY <2>1, <2>2, WriteOrRead
<1>3. TypeOK => MongoTypeOK
  BY DEF TypeOK
<1>4. QED
  BY <1>1, <1>2, <1>3, WritersAreThose, TypeCorrectness, PTL DEF ReadsSpec

----------------------------------------------------------------------------
(* What is stored can be read.                                             *)

LEMMA ReadIsServed ==
  ASSUME ReadsTypeOK, LinksAreOwn, ReadsAreServed, NEW c \in Readers, Read(c)
  PROVE  ReadsAreServed'
<1> DEFINE Served(ending, wanted, stored) ==
             /\ ending = "panic" =>
                  ~(wanted \subseteq stored) \/ \E v \in stored : Entry[v] # v
             /\ ending = "linkError" => wanted \cap Unparsable # {}
<1>0. ASSUME NEW op, NEW ending, NEW wanted, NEW stored,
             EndOf(c, op, ending, wanted, stored), Served(ending, wanted, stored)
      PROVE  ReadsAreServed'
  <2> DEFINE read == [op |-> op, ending |-> ending, wanted |-> wanted, stored |-> stored]
  <2>1. outcome' = [outcome EXCEPT ![c] = read]
    BY <1>0 DEF EndOf
  <2>2. /\ outcome'[c] = read
        /\ \A d \in Readers : d # c => outcome'[d] = outcome[d]
    BY <2>1 DEF ReadsTypeOK
  <2>3. QED
    BY <1>0, <2>2 DEF ReadsAreServed
<1>1. ASSUME NEW op, NEW ending, End(c, op, ending), ending \notin {"panic", "linkError"}
      PROVE  ReadsAreServed'
  BY <1>0, <1>1 DEF End
<1>2. ASSUME NEW op, NEW id, Absent(c, op, id)
      PROVE  ReadsAreServed'
  BY <1>1, <1>2 DEF Absent
<1>3. ASSUME NEW id \in Images, images[id] # NoImage
      PROVE  RewriteImageLinks(images[id]) = "ok" /\ OwnOrLeftOver(images[id])
  BY <1>3, ImageRewritten DEF LinksAreOwn, OwnOrLeftOver
<1>4. CASE GetImageHandler(c)
  BY <1>1, <1>2, <1>3, <1>4 DEF GetImageHandler
<1>5. CASE GetDownloadsHandler(c)
  <2>1. PICK id \in Images :
          \/ Absent(c, "getDownloads", id)
          \/ /\ images[id] # NoImage
             /\ LET stored == DOMAIN images[id].downloads
                IN  \E ending \in GetDownloadsEndings(images[id]) :
                      EndOf(c, "getDownloads", ending, stored, stored)
    BY <1>5 DEF GetDownloadsHandler
  <2>2. \A ending \in GetDownloadsEndings(images[id]) : images[id] # NoImage =>
          Served(ending, DOMAIN images[id].downloads, DOMAIN images[id].downloads)
    BY <1>3, DownloadsListed DEF HasDottedName
  <2>3. QED
    <3> HIDE DEF Served
    <3>1. QED
      BY <1>0, <1>2, <2>1, <2>2
<1>6. CASE GetDownloadHandler(c)
  <2>1. PICK id \in Images, v \in Variants \ {NoName} :
          \/ Absent(c, "getDownload", id)
          \/ /\ images[id] # NoImage
             /\ EndOf(c, "getDownload", GetDownloadEnding(images[id], v),
                      {v}, DOMAIN images[id].downloads)
    BY <1>6 DEF GetDownloadHandler
  <2>2. images[id] # NoImage =>
          Served(GetDownloadEnding(images[id], v), {v}, DOMAIN images[id].downloads)
    BY <1>3, DownloadRead DEF HasDottedName
  <2>3. QED
    <3> HIDE DEF Served
    <3>1. QED
      BY <1>0, <1>2, <2>1, <2>2
<1>7. CASE GetImagesHandler(c)
  BY <1>7 DEF GetImagesHandler, ReadsAreServed
<1>8. CASE Fetch(c)
  <2>1. PICK id \in cursor[c] :
          LET ending == IF images[id] = NoImage THEN "ok" ELSE RewriteImageLinks(images[id])
              left   == IF ending = "ok" THEN cursor[c] \ {id} ELSE {}
          IN  IF left = {} THEN End(c, "getImages", ending) ELSE UNCHANGED outcome
    BY <1>8 DEF Fetch
  <2>2. id \in Images
    BY DEF ReadsTypeOK
  <2>3. End(c, "getImages", "ok") \/ UNCHANGED outcome
    BY <1>3, <2>1, <2>2
  <2>4. QED
    BY <1>1, <2>3 DEF ReadsAreServed
<1>9. CASE ReadFails(c)
  BY <1>1, <1>9 DEF ReadFails
<1>10. QED
  BY <1>4, <1>5, <1>6, <1>7, <1>8, <1>9 DEF Read

\* Whatever bodies clients have sent, no GET fails or goes down because of what a
\* handler has left in the links it reads: it goes down only for a variant that
\* is not there or an image with a name with a dot, and answers 500 for a link
\* only if a variant it wants has a name that makes no URL.
THEOREM StoredIsReadable == ReadsSpec => []ReadsAreServed
<1>1. ReadsInit => ReadsAreServed
  BY DEF ReadsInit, ReadsAreServed, NothingRead
<1>2. ReadsTypeOK /\ LinksAreOwn /\ ReadsAreServed /\ [ReadsNext]_allVars => ReadsAreServed'
  <2> SUFFICES ASSUME ReadsTypeOK, LinksAreOwn, ReadsAreServed, [ReadsNext]_allVars
               PROVE  ReadsAreServed'
    OBVIOUS
  <2>1. CASE UNCHANGED readerVars
    BY <2>1 DEF readerVars, ReadsAreServed
  <2>2. CASE \E c \in Readers : Read(c) /\ UNCHANGED vars
    BY <2>2, ReadIsServed
  <2>3. QED
    BY <2>1, <2>2, WriteOrRead
<1>3. QED
  BY <1>1, <1>2, WritersAreThose, LinksAreKept, ReadersAreTyped, PTL DEF ReadsSpec

----------------------------------------------------------------------------
(* What was seen stays true.                                               *)

\* What SeenStaysTrue says of an image a reader has seen in a state.
StaysAfter(s, image) ==
  LET states == {image.downloads[v].state : v \in DOMAIN image.downloads}
  IN  /\ image # NoImage
      /\ image.state \in Later[s]
      /\ s = "imported"  => states \subseteq {"imported", "published", "completed"}
      /\ s = "published" => states \subseteq {"published", "completed"}
      /\ s = "completed" => states = {"completed"}

LEMMA SeenSays ==
  SeenStaysTrue <=>
    \A c \in Readers, id \in Images : seen[c][id] # "none" => StaysAfter(seen[c][id], images[id])
BY DEF SeenStaysTrue, StaysAfter, VariantStates

\* What follows a state contains it, and what follows that.
LEMMA LaterIsClosed ==
  ASSUME NEW s \in State
  PROVE  /\ s \in Later[s]
         /\ \A t \in Later[s], u \in State : TransitionAllowed(t, u) => u \in Later[s]
BY DEF State, Later, TransitionAllowed

\* What is read is true when it is read.
LEMMA ReadIsTrue ==
  ASSUME MongoTypeOK, ImageSummarisesDownloads, NEW id \in Images, images[id] # NoImage
  PROVE  StaysAfter(images[id].state, images[id])
<1>1. images[id].state \in State
  BY DEF MongoTypeOK, Image
<1>2. QED
  BY <1>1, LaterIsClosed DEF ImageSummarisesDownloads, VariantStates, StaysAfter

\* A write keeps it true.
LEMMA WriteKeepsTrue ==
  ASSUME NEW s \in State, NEW old, NEW new, StaysAfter(s, old), VariantsMove(old, new),
         new # NoImage, new.state \in State,
         new.state = old.state \/ TransitionAllowed(old.state, new.state)
  PROVE  StaysAfter(s, new)
<1>1. new.state \in Later[s]
  BY LaterIsClosed DEF StaysAfter
<1>2. CASE s \in {"imported", "published", "completed"}
  <2>1. old.state \notin {"uploaded", "importing"}
    BY <1>2 DEF StaysAfter, Later
  <2>2. DOMAIN new.downloads = DOMAIN old.downloads
    BY <2>1 DEF VariantsMove
  <2>3. ASSUME NEW v \in DOMAIN old.downloads
        PROVE  LET before == old.downloads[v].state
                   after  == new.downloads[v].state
               IN  /\ before = "imported"  => after \in {"imported", "published"}
                   /\ before = "published" => after \in {"published", "completed"}
                   /\ before = "completed" => after = "completed"
    BY DEF VariantsMove, DownloadTransitionAllowed
  <2>4. CASE s = "imported"
    BY <1>1, <2>2, <2>3, <2>4 DEF StaysAfter
  <2>5. CASE s = "published"
    BY <1>1, <2>2, <2>3, <2>5 DEF StaysAfter
  <2>6. CASE s = "completed"
    <3>1. \A v \in DOMAIN new.downloads : new.downloads[v].state = "completed"
      BY <2>2, <2>3, <2>6 DEF StaysAfter
    <3>2. DOMAIN new.downloads # {}
      BY <2>2, <2>6 DEF StaysAfter
    <3>3. QED
      BY <1>1, <2>6, <3>1, <3>2 DEF StaysAfter
  <2>7. QED
    BY <1>2, <2>4, <2>5, <2>6
<1>3. CASE s \notin {"imported", "published", "completed"}
  BY <1>1, <1>3 DEF StaysAfter
<1>4. QED
  BY <1>2, <1>3

\* What a reader sees is what is stored then.
LEMMA HowToSee ==
  ASSUME MongoTypeOK, ReadsTypeOK, NEW c \in Readers, Read(c), NEW d \in Readers, NEW id \in Images
  PROVE  \/ seen'[d][id] = seen[d][id]
         \/ images[id] # NoImage /\ seen'[d][id] = images[id].state
<1> USE DEF ReadsTypeOK
<1>1. ASSUME NEW i \in Images, images[i] # NoImage, seen' = [seen EXCEPT ![c][i] = images[i].state]
      PROVE  \/ seen'[d][id] = seen[d][id]
             \/ images[id] # NoImage /\ seen'[d][id] = images[id].state
  BY <1>1
<1>2. CASE GetImageHandler(c)
  BY <1>1, <1>2 DEF GetImageHandler, Absent
<1>3. CASE Fetch(c)
  <2>1. PICK i \in cursor[c] : seen' = IF images[i] = NoImage THEN seen
                                       ELSE [seen EXCEPT ![c][i] = images[i].state]
    BY <1>3 DEF Fetch
  <2>2. QED
    BY <1>1, <2>1
<1>4. CASE GetDownloadsHandler(c) \/ GetDownloadHandler(c) \/ GetImagesHandler(c) \/ ReadFails(c)
  BY <1>4 DEF GetDownloadsHandler, GetDownloadHandler, GetImagesHandler, ReadFails, Absent
<1>5. QED
  BY <1>2, <1>3, <1>4 DEF Read

\* Reads without a lock are safe to act on: with clients that leave the states
\* past "uploaded" to the API, what any reader has seen of an image, in a GET or
\* anywhere in a list, holds for all that can be read later.
THEOREM ReadsStayTrue == ProtocolBodies => (ReadsSpec => []SeenStaysTrue)
<1> SUFFICES ASSUME ProtocolBodies
             PROVE  ReadsSpec => []SeenStaysTrue
  OBVIOUS
<1> DEFINE Move == \A id \in Images : images[id] # NoImage =>
                     /\ images'[id] # NoImage
                     /\ \/ images'[id].state = images[id].state
                        \/ /\ TransitionAllowed(images[id].state, images'[id].state)
                           /\ images[id].state # "completed"
                     /\ DOMAIN images[id].downloads \subseteq DOMAIN images'[id].downloads
           Stored == /\ MongoTypeOK /\ ImageSummarisesDownloads /\ DownloadsFollowUpload
                     /\ ReadsTypeOK
<1>1. ReadsInit => SeenStaysTrue
  BY DEF ReadsInit, SeenStaysTrue
<1>2. /\ Stored /\ MongoTypeOK' /\ SeenStaysTrue
      /\ [ReadsNext]_allVars /\ [Move]_vars /\ [Workflow!Next]_(Workflow!vars)
      => SeenStaysTrue'
  <2> SUFFICES ASSUME Stored, MongoTypeOK', SeenStaysTrue, [ReadsNext]_allVars, [Move]_vars,
                      [Workflow!Next]_(Workflow!vars),
                      NEW c \in Readers, NEW id \in Images, seen'[c][id] # "none"
               PROVE  StaysAfter(seen'[c][id], images'[id])
    BY SeenSays DEF SeenStaysTrue, StaysAfter, VariantStates
  <2>1. CASE UNCHANGED readerVars
    <3>1. seen[c][id] \in State /\ seen'[c][id] = seen[c][id] /\ StaysAfter(seen[c][id], images[id])
      BY <2>1, SeenSays DEF readerVars, ReadsTypeOK
    <3>2. images[id] # NoImage
      BY <3>1 DEF StaysAfter
    <3>3. VariantsMove(images[id], images'[id])
      BY <3>2, WorkflowMovesVariants DEF ProtocolBodies
    <3>4. CASE images'[id] = images[id]
      BY <3>1, <3>4
    <3>5. CASE images'[id] # images[id]
      <4>1. Move
        BY <3>5 DEF vars, mongoVars
      <4>2. images'[id] # NoImage /\ images'[id].state \in State
        BY <3>2, <4>1 DEF MongoTypeOK, Image
      <4>3. QED
        BY <3>1, <3>2, <3>3, <4>1, <4>2, WriteKeepsTrue
    <3>6. QED
      BY <3>4, <3>5
  <2>2. CASE \E d \in Readers : Read(d) /\ UNCHANGED vars
    <3>1. images' = images
      BY <2>2 DEF vars, mongoVars
    <3>2. \/ seen'[c][id] = seen[c][id]
          \/ images[id] # NoImage /\ seen'[c][id] = images[id].state
      BY <2>2, HowToSee
    <3>3. QED
      BY <3>1, <3>2, SeenSays, ReadIsTrue
  <2>3. QED
    BY <2>1, <2>2, WriteOrRead
<1>3. TypeOK => MongoTypeOK
  BY DEF TypeOK
<1>4. Spec => [][Move]_vars
  BY StateMachineIsKept DEF ImageStateMachine
<1>5. Spec => []ImageSummarisesDownloads
  BY StatesSummarise
<1>6. Spec => [][Workflow!Next]_(Workflow!vars)
  BY Implementation, PTL DEF ImplementsWorkflow, Workflow!Spec
<1>7. QED
  <2> HIDE DEF Move
  <2>1. QED
    BY <1>1, <1>2, <1>3, <1>4, <1>5, <1>6, WritersAreThose, TypeCorrectness,
       DownloadsComeAfterUpload, ReadersAreTyped, PTL DEF ReadsSpec

\* Once a reader has seen that the import of an image is over, no variant is added
\* to it or lost, however late or repeated the requests of its importers are.
THEOREM ListsAreFinal == ProtocolBodies => (ReadsSpec => ListIsFinal)
<1> SUFFICES ASSUME ProtocolBodies
             PROVE  ReadsSpec => ListIsFinal
  OBVIOUS
<1> DEFINE Stored == /\ MongoTypeOK /\ ImageSummarisesDownloads /\ DownloadsFollowUpload
                     /\ ReadsTypeOK
           Final  == \A c \in Readers, id \in Images :
                       seen[c][id] \notin {"none", "created", "uploaded", "importing"} =>
                         DOMAIN images'[id].downloads = DOMAIN images[id].downloads
<1>1. Stored /\ SeenStaysTrue /\ [Workflow!Next]_(Workflow!vars) => Final
  <2> SUFFICES ASSUME Stored, SeenStaysTrue, [Workflow!Next]_(Workflow!vars),
                      NEW c \in Readers, NEW id \in Images,
                      seen[c][id] \notin {"none", "created", "uploaded", "importing"}
               PROVE  DOMAIN images'[id].downloads = DOMAIN images[id].downloads
    OBVIOUS
  <2>1. seen[c][id] \in State \ {"created", "uploaded", "importing"}
    BY DEF ReadsTypeOK
  <2>2. images[id] # NoImage /\ images[id].state \in Later[seen[c][id]]
    BY <2>1 DEF SeenStaysTrue
  <2>3. images[id].state \notin {"uploaded", "importing"}
    BY <2>1, <2>2 DEF State, Later
  <2>4. VariantsMove(images[id], images'[id])
    BY <2>2, WorkflowMovesVariants DEF ProtocolBodies
  <2>5. QED
    BY <2>3, <2>4 DEF VariantsMove
<1>2. TypeOK => MongoTypeOK
  BY DEF TypeOK
<1>3. Spec => []ImageSummarisesDownloads
  BY StatesSummarise
<1>4. Spec => [][Workflow!Next]_(Workflow!vars)
  BY Implementation, PTL DEF ImplementsWorkflow, Workflow!Spec
<1>5. ReadsSpec => []SeenStaysTrue
  BY ReadsStayTrue
<1>6. ReadsSpec => [][Final]_allVars
  <2> HIDE DEF Final
  <2>1. QED
    BY <1>1, <1>2, <1>3, <1>4, <1>5, WritersAreThose, TypeCorrectness,
       DownloadsComeAfterUpload, ReadersAreTyped, PTL
<1>7. QED
  BY <1>6 DEF ListIsFinal
=============================================================================
