------------------------ MODULE DocumentedBehaviour ------------------------
(***************************************************************************)
(* What the comments of the repository say of the handlers and the handlers*)
(* do not do.                                                              *)
(***************************************************************************)
EXTENDS ImageAPI

\* models/image.go:216: "validate that the type matches the existing type".  A
\* variant that has declared a type keeps it.
TypeNeverChanges ==
  \A id \in Images, v \in Variants, t \in Types :
    LET HasType(u) == images[id] # NoImage /\ v \in DOMAIN images[id].downloads
                      /\ images[id].downloads[v].type = u
    IN  [](HasType(t) => [](\A u \in Types : HasType(u) => u = t))
=============================================================================
