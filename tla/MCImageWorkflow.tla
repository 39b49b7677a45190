--------------------------- MODULE MCImageWorkflow ---------------------------
(***************************************************************************)
(* Small instances of ImageWorkflow for TLC.                               *)
(***************************************************************************)
EXTENDS ImageWorkflow, TLC

MCPlainEntry == [v \in Variants |-> v]

VariantSymmetry == Permutations(Variants)
=============================================================================
