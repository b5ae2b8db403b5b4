--------------------------- MODULE MCItemPipeline ---------------------------
(***************************************************************************)
(* Instances of ItemPipeline for TLC.                                      *)
(***************************************************************************)
EXTENDS ItemPipeline, TLC

\* Invocations are interchangeable in runs that check invariants only.
WorkerSymmetry == Permutations(Workers)
=============================================================================
