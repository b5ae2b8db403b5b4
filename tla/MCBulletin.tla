----------------------------- MODULE MCBulletin -----------------------------
(***************************************************************************)
(* Instances of Bulletin for TLC.                                          *)
(***************************************************************************)
EXTENDS Bulletin, TLC

\* Workers are interchangeable in runs that check invariants only.
WorkerSymmetry == Permutations(Workers)
=============================================================================
