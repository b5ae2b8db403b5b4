----------------------------- MODULE MCRssSources -----------------------------
(***************************************************************************)
(* RssSources for TLC: the publication dates of its posts, with and without  *)
(* ties, the oldest post inside or outside the time boundary.                *)
(***************************************************************************)
EXTENDS RssSources

CalendarsOf == {<<0, 1, 1, 1>>, <<1, 1, 1, 2>>, <<0, 1, 2, 2>>}
=============================================================================
