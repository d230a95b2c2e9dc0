---------------------------- MODULE MCDownload -----------------------------
(***************************************************************************)
(* Download for TLC: nothing in the script tells two invocations apart, so *)
(* the invocations of a safety run are symmetric.                          *)
(***************************************************************************)
EXTENDS Download, TLC

Invocations == Permutations(Proc)
=============================================================================
