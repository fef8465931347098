--------------------------- MODULE MCViewSession ---------------------------
(***************************************************************************)
(* All four pages, four submissions, an envelope of six bytes read in      *)
(* chunks of up to four bytes.                                             *)
(***************************************************************************)
EXTENDS ViewSession

MCChunkSizes == 0..4
=============================================================================
