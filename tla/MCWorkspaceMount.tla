--------------------------- MODULE MCWorkspaceMount ---------------------------
(***************************************************************************)
(* Three calls of mount on two roots; two files, of one and of two parts,  *)
(* one module and one guest; parts up to one byte too long.                *)
(***************************************************************************)
EXTENDS WorkspaceMount

MCSizes == <<1, 2>>
=============================================================================
