-------------------------- MODULE MCPublishPackage --------------------------
(***************************************************************************)
(* Three processes with packages of two, one and two files, the last one   *)
(* with an unsafe path, and two staging names: a name can clash with one   *)
(* in use or with one a killed process left behind.                        *)
(***************************************************************************)
EXTENDS PublishPackage, TLC

CONSTANTS p1, p2, p3

MCPackage == (p1 :> <<"lib", "toml">>) @@ (p2 :> <<"lib">>) @@ (p3 :> <<"toml", "up">>)
=============================================================================
