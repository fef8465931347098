-------------------------------- MODULE MCCli --------------------------------
(***************************************************************************)
(* Publishing: three processes with packages of two, one and two files,    *)
(* the last one with an unsafe path, and two staging names: a name can     *)
(* clash with one in use or with one a killed process left behind.         *)
(* SDKs: two processes, at one output or two, drawing from two readings of *)
(* the clock, over an older package with a file the new one does not have. *)
(* Roots: three roots, one of them named like the last component of        *)
(* another, with every choice of up to two dependencies; and three roots   *)
(* with every choice of three objectives in 1..2.                          *)
(***************************************************************************)
EXTENDS Cli, TLC, SequencesExt, FiniteSets

CONSTANTS p1, p2, p3, w1, w2, o1, o2

MCPackage == (p1 :> <<"lib", "toml">>) @@ (p2 :> <<"lib">>) @@ (p3 :> <<"toml", "up">>)

Told(files, wasm, output) == [files |-> files, wasm |-> wasm, output |-> output]
MCCommands ==
    {(w1 :> Told(<<"lib.h", "ffi.rs">>, TRUE, o1)) @@ (w2 :> Told(<< >>, TRUE, o2)),
     (w1 :> Told(<< >>, TRUE, o1)) @@ (w2 :> Told(<< >>, TRUE, o1)),
     (w1 :> Told(<<"lib.h", "ffi.rs">>, FALSE, o1)) @@ (w2 :> Told(<<"lib.h">>, TRUE, o1))}
MCArtifacts == ("m.wasm" :> "wasm") @@ ("m.js" :> "js") @@ ("m.d.ts" :> "d.ts")
MCBefore == {<< >>, ("m.wasm" :> [by |-> Old, whole |-> TRUE]) @@ ("old.js" :> [by |-> Old, whole |-> TRUE])}

Ids == <<<<"A", "f">>, <<"B", "g">>, <<"f">>>>
Dependencies == {<<"A", "f">>, <<"B", "g">>, <<"f">>, <<"C", "g">>}
DependencyLists == {<< >>} \cup {<<d>> : d \in Dependencies}
                     \cup {<<d, e>> : d, e \in Dependencies}
Root(id, auto, dependencies, cost) ==
    [id |-> id, auto |-> auto, dependencies |-> dependencies, cost |-> cost]
Costs == [1..3 -> 1..2]

MCRootFiles ==
    {[roots |-> [i \in 1..3 |-> Root(Ids[i], i = 2 /\ auto, d[i], [k \in 1..3 |-> 1])], all |-> all] :
       d \in [1..3 -> {l \in DependencyLists : Len(l) < 2}] \cup {<<a, <<<<"f">>>>, b>> : a, b \in DependencyLists},
       auto \in BOOLEAN, all \in {TRUE, FALSE}}
      \cup {[roots |-> [i \in 1..3 |-> Root(<<"A", "f">>, FALSE, << >>, c[i])], all |-> TRUE] :
              c \in [1..3 -> Costs]}
=============================================================================
