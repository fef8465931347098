--------------------------- MODULE PublishPromise ---------------------------
(***************************************************************************)
(* What publishing promises to whoever looks at the output path, with no   *)
(* staging directories in it: a package appears in one step, whole, where  *)
(* no files were, and stays; every other way for a process to end leaves   *)
(* the path alone, and the two that blame the path tell the truth of it.   *)
(***************************************************************************)
EXTENDS Naturals, Sequences

CONSTANTS Procs, Paths, Package, Stranger      \* see PublishPackage

VARIABLES
    there,   \* is there a directory at the output path
    files,   \* what it holds
    exit     \* for each process "running", or how it ended

vars == <<there, files, exit>>

Whole(p) == {[path |-> Package[p][i], by |-> p, whole |-> TRUE] : i \in 1 .. Len(Package[p])}

\* A process may have been killed before it did anything.
Init == ~there /\ files = {} /\ exit \in [Procs -> {"running", "killed"}]

Ends(p, how) == exit[p] = "running" /\ exit' = [exit EXCEPT ![p] = how]

Publish(p) ==
    /\ files = {}
    /\ there' = TRUE /\ files' = Whole(p)
    /\ Ends(p, "published")

\* Code generation refused, a path was unsafe, a call failed, a kill.
GiveUp(p) ==
    /\ \E how \in {"refused", "unsafe", "io", "killed"} : Ends(p, how)
    /\ UNCHANGED <<there, files>>

\* The output path was found to exist.
Exists(p) == there /\ Ends(p, "exists") /\ UNCHANGED <<there, files>>

\* The rename failed because files are there.
Lose(p) == files # {} /\ Ends(p, "lost") /\ UNCHANGED <<there, files>>

\* Somebody else is the first at the path.
StrangerCreates ==
    /\ ~there /\ there'
    /\ \E f \in SUBSET Paths : files' = {[path |-> x, by |-> Stranger, whole |-> TRUE] : x \in f}
    /\ UNCHANGED exit

Next == (\E p \in Procs : Publish(p) \/ GiveUp(p) \/ Exists(p) \/ Lose(p)) \/ StrangerCreates

Spec == Init /\ [][Next]_vars
=============================================================================
