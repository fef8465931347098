---------------------------- MODULE PublishPackage ----------------------------
(***************************************************************************)
(* `prod cargo`, `prod core-wasm` and `prod view`: several processes, all  *)
(* told to publish a package at the same output path, and anybody else who *)
(* creates that path meanwhile.  Each process generates its files first    *)
(* (and refuses before it touches the disk), then publish_generated_package *)
(* fills a staging directory next to the output and renames it into place. *)
(* A process may be killed between any two steps, and any file system call *)
(* may fail.                                                               *)
(*                                                                         *)
(* A directory is a set of entries [path, by, whole]: which file, whose    *)
(* bytes, and whether all of them are there.  The parent directory always  *)
(* exists after create_dir_all and has no state of its own.                *)
(***************************************************************************)
EXTENDS Naturals, Sequences

CONSTANTS
    Procs,
    Names,      \* the staging names .lean4-prod-package-{pid}-{nonce}
    Output,     \* the output path
    Paths,      \* relative paths of package files
    SafePaths,  \* the ones without a root, a prefix or a ".."
    Package,    \* Package[p]: the files of p's package, in order
    Stranger    \* whoever else writes at the output path

ASSUME PublishAssumption ==
    /\ Output \notin Names
    /\ Stranger \notin Procs
    /\ Package \in [Procs -> Seq(Paths)]
    /\ \A p \in Procs : Len(Package[p]) > 0

Entry == [path : Paths, by : Procs \cup {Stranger}, whole : BOOLEAN]

Running == {"generate", "check", "stage", "write", "opened"}

\* How a process ends, by its message: code generation refused, the output
\* exists, an unsafe path, a failed file system call, the rename failed because
\* the output is taken.
Ended == {"refused", "exists", "unsafe", "io", "lost", "published", "killed"}

VARIABLES
    dirs,    \* the directories that exist, of Names and Output
    tree,    \* what each holds
    pc,      \* where each process is
    name,    \* the staging name each process drew
    at       \* how many files each process has written

vars == <<dirs, tree, pc, name, at>>

Init ==
    /\ dirs = {}
    /\ tree = [d \in Names \cup {Output} |-> {}]
    /\ pc = [p \in Procs |-> "generate"]
    /\ name = [p \in Procs |-> Output]
    /\ at = [p \in Procs |-> 0]

Goto(p, l) == pc' = [pc EXCEPT ![p] = l]

----------------------------------------------------------------------------
(* One process.                                                            *)

\* The input is read, parsed and turned into the files of the package.
Generate(p) ==
    /\ pc[p] = "generate"
    /\ Goto(p, "check")
    /\ UNCHANGED <<dirs, tree, name, at>>

\* The input cannot be read or parsed, or code generation refuses it.
Refuse(p) ==
    /\ pc[p] = "generate"
    /\ Goto(p, "refused")
    /\ UNCHANGED <<dirs, tree, name, at>>

\* Refusing to replace an existing generated package.
CheckOutput(p) ==
    /\ pc[p] = "check"
    /\ Goto(p, IF Output \in dirs THEN "exists" ELSE "stage")
    /\ UNCHANGED <<dirs, tree, name, at>>

\* Defect: the staging directory is made with create_dir_all, which does not
\* mind one that exists.
CreateStagingShared(p, d) ==
    /\ pc[p] = "stage"
    /\ dirs' = dirs \cup {d}
    /\ name' = [name EXCEPT ![p] = d]
    /\ Goto(p, "write")
    /\ UNCHANGED <<tree, at>>

\* create_dir makes the staging directory and fails on one that exists.
CreateStaging(p, d) ==
    /\ pc[p] = "stage"
    /\ d \notin dirs
    /\ dirs' = dirs \cup {d}
    /\ tree' = [tree EXCEPT ![d] = {}]
    /\ name' = [name EXCEPT ![p] = d]
    /\ Goto(p, "write")
    /\ UNCHANGED at

\* Defect: another name is drawn when the directory cannot be made.
RedrawsName(p) ==
    /\ pc[p] = "stage"
    /\ Goto(p, "check")
    /\ UNCHANGED <<dirs, tree, name, at>>

\* The parent or the staging directory cannot be made.
StagingFails(p) ==
    /\ pc[p] = "stage"
    /\ Goto(p, "io")
    /\ UNCHANGED <<dirs, tree, name, at>>

Item(p) == Package[p][at[p] + 1]

\* What fs::write has put in the directory for this file.
Wrote(p, whole) ==
    {e \in tree[name[p]] : e.path # Item(p)} \cup
    {[path |-> Item(p), by |-> p, whole |-> whole]}

\* create_dir_all and the start of fs::write: the file exists, not its bytes.
OpenFile(p) ==
    /\ pc[p] = "write"
    /\ at[p] < Len(Package[p])
    /\ Item(p) \in SafePaths
    /\ tree' = [tree EXCEPT ![name[p]] = Wrote(p, FALSE)]
    /\ Goto(p, "opened")
    /\ UNCHANGED <<dirs, name, at>>

\* The end of fs::write.
FinishFile(p) ==
    /\ pc[p] = "opened"
    /\ tree' = [tree EXCEPT ![name[p]] = Wrote(p, TRUE)]
    /\ at' = [at EXCEPT ![p] = @ + 1]
    /\ Goto(p, "write")
    /\ UNCHANGED <<dirs, name>>

\* A directory or a file cannot be written: panic, staging stays behind.
WriteFails(p) ==
    /\ \/ pc[p] = "opened"
       \/ pc[p] = "write" /\ at[p] < Len(Package[p]) /\ Item(p) \in SafePaths
    /\ Goto(p, "io")
    /\ UNCHANGED <<dirs, tree, name, at>>

\* `let _ = remove_dir_all(staging)`: all of it, or, when that fails, a part.
RemoveStaging(p) ==
    \/ /\ dirs' = dirs \ {name[p]}
       /\ tree' = [tree EXCEPT ![name[p]] = {}]
    \/ /\ UNCHANGED dirs
       /\ \E left \in SUBSET tree[name[p]] : tree' = [tree EXCEPT ![name[p]] = left]

\* The generated package contains an unsafe path.
RejectPath(p) ==
    /\ pc[p] = "write"
    /\ at[p] < Len(Package[p])
    /\ Item(p) \notin SafePaths
    /\ RemoveStaging(p)
    /\ Goto(p, "unsafe")
    /\ UNCHANGED <<name, at>>

\* rename(2) puts a directory over nothing or over an empty directory.
CanRename == Output \in dirs => tree[Output] = {}

\* Defect: whatever is at the output path is replaced.
PublishesOver(p) ==
    /\ pc[p] = "write"
    /\ at[p] = Len(Package[p])
    /\ dirs' = (dirs \ {name[p]}) \cup {Output}
    /\ tree' = [tree EXCEPT ![Output] = tree[name[p]], ![name[p]] = {}]
    /\ Goto(p, "published")
    /\ UNCHANGED <<name, at>>

\* The rename that publishes.
Publish(p) ==
    /\ pc[p] = "write"
    /\ at[p] = Len(Package[p])
    /\ CanRename
    /\ dirs' = (dirs \ {name[p]}) \cup {Output}
    /\ tree' = [tree EXCEPT ![Output] = tree[name[p]], ![name[p]] = {}]
    /\ Goto(p, "published")
    /\ UNCHANGED <<name, at>>

\* Defect: when the rename fails the output is removed, not staging.
LosesBadly(p) ==
    /\ pc[p] = "write"
    /\ at[p] = Len(Package[p])
    /\ ~CanRename
    /\ dirs' = dirs \ {Output}
    /\ tree' = [tree EXCEPT ![Output] = {}]
    /\ Goto(p, "lost")
    /\ UNCHANGED <<name, at>>

\* The rename fails because somebody else's files are at the output path.
LoseRace(p) ==
    /\ pc[p] = "write"
    /\ at[p] = Len(Package[p])
    /\ ~CanRename
    /\ RemoveStaging(p)
    /\ Goto(p, "lost")
    /\ UNCHANGED <<name, at>>

\* The rename fails for any other reason.
RenameFails(p) ==
    /\ pc[p] = "write"
    /\ at[p] = Len(Package[p])
    /\ RemoveStaging(p)
    /\ Goto(p, "io")
    /\ UNCHANGED <<name, at>>

\* The process is killed.
Kill(p) ==
    /\ pc[p] \in Running
    /\ Goto(p, "killed")
    /\ UNCHANGED <<dirs, tree, name, at>>

\* Somebody else creates the output path, as an empty directory or with files.
StrangerCreates ==
    /\ Output \notin dirs
    /\ dirs' = dirs \cup {Output}
    /\ \E f \in SUBSET Paths :
         tree' = [tree EXCEPT ![Output] =
                    {[path |-> x, by |-> Stranger, whole |-> TRUE] : x \in f}]
    /\ UNCHANGED <<pc, name, at>>

Step(p) ==
    \/ Generate(p) \/ Refuse(p) \/ CheckOutput(p)
    \/ \E d \in Names : CreateStaging(p, d)
    \/ StagingFails(p)
    \/ OpenFile(p) \/ FinishFile(p) \/ WriteFails(p) \/ RejectPath(p)
    \/ Publish(p) \/ LoseRace(p) \/ RenameFails(p)

\* Every process has ended.
AllEnded ==
    /\ \A p \in Procs : pc[p] \in Ended
    /\ UNCHANGED vars

Next ==
    \/ \E p \in Procs : Step(p) \/ Kill(p)
    \/ StrangerCreates
    \/ AllEnded

Spec == Init /\ [][Next]_vars

\* The operating system keeps running every process it has not killed.
FairSpec == Spec /\ \A p \in Procs : WF_vars(Step(p))

----------------------------------------------------------------------------
(* Properties.                                                             *)

\* The whole package of a process.
Complete(p) == {[path |-> Package[p][i], by |-> p, whole |-> TRUE] : i \in 1 .. Len(Package[p])}

\* Directories hold entries, and a process is at one of the code's places.
TypeOK ==
    /\ dirs \subseteq Names \cup {Output}
    /\ tree \in [Names \cup {Output} -> SUBSET Entry]
    /\ pc \in [Procs -> Running \cup Ended]
    /\ name \in [Procs -> Names \cup {Output}]
    /\ at \in [Procs -> Nat]
    /\ \A p \in Procs : at[p] <= Len(Package[p])

\* Whatever processes race, fail or die, the output path never shows half a
\* package, a half-written file or two packages mixed: it is absent, or as the
\* stranger left it, or exactly the package of a process that reported success
\* (the point of the staging directory and the rename, main.rs 392-425).
OutputWhole ==
    Output \in dirs =>
        \/ \A e \in tree[Output] : e.by = Stranger
        \/ \E p \in Procs : pc[p] = "published" /\ tree[Output] = Complete(p)

\* A process that printed "Generated ..." has its package, and nobody else's, at
\* the output path, for good: so at most one process ever reports success.
OkMeansPublished ==
    \A p \in Procs :
        pc[p] = "published" => Output \in dirs /\ tree[Output] = Complete(p)

\* No step removes or changes a file that is at the output path: neither the
\* rename nor the clean-up of a process that lost.
NeverReplaces ==
    [][tree[Output] # {} => tree'[Output] = tree[Output] /\ Output \in dirs']_vars

\* A process that published, was refused by code generation or found the output
\* taken leaves no staging directory with its files behind.
CleanExit ==
    \A p \in Procs : pc[p] \in {"refused", "exists", "published"} =>
        \A d \in dirs \ {Output} : \A e \in tree[d] : e.by # p

\* How a process ends tells what it left: success a whole package at the output
\* path, success and refusal nothing of it elsewhere.
ExitsAreTrue == OkMeansPublished /\ CleanExit

\* A process that lost the race lost it to files that are there: the rename is
\* never refused in favour of nothing.
LostToSomething ==
    \A p \in Procs : pc[p] = "lost" => Output \in dirs /\ tree[Output] # {}

\* Publishing is one step for everybody who looks at the output path: a whole
\* package appears there, where no files were, when and only when its process
\* reports success; every other end leaves the path alone, "already exists" is
\* said of a path that exists, and a rename is lost to files only.
Promise ==
    INSTANCE PublishPromise
    WITH there <- Output \in dirs, files <- tree[Output],
         exit <- [p \in Procs |-> IF pc[p] \in Running THEN "running" ELSE pc[p]]

PublishesOnce == Promise!Spec

\* Every process ends: it publishes, or says why not, or is killed.
EveryProcessEnds == \A p \in Procs : <>(pc[p] \in Ended)

\* "New output directory; an existing path is rejected." (main.rs 44, 71, 95):
\* once something is at the output path, no step puts a package there.
ExistingPathRejected ==
    [][(Output \in dirs) => (tree'[Output] = tree[Output])]_vars

----------------------------------------------------------------------------
(* The inductive invariant.                                                *)

Active(p) == pc[p] \in {"write", "opened"}

\* The first n files of p's package.
Prefix(p, n) == {[path |-> Package[p][i], by |-> p, whole |-> TRUE] : i \in 1 .. n}

\* Two processes never share a staging directory.
PrivateStaging ==
    /\ \A p \in Procs : Active(p) => name[p] \in Names /\ name[p] \in dirs
    /\ \A p, q \in Procs : p # q /\ Active(p) /\ Active(q) => name[p] # name[q]

\* A staging directory holds the files its process has written so far.
StagingContents ==
    \A p \in Procs :
        /\ pc[p] = "write" => tree[name[p]] = Prefix(p, at[p])
        /\ pc[p] = "opened" =>
             /\ at[p] < Len(Package[p])
             /\ Wrote(p, TRUE) = Prefix(p, at[p] + 1)

\* Before it stages anything a process has no file on disk.
NothingYet ==
    /\ \A p \in Procs : pc[p] \in {"generate", "check", "stage", "refused", "exists"} =>
         /\ at[p] = 0
         /\ \A d \in Names \cup {Output} : \A e \in tree[d] : e.by # p
    /\ \A d \in Names \cup {Output} : d \notin dirs => tree[d] = {}

\* A file in a directory that has been published, abandoned or is being filled.
OwnFiles ==
    \A d \in Names \cap dirs : \A e \in tree[d] :
        /\ e.by \in Procs
        /\ Active(e.by) => name[e.by] = d
        /\ pc[e.by] # "published"

IndInv ==
    /\ TypeOK
    /\ PrivateStaging
    /\ StagingContents
    /\ NothingYet
    /\ OwnFiles
    /\ OutputWhole
    /\ OkMeansPublished
    /\ LostToSomething
=============================================================================
