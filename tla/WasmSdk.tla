------------------------------- MODULE WasmSdk -------------------------------
(***************************************************************************)
(* `prod gen`, `header`, `sdk` and `sdks` (rust/prod-cli/src/main.rs):     *)
(* commands that write their files straight to their output, and, for the  *)
(* WebAssembly package, build in a temporary directory named after a       *)
(* clock, replace the old output and copy the package there file by file.  *)
(* Several processes run at once; each may be killed between any two steps *)
(* and any file system call may fail.                                      *)
(*                                                                         *)
(* A directory is a function from the names of its files to what they      *)
(* hold, [by, whole]: whose bytes, and whether all of them.                *)
(***************************************************************************)
EXTENDS Naturals, Sequences

CONSTANTS
    Writers,        \* the processes
    Commands,       \* what they may be told: Writers -> [files, wasm, output],
                    \* the files written in place, in order, whether a package
                    \* is built, and where
    Nonces,         \* readings of the clock
    Artifacts,      \* what wasm-pack can leave in pkg -> "wasm", "js", "d.ts" or "other"
    Outputs,
    Old             \* who wrote what is at the outputs before

VARIABLES
    command,        \* a member of Commands
    places,         \* Outputs -> the files written in place there
    packages,       \* Outputs -> the files of the wasm directory there
    staging,        \* Nonces -> [exists, source, pkg]: a temporary directory
    phase,          \* Writers -> where each process is
    done,           \* Writers -> how many files it has written in place
    nonce,          \* Writers -> {} or the reading it drew
    listing         \* Writers -> the artifacts it still has to copy

sdkVars == <<command, places, packages, staging, phase, done, nonce, listing>>

Empty == << >>
Holds(q, whole) == [by |-> q, whole |-> whole]
With(directory, file, content) ==
    [f \in DOMAIN directory \cup {file} |-> IF f = file THEN content ELSE directory[f]]

NoStaging == [exists |-> FALSE, source |-> Old, pkg |-> Empty]
SdkEnded == {"refused", "io", "build failed", "incomplete", "generated", "killed"}

OutputOf(q) == command[q].output
Nonce(q) == CHOOSE n \in nonce[q] : TRUE
Staging(q) == staging[Nonce(q)]

\* Every output holds the same files before; the processes are to start or not.
Init(before, start) ==
    /\ command \in Commands
    /\ places = [o \in Outputs |-> Empty]
    /\ packages = [o \in Outputs |-> before]
    /\ staging = [n \in Nonces |-> NoStaging]
    /\ phase = [q \in Writers |-> start]
    /\ done = [q \in Writers |-> 0]
    /\ nonce = [q \in Writers |-> {}]
    /\ listing = [q \in Writers |-> {}]

Moves(q, from, to) == phase[q] = from /\ phase' = [phase EXCEPT ![q] = to]

-----------------------------------------------------------------------------

\* Parsing and generation, before anything is written.
Generate(q) ==
    /\ phase[q] = "start"
    /\ \E to \in {"write", "refused"} : phase' = [phase EXCEPT ![q] = to]
    /\ UNCHANGED <<command, places, packages, staging, done, nonce, listing>>

\* fs::write: the file is emptied, then filled.
OpenFile(q) ==
    /\ done[q] < Len(command[q].files)
    /\ Moves(q, "write", "opened")
    /\ places' = [places EXCEPT ![OutputOf(q)] =
                    With(@, command[q].files[done[q] + 1], Holds(q, FALSE))]
    /\ UNCHANGED <<command, packages, staging, done, nonce, listing>>

FillFile(q) ==
    /\ Moves(q, "opened", "write")
    /\ places' = [places EXCEPT ![OutputOf(q)] =
                    With(@, command[q].files[done[q] + 1], Holds(q, TRUE))]
    /\ done' = [done EXCEPT ![q] = @ + 1]
    /\ UNCHANGED <<command, packages, staging, nonce, listing>>

\* The last file in place: the command is over, or the package is next.
FilesWritten(q) ==
    /\ done[q] = Len(command[q].files)
    /\ Moves(q, "write", IF command[q].wasm THEN "stage" ELSE "generated")
    /\ UNCHANGED <<command, places, packages, staging, done, nonce, listing>>

\* build_wasm_sdk: create_dir_all, which does not mind a directory that is there,
\* then the manifest and the source.
Stage(q, n) ==
    /\ Moves(q, "stage", "build")
    /\ nonce' = [nonce EXCEPT ![q] = {n}]
    /\ staging' = [staging EXCEPT ![n] = [exists |-> TRUE, source |-> q, pkg |-> @.pkg]]
    /\ UNCHANGED <<command, places, packages, done, listing>>

\* wasm-pack succeeds: it compiles the source that is there, and leaves some of
\* its artifacts.
Build(q, made) ==
    /\ Moves(q, "build", "inspect")
    /\ Staging(q).exists
    /\ staging' = [staging EXCEPT ![Nonce(q)].pkg =
                     [f \in DOMAIN @ \cup made |->
                        IF f \in made THEN Holds(Staging(q).source, TRUE) ELSE @[f]]]
    /\ UNCHANGED <<command, places, packages, done, nonce, listing>>

\* wasm-pack cannot be run or fails: the temporary directory stays behind.
BuildFails(q) ==
    /\ Moves(q, "build", "build failed")
    /\ UNCHANGED <<command, places, packages, staging, done, nonce, listing>>

\* Defect: two of the three kinds of artifact are enough.
IsPackageWithoutTypes(pkg) ==
    \A kind \in {"wasm", "js"} : \E f \in DOMAIN pkg : Artifacts[f] = kind

IsPackage(pkg) ==
    \A kind \in {"wasm", "js", "d.ts"} : \E f \in DOMAIN pkg : Artifacts[f] = kind

\* One of the three required artifacts is missing (read_dir fails when somebody
\* else has removed the directory: CallFails).
RejectPackage(q) ==
    /\ Moves(q, "inspect", "incomplete")
    /\ Staging(q).exists /\ ~IsPackage(Staging(q).pkg)
    /\ staging' = [staging EXCEPT ![Nonce(q)] = NoStaging]
    /\ UNCHANGED <<command, places, packages, done, nonce, listing>>

AcceptPackage(q) ==
    /\ Moves(q, "inspect", "replace")
    /\ IsPackage(Staging(q).pkg)
    /\ UNCHANGED <<command, places, packages, staging, done, nonce, listing>>

\* Defect: the old output is copied over, not removed.
KeepsOldOutput(q) ==
    /\ Moves(q, "replace", "copy")
    /\ Staging(q).exists
    /\ listing' = [listing EXCEPT ![q] = DOMAIN Staging(q).pkg]
    /\ UNCHANGED <<command, places, packages, staging, done, nonce>>

\* The old output is removed, file after file; then the directory is made again
\* and the package is listed.
RemoveFile(q) ==
    /\ phase[q] = "replace"
    /\ \E f \in DOMAIN packages[OutputOf(q)] :
          packages' = [packages EXCEPT ![OutputOf(q)] = [g \in DOMAIN @ \ {f} |-> @[g]]]
    /\ UNCHANGED <<command, places, staging, phase, done, nonce, listing>>

ReplaceOutput(q) ==
    /\ Moves(q, "replace", "copy")
    /\ packages[OutputOf(q)] = Empty
    /\ Staging(q).exists
    /\ listing' = [listing EXCEPT ![q] = DOMAIN Staging(q).pkg]
    /\ UNCHANGED <<command, places, packages, staging, done, nonce>>

\* fs::copy of the next artifact: first its name is there, then its bytes.
NextArtifact(q) == CHOOSE f \in listing[q] : TRUE

CopyNext(q, whole) ==
    /\ listing[q] # {} /\ NextArtifact(q) \in DOMAIN Staging(q).pkg
    /\ packages' = [packages EXCEPT ![OutputOf(q)] =
                      With(@, NextArtifact(q), Holds(Staging(q).pkg[NextArtifact(q)].by, whole))]

OpenCopy(q) ==
    /\ Moves(q, "copy", "copying")
    /\ CopyNext(q, FALSE)
    /\ UNCHANGED <<command, places, staging, done, nonce, listing>>

FillCopy(q) ==
    /\ Moves(q, "copying", "copy")
    /\ CopyNext(q, TRUE)
    /\ listing' = [listing EXCEPT ![q] = @ \ {NextArtifact(q)}]
    /\ UNCHANGED <<command, places, staging, done, nonce>>

\* Defect: the temporary directory is not needed once the copying has started.
FinishesFirst(q) ==
    /\ \/ Moves(q, "copy", "generated") /\ listing[q] = {}
       \/ phase[q] = "copy" /\ listing[q] # {} /\ UNCHANGED phase
    /\ staging' \in {staging, [staging EXCEPT ![Nonce(q)] = NoStaging]}
    /\ UNCHANGED <<command, places, packages, done, nonce, listing>>

\* Everything is copied; the temporary directory is removed as far as possible.
FinishPackage(q) ==
    /\ Moves(q, "copy", "generated")
    /\ listing[q] = {}
    /\ staging' \in {staging, [staging EXCEPT ![Nonce(q)] = NoStaging]}
    /\ UNCHANGED <<command, places, packages, done, nonce, listing>>

\* A file system call fails: panic, everything stays as it is.
CallFails(q) ==
    /\ phase[q] \notin SdkEnded \cup {"start"}
    /\ phase' = [phase EXCEPT ![q] = "io"]
    /\ UNCHANGED <<command, places, packages, staging, done, nonce, listing>>

SdkStep(q) ==
    \/ Generate(q) \/ OpenFile(q) \/ FillFile(q) \/ FilesWritten(q)
    \/ \E n \in Nonces : Stage(q, n)
    \/ \E made \in SUBSET DOMAIN Artifacts : Build(q, made)
    \/ BuildFails(q) \/ RejectPackage(q) \/ AcceptPackage(q)
    \/ RemoveFile(q) \/ ReplaceOutput(q) \/ OpenCopy(q) \/ FillCopy(q) \/ FinishPackage(q)
    \/ CallFails(q)

SdkKill(q) ==
    /\ phase[q] \notin SdkEnded
    /\ phase' = [phase EXCEPT ![q] = "killed"]
    /\ UNCHANGED <<command, places, packages, staging, done, nonce, listing>>

SdkNext == \E q \in Writers : SdkStep(q) \/ SdkKill(q)

-----------------------------------------------------------------------------

\* Nobody else drew q's reading of the clock.
OwnStaging(q) == \A other \in Writers \ {q} : nonce[other] \cap nonce[q] = {}

SharesNoOutput(q) == \A other \in Writers \ {q} : OutputOf(other) # OutputOf(q)

Alone(q) == OwnStaging(q) /\ SharesNoOutput(q)

\* Those whose sources were in the temporary directory of q.
Sharers(q) == {q} \cup {other \in Writers : nonce[other] \cap nonce[q] # {}}

HasEveryKind(pkg) ==
    {"wasm", "js", "d.ts"} \subseteq {Artifacts[f] : f \in DOMAIN pkg \cap DOMAIN Artifacts}

\* A file of the package at q's output is there whole, from such a source.
FromSharer(q, f) ==
    /\ packages[OutputOf(q)][f].whole
    /\ packages[OutputOf(q)][f].by \in Sharers(q)

\* A process that reported success at an output of its own has left there its own
\* files and a package of files that are all whole: nothing of an earlier package
\* or of a run that was killed is mixed in, whoever worked in its temporary
\* directory.  What it shares that directory with are those that drew the same
\* reading of the clock, and only their builds can be in the package; when there
\* are none it is its own build, with a module, its script and its types.
SdkIsOwn ==
    \A q \in Writers :
        phase[q] = "generated" /\ SharesNoOutput(q) =>
            /\ \A i \in DOMAIN command[q].files :
                  places[OutputOf(q)][command[q].files[i]] = Holds(q, TRUE)
            /\ command[q].wasm =>
                  /\ \A f \in DOMAIN packages[OutputOf(q)] : FromSharer(q, f)
                  /\ OwnStaging(q) => HasEveryKind(packages[OutputOf(q)])

\* The output of q has all of its build, whole.
IsDelivered(q) ==
    \A f \in DOMAIN Staging(q).pkg :
        f \in DOMAIN packages[OutputOf(q)] /\ packages[OutputOf(q)][f] = Holds(q, TRUE)

\* The package at o changes only at the hand of a process whose build is there,
\* with all three kinds of artifact.
OldIsKept(o) ==
    packages'[o] # packages[o] =>
        \E q \in Writers :
            /\ OutputOf(q) = o
            /\ nonce[q] # {} /\ (OwnStaging(q) => HasEveryKind(Staging(q).pkg))

\* The build of a process that works alone goes only when it is at the output.
BuildIsKept(q) ==
    nonce[q] # {} /\ Alone(q) /\ HasEveryKind(Staging(q).pkg) /\ ~HasEveryKind(Staging(q).pkg)' =>
        IsDelivered(q)

\* Whenever a process fails or is killed, a whole package can still be had: a
\* failed or incomplete build, and a process that dies before it has built, leave
\* the older package as it was, and one that dies between the removal of that
\* package and the end of the copying leaves its build in the temporary directory.
\* (Somebody who drew the same reading can take the build away; two processes at
\* one output can mix their packages.)
PackageNotLost == [][(\A o \in Outputs : OldIsKept(o)) /\ (\A q \in Writers : BuildIsKept(q))]_sdkVars

-----------------------------------------------------------------------------
(* The inductive invariant: what is true of each process between any two    *)
(* steps of all of them.                                                    *)

\* It has drawn a name and works with the directory of that name.
Staged == {"build", "inspect", "replace", "copy", "copying"}

Phases == {"start", "write", "opened", "stage"} \cup Staged \cup SdkEnded

\* What a build can have left in a temporary directory.
Builds == UNION {[built -> [by : Writers \cup {Old}, whole : {TRUE}]] : built \in SUBSET DOMAIN Artifacts}

SdkTypeOK ==
    /\ command \in Commands
    /\ DOMAIN places = Outputs /\ DOMAIN packages = Outputs
    /\ staging \in [Nonces -> [exists : BOOLEAN, source : Writers \cup {Old}, pkg : Builds]]
    /\ phase \in [Writers -> Phases]
    /\ done \in [Writers -> Nat]
    /\ nonce \in [Writers -> SUBSET Nonces]
    /\ listing \in [Writers -> SUBSET DOMAIN Artifacts]

\* A directory nobody has drawn is as it was before any process ran.
UndrawnIsClean ==
    \A n \in Nonces : (\A q \in Writers : n \notin nonce[q]) => staging[n] = NoStaging

\* A process draws once.
DrawsOnce(q) ==
    /\ phase[q] \in {"start", "write", "opened", "stage"} => nonce[q] = {}
    /\ phase[q] \in Staged => \E n \in Nonces : nonce[q] = {n}

\* What it has built is its own, and complete before it touches the output.
BuildIsOwn(q) ==
    phase[q] \in Staged /\ OwnStaging(q) =>
        /\ Staging(q).source = q
        /\ \A f \in DOMAIN Staging(q).pkg : Staging(q).pkg[f] = Holds(q, TRUE)
        /\ phase[q] \in {"replace", "copy", "copying"} => IsPackage(Staging(q).pkg)

\* The files it has written are there, the one being written apart.
FilesAreOwn(q) ==
    /\ done[q] <= Len(command[q].files)
    /\ phase[q] = "start" => done[q] = 0
    /\ phase[q] = "opened" => done[q] < Len(command[q].files)
    /\ phase[q] \in {"stage", "generated"} \cup Staged => done[q] = Len(command[q].files)
    /\ SharesNoOutput(q) /\ phase[q] \in {"write", "opened", "stage", "generated"} \cup Staged =>
          \A i \in 1..done[q] :
              \/ phase[q] = "opened" /\ command[q].files[i] = command[q].files[done[q] + 1]
              \/ /\ command[q].files[i] \in DOMAIN places[OutputOf(q)]
                 /\ places[OutputOf(q)][command[q].files[i]] = Holds(q, TRUE)

\* While it copies, the output holds what it has listed and copied, and nothing
\* else; in the end all of it.
CopyIsOwn(q) ==
    Alone(q) =>
        /\ phase[q] \in {"copy", "copying"} =>
              /\ listing[q] \subseteq DOMAIN Staging(q).pkg
              /\ DOMAIN packages[OutputOf(q)] = (DOMAIN Staging(q).pkg \ listing[q])
                     \cup {f \in listing[q] : phase[q] = "copying" /\ f = NextArtifact(q)}
              /\ \A f \in DOMAIN Staging(q).pkg \ listing[q] : packages[OutputOf(q)][f] = Holds(q, TRUE)
        /\ phase[q] = "copying" => listing[q] # {}
        /\ phase[q] = "generated" /\ command[q].wasm =>
              /\ HasEveryKind(packages[OutputOf(q)])
              /\ \A f \in DOMAIN packages[OutputOf(q)] : packages[OutputOf(q)][f] = Holds(q, TRUE)

ProcessInv(q) == DrawsOnce(q) /\ BuildIsOwn(q) /\ FilesAreOwn(q) /\ CopyIsOwn(q)

SdkInv ==
    /\ SdkTypeOK
    /\ UndrawnIsClean
    /\ \A q \in Writers : ProcessInv(q)

\* A temporary directory holds sources and builds of those that drew its name.
Drawers(n) == {q \in Writers : n \in nonce[q]}

BuiltByDrawers ==
    \A n \in Nonces :
        /\ staging[n].exists => staging[n].source \in Drawers(n)
        /\ \A f \in DOMAIN staging[n].pkg : staging[n].pkg[f].by \in Drawers(n)

\* What is copied comes from there, the artifact being copied apart.
CopiedFromSharers(q) ==
    SharesNoOutput(q) =>
        /\ phase[q] \in {"copy", "copying"} =>
              \A f \in DOMAIN packages[OutputOf(q)] :
                 (phase[q] = "copying" /\ f = NextArtifact(q)) \/ FromSharer(q, f)
        /\ phase[q] = "generated" /\ command[q].wasm =>
              \A f \in DOMAIN packages[OutputOf(q)] : FromSharer(q, f)

SharingInv == BuiltByDrawers /\ \A q \in Writers : CopiedFromSharers(q)
=============================================================================
