--------------------------------- MODULE Cli ---------------------------------
(***************************************************************************)
(* The commands of `prod` (rust/prod-cli/src/main.rs) that write files or  *)
(* judge an input: publishing a package (PublishPackage), generating       *)
(* sources and SDKs (WasmSdk), and the root commands (Roots), which only   *)
(* read.  A behaviour is that of the processes of one family.              *)
(***************************************************************************)
EXTENDS PublishPackage

CONSTANTS
    Writers, Commands, Nonces, Artifacts, Outputs, Old,     \* see WasmSdk
    Before,         \* what may be at the outputs before
    RootFiles       \* see Roots

VARIABLES
    family,         \* "publish", "sdk" or "roots"
    command, places, packages, staging, phase, done, nonce, listing,  \* see WasmSdk
    roots, marks, path, report      \* see Roots

sdkState == <<command, places, packages, staging, phase, done, nonce, listing>>
rootState == <<roots, marks, path, report>>
cliVars == <<vars, family, sdkState, rootState>>

ASSUME SdkAssumption ==
    \A c \in Commands : \A q \in Writers :
        c[q].files \in Seq(STRING) /\ c[q].wasm \in BOOLEAN /\ c[q].output \in Outputs

\* An objective is an unsigned integer.
ASSUME RootsAssumption ==
    \A f \in RootFiles : \A i \in DOMAIN f.roots : f.roots[i].cost \in [1..3 -> Nat]

Sdk == INSTANCE WasmSdk
Analysis == INSTANCE Roots

CliInit ==
    /\ family \in {"publish", "sdk", "roots"}
    /\ dirs = {} /\ tree = [d \in Names \cup {Output} |-> {}]
    /\ name = [p \in Procs |-> Output] /\ at = [p \in Procs |-> 0]
    /\ pc = [p \in Procs |-> IF family = "publish" THEN "generate" ELSE "killed"]
    /\ \E before \in (IF family = "sdk" THEN Before ELSE {<< >>}) :
          Sdk!Init(before, IF family = "sdk" THEN "start" ELSE "killed")
    /\ family # "sdk" => command = CHOOSE c \in Commands : TRUE
    /\ IF family = "roots" THEN Analysis!RootInit
       ELSE roots = << >> /\ marks = << >> /\ path = << >> /\ report = << >>

Publishing == family = "publish" /\ Next /\ UNCHANGED <<family, sdkState, rootState>>

Generating == family = "sdk" /\ Sdk!SdkNext /\ UNCHANGED <<vars, family, rootState>>

AllGenerated ==
    /\ family = "sdk" /\ \A q \in Writers : phase[q] \in Sdk!SdkEnded
    /\ UNCHANGED cliVars

Judging == family = "roots" /\ Analysis!RootNext /\ UNCHANGED <<vars, family, sdkState>>

Reported == report # << >> /\ UNCHANGED cliVars

CliNext ==
    \/ Publishing \/ Generating \/ AllGenerated
    \/ Judging \/ Reported

\* The operating system keeps running every process it has not killed.
CliSpec ==
    /\ CliInit /\ [][CliNext]_cliVars
    /\ \A p \in Procs : WF_cliVars(family = "publish" /\ Step(p) /\ UNCHANGED <<family, sdkState, rootState>>)
    /\ \A q \in Writers : WF_cliVars(family = "sdk" /\ Sdk!SdkStep(q) /\ UNCHANGED <<vars, family, rootState>>)
    /\ WF_cliVars(Judging)

-----------------------------------------------------------------------------

\* Every process that was started ends, whichever command it runs and whoever
\* works at the same paths: it reports success, or says why not, or is killed.
EveryCommandEnds ==
    /\ EveryProcessEnds
    /\ \A q \in Writers : <>(phase[q] \in Sdk!SdkEnded)
    /\ family = "roots" => Analysis!RootCommandEnds

SdkIsOwn == Sdk!SdkIsOwn
PackageNotLost == Sdk!PackageNotLost

\* What the root commands report is what the file says.
RootReportsAreRight == Analysis!CheckIsExact /\ Analysis!FrontCovers
=============================================================================
