---------------------------- MODULE WorkspaceMount ----------------------------
(***************************************************************************)
(* The loader that generate_workspace_view puts in a page                  *)
(* (workspace_view_browser.js): `mount` claims a root element, `load`      *)
(* fetches and verifies every bound file under a 15 s timer, links the     *)
(* modules through blob URLs, compiles the guests and imports the host,    *)
(* and `openWorkspaceView` renders into the root.  Several calls of mount  *)
(* interleave at their awaits; the code between two awaits is one step.    *)
(*                                                                         *)
(* A file is its length and whether its bytes are the bound ones; SHA-256  *)
(* is taken to tell any other bytes apart.  `openWorkspaceView` and its    *)
(* view are external.  The handle's `dispatch` changes nothing here.       *)
(***************************************************************************)
EXTENDS Naturals, Sequences

CONSTANTS
    Calls,      \* the calls of mount a page makes
    Roots,      \* the elements it mounts on
    Sizes,      \* BINDING: the bound size of each fetched file, in load order
    Parts,      \* how many bytes the network may hand over at once
    Modules,    \* how many of them are SDK modules, linked through blob URLs
    Guests      \* how many of them are guests, compiled

ASSUME MountAssumption ==
    /\ Sizes \in Seq(Nat \ {0})
    /\ Len(Sizes) > 0
    /\ Parts \subseteq Nat
    /\ Modules \in Nat /\ Guests \in Nat

NoRoot == "no root"

\* The bytes received for the files: the bound ones, or something else.
Bytes == {"bound", "other"}

\* The states of a call: `load` runs in Loading, the root is claimed in Claimed.
Fetching == {"fetch", "read", "digest"}
Loading == Fetching \cup {"link", "compile", "import"}
Claimed == Loading \cup {"open", "live"}
States == Claimed \cup {"idle", "rejected", "failed", "closed"}

VARIABLES
    mounts,   \* the module's WeakSet of claimed roots
    dom,      \* dom[r]: the calls whose view has children in r
    call      \* each call of mount

vars == <<mounts, dom, call>>

NewCall == [st |-> "idle", root |-> NoRoot, done |-> 0, got |-> 0, bytes |-> "bound",
            built |-> 0, urls |-> 0, timer |-> "off"]

Init ==
    /\ mounts = {}
    /\ dom = [r \in Roots |-> {}]
    /\ call = [c \in Calls |-> NewCall]

----------------------------------------------------------------------------
(* mount, up to its first await.                                           *)

\* The arguments pass and the root is free: claim it, start `load` and its timer.
Mount(c, r) ==
    /\ call[c].st = "idle"
    /\ r \notin mounts
    /\ mounts' = mounts \cup {r}
    /\ call' = [call EXCEPT ![c].st = "fetch", ![c].root = r, ![c].timer = "armed"]
    /\ UNCHANGED dom

\* Defect: one catch serves the whole function.
RejectReleases(c, r) ==
    /\ call[c].st = "idle"
    /\ call' = [call EXCEPT ![c].st = "rejected"]
    /\ mounts' = mounts \ {r}
    /\ dom' = [dom EXCEPT ![r] = {}]

\* A bad argument, a detached element or a claimed root.
MountRejected(c, r) ==
    /\ call[c].st = "idle"
    /\ call' = [call EXCEPT ![c].st = "rejected"]
    /\ UNCHANGED <<mounts, dom>>

----------------------------------------------------------------------------
(* load                                                                    *)

\* Defect: load has no `finally`.
LeavesAll(l) == l

\* load's `finally`: clear the timer, abort, revoke every blob URL.
Cleaned(l) == [l EXCEPT !.timer = "off", !.urls = 0]

\* Defect: the failure leaves the root claimed.
FailKeepsClaim(c) ==
    /\ call' = [call EXCEPT ![c] = [Cleaned(@) EXCEPT !.st = "failed"]]
    /\ dom' = [dom EXCEPT ![call[c].root] = {}]
    /\ UNCHANGED mounts

\* mount's outer catch after a failed load or a failed open: release the root
\* and empty it.
Fail(c) ==
    /\ call' = [call EXCEPT ![c] = [Cleaned(@) EXCEPT !.st = "failed"]]
    /\ mounts' = mounts \ {call[c].root}
    /\ dom' = [dom EXCEPT ![call[c].root] = {}]

Size(c) == Sizes[call[c].done + 1]

\* The response headers are good; the body is read into a buffer of the bound size.
FetchOk(c) ==
    /\ call[c].st = "fetch"
    /\ call[c].timer = "armed"
    /\ call' = [call EXCEPT ![c].st = "read", ![c].got = 0]
    /\ UNCHANGED <<mounts, dom>>

\* A network error, a redirect, a status, no body; or the signal is aborted.
FetchFails(c) ==
    /\ call[c].st = "fetch"
    /\ Fail(c)

\* Defect: the bytes already there are forgotten.
FitsInFile(c, n) == 0 < n /\ n <= Size(c)

\* A part is not empty and fits in what is left of the buffer.
Fits(c, n) == 0 < n /\ n <= Size(c) - call[c].got

\* A part of n bytes is put behind the others.
ReadPart(c, part) ==
    /\ call[c].st = "read"
    /\ call[c].timer = "armed"
    /\ \E n \in Parts :
         /\ Fits(c, n)
         /\ call' = [call EXCEPT ![c].got = @ + n, ![c].bytes = IF part = "bound" THEN @ ELSE part]
    /\ UNCHANGED <<mounts, dom>>

\* An empty part, one that does not fit, or a read that rejects.
ReadFails(c) ==
    /\ call[c].st = "read"
    /\ Fail(c)

\* The body ends; the digest is awaited.
ReadDone(c) ==
    /\ call[c].st = "read"
    /\ call[c].timer = "armed"
    /\ call' = [call EXCEPT ![c].st = "digest"]
    /\ UNCHANGED <<mounts, dom>>

\* Defect: the digest decides without the length (a zero tail is not noticed).
VerifiedByDigest(c) == call[c].bytes = "bound"

\* The length and the SHA-256 are the bound ones.
Verified(c) == call[c].got = Size(c) /\ call[c].bytes = "bound"

\* The file is kept; the next one is fetched, or all are there.
DigestOk(c) ==
    /\ call[c].st = "digest"
    /\ Verified(c)
    /\ call' = [call EXCEPT
                  ![c].done = @ + 1,
                  ![c].st = IF call[c].done + 1 = Len(Sizes) THEN "link" ELSE "fetch"]
    /\ UNCHANGED <<mounts, dom>>

DigestFails(c) ==
    /\ call[c].st = "digest"
    /\ ~Verified(c)
    /\ Fail(c)

\* One blob URL for each module, dependencies first; compiling starts.
Link(c) ==
    /\ call[c].st = "link"
    /\ call' = [call EXCEPT ![c].urls = Modules,
                            ![c].st = IF Guests = 0 THEN "import" ELSE "compile"]
    /\ UNCHANGED <<mounts, dom>>

\* A module that does not decode, or does not import a dependency exactly once:
\* the modules before it have their URLs.
LinkFails(c) ==
    /\ call[c].st = "link"
    /\ Modules > 0
    /\ Fail(c)

\* The next guest compiles and imports nothing.
CompileOk(c) ==
    /\ call[c].st = "compile"
    /\ call' = [call EXCEPT ![c].built = @ + 1,
                            ![c].st = IF call[c].built + 1 = Guests THEN "import" ELSE "compile"]
    /\ UNCHANGED <<mounts, dom>>

CompileFails(c) ==
    /\ call[c].st = "compile"
    /\ Fail(c)

\* The host module is there and exports the function: load returns.
ImportOk(c) ==
    /\ call[c].st = "import"
    /\ call' = [call EXCEPT ![c] = [Cleaned(@) EXCEPT !.st = "open"]]
    /\ UNCHANGED <<mounts, dom>>

ImportFails(c) ==
    /\ call[c].st = "import"
    /\ Fail(c)

\* Defect: the timer is cleared when the first response arrives.
TimerIgnored(c) ==
    /\ call[c].timer = "armed"
    /\ call[c].st = "fetch"
    /\ call' = [call EXCEPT ![c].timer = "fired"]
    /\ UNCHANGED <<mounts, dom>>

\* 15 s are over: the signal is aborted, and with it the fetch or read under way.
TimerFires(c) ==
    /\ call[c].timer = "armed"
    /\ call' = [call EXCEPT ![c].timer = "fired"]
    /\ UNCHANGED <<mounts, dom>>

----------------------------------------------------------------------------
(* The view.                                                               *)

\* openWorkspaceView puts children into the root.
OpenRenders(c) ==
    /\ call[c].st = "open"
    /\ dom' = [dom EXCEPT ![call[c].root] = @ \cup {c}]
    /\ UNCHANGED <<mounts, call>>

\* openWorkspaceView resolves and mount returns its handle.
OpenOk(c) ==
    /\ call[c].st = "open"
    /\ c \in dom[call[c].root]
    /\ call' = [call EXCEPT ![c].st = "live"]
    /\ UNCHANGED <<mounts, dom>>

OpenFails(c) ==
    /\ call[c].st = "open"
    /\ Fail(c)

\* Defect: the handle does not remember that it is closed.
ClosesAgain(c) ==
    /\ call[c].st \in {"live", "closed"}
    /\ call' = [call EXCEPT ![c].st = "closed"]
    /\ mounts' = mounts \ {call[c].root}
    /\ \/ dom' = [dom EXCEPT ![call[c].root] = @ \ {c}]
       \/ UNCHANGED dom

\* The handle's `close`, which the page may call again: the first time the view
\* is closed (or throws and leaves its children) and the root released.
Close(c) ==
    /\ call[c].st \in {"live", "closed"}
    /\ IF call[c].st = "closed" THEN UNCHANGED vars
       ELSE /\ call' = [call EXCEPT ![c].st = "closed"]
            /\ mounts' = mounts \ {call[c].root}
            /\ \/ dom' = [dom EXCEPT ![call[c].root] = @ \ {c}]
               \/ UNCHANGED dom

\* The steps of `load` that happen whatever the network does: what waits on an
\* aborted signal rejects, digests, compilations and imports end.
LoadStep(c) ==
    \/ call[c].timer = "fired" /\ (FetchFails(c) \/ ReadFails(c))
    \/ DigestOk(c) \/ DigestFails(c)
    \/ Link(c) \/ LinkFails(c)
    \/ CompileOk(c) \/ CompileFails(c)
    \/ ImportOk(c) \/ ImportFails(c)

\* What the network decides.
Network(c) ==
    \/ FetchOk(c) \/ FetchFails(c)
    \/ \E part \in Bytes : ReadPart(c, part)
    \/ ReadDone(c) \/ ReadFails(c)

Page(c) ==
    \/ \E r \in Roots : Mount(c, r) \/ MountRejected(c, r)
    \/ Close(c)

ViewHost(c) == OpenRenders(c) \/ OpenOk(c) \/ OpenFails(c)

\* Every call has failed or been rejected and the page makes no other.
PageDone ==
    /\ \A c \in Calls : call[c].st \in {"rejected", "failed"}
    /\ UNCHANGED vars

Next ==
    \/ \E c \in Calls : Page(c) \/ Network(c) \/ LoadStep(c) \/ TimerFires(c) \/ ViewHost(c)
    \/ PageDone

Spec == Init /\ [][Next]_vars

\* The browser runs timers and settles what does not depend on the network.
FairSpec == Spec /\ \A c \in Calls : WF_vars(LoadStep(c)) /\ WF_vars(TimerFires(c))

----------------------------------------------------------------------------
(* Properties.                                                             *)

\* Calls are at the code's await points.
TypeOK ==
    /\ mounts \subseteq Roots
    /\ dom \in [Roots -> SUBSET Calls]
    /\ call \in [Calls -> [st : States, root : Roots \cup {NoRoot}, done : 0 .. Len(Sizes),
                           got : Nat, bytes : Bytes, built : 0 .. Guests,
                           urls : 0 .. Modules, timer : {"off", "armed", "fired"}]]
    /\ \A c \in Calls :
         /\ call[c].st \in Fetching => call[c].done < Len(Sizes)
         /\ call[c].st \in Claimed => call[c].root \in Roots

\* However calls interleave, two of them never load, open or show a view on the
\* same root (mounts.has and mounts.add with no await between them, 63-66).
OneMountPerRoot ==
    \A c, d \in Calls :
        c # d /\ call[c].st \in Claimed /\ call[d].st \in Claimed => call[c].root # call[d].root

\* A root is claimed exactly as long as some call loads, opens or shows a view
\* on it: a failure or a close always releases it, and neither a rejected mount
\* nor a second close releases the claim of somebody else (65, 75, 78).
ClaimsExact == mounts = {call[c].root : c \in {d \in Calls : call[d].st \in Claimed}}

\* The claims are locks: one holder for each root that is claimed, and none for
\* the others, through failures, rejected mounts and repeated closes.
RootsAreLocked == OneMountPerRoot /\ ClaimsExact

\* The children of a live view leave its root only through its own close: no
\* failing mount empties a root that shows somebody's view (78).
LiveViewKept ==
    [][\A c \in Calls : call[c].st = "live" /\ call'[c].st = "live" =>
         c \in dom[call[c].root] /\ c \in dom'[call[c].root]]_vars

\* A load that has ended, in whichever way, has no timer pending and no blob URL
\* alive (57).
LoadCleansUp ==
    \A c \in Calls : call[c].st \notin Loading => call[c].timer = "off" /\ call[c].urls = 0

\* However the network cuts a body into parts, and however long it makes it, a
\* load never takes more bytes than the file is bound to have (24: the overrun is
\* stopped part by part, not by the comparison at the end), and a view is opened
\* only on files that are all there and all as bound (28).
OnlyVerified ==
    \A c \in Calls :
        /\ call[c].st \in {"read", "digest"} => call[c].got <= Size(c)
        /\ call[c].st \in {"link", "compile", "import", "open", "live"} =>
             call[c].done = Len(Sizes) /\ call[c].bytes = "bound" /\ call[c].got = Sizes[Len(Sizes)]

\* A server that stalls or trickles cannot keep a load, and with it the root,
\* forever: the timer ends what the network does not (32).
LoadEnds == \A c \in Calls : call[c].st \in Loading ~> call[c].st \notin Loading
=============================================================================
