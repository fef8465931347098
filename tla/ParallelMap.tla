---------------------------- MODULE ParallelMap ----------------------------
(***************************************************************************)
(* prod_runtime::parallel_map, one call: the caller's thread, the scoped   *)
(* worker threads it spawns, and the output slice they share.              *)
(*                                                                         *)
(* The caller's thread is at pc.  `at` is how far it has walked into the   *)
(* input: the inline loop's position, or the chunk iterator's.  `handles`  *)
(* is the Vec of join handles in spawn order; the record of a handle is    *)
(* the state of its thread: the chunk lo..hi it owns, the index pos it is  *)
(* at, and st ("ready" between two closure calls, "calling" inside one,    *)
(* or how it ended).  `joined` counts the handles already joined.          *)
(***************************************************************************)
EXTENDS Naturals, Sequences

CONSTANT Requests

VARIABLES req, pc, at, handles, joined, failure, result, out

vars == <<req, pc, at, handles, joined, failure, result, out>>

\* What a call promises (module MapPromise), over this module's state.
Promise == INSTANCE MapPromise WITH
    status <- IF pc \in {"returned", "unwound"} THEN "done" ELSE "pending",
    result <- IF pc \in {"returned", "unwound"} THEN result ELSE
                 [tag |-> "Pending", at |-> 0],
    output <- IF pc \in {"returned", "unwound"} THEN out ELSE
                 [i \in 1 .. req.output |-> "old"]

ASSUME RequestsWellFormed ==
    \A r \in Requests :
        /\ r.input \in Nat
        /\ r.output \in Nat
        /\ r.workers \in Nat
        /\ r.f \in [1 .. r.input -> {"ok", "err", "panic"}]

Ended == {"ok", "err", "panic"}

None == [tag |-> "None", at |-> 0]

Outcome(tag, i) == [tag |-> tag, at |-> i]

\* workers.min(input.len())
WorkerCount(r) == IF r.workers <= r.input THEN r.workers ELSE r.input

\* input.len().div_ceil(worker_count)
ChunkSize(r) == (r.input + WorkerCount(r) - 1) \div WorkerCount(r)

\* The last index of the chunk that starts after `from`.
ChunkEnd(r, from) ==
    IF from + ChunkSize(r) <= r.input THEN from + ChunkSize(r) ELSE r.input

Init ==
    /\ req \in Requests
    /\ pc = "enter"
    /\ at = 0
    /\ handles = <<>>
    /\ joined = 0
    /\ failure = None
    /\ result = None
    /\ out = [i \in 1 .. req.output |-> "old"]

----------------------------------------------------------------------------
(* The caller's thread: argument checks and the choice of a path.          *)

Accepted == req.workers # 0 /\ req.input = req.output

RejectWorkers ==
    /\ pc = "enter"
    /\ req.workers = 0
    /\ pc' = "returned"
    /\ result' = Outcome("InvalidWorkerCount", 0)
    /\ UNCHANGED <<req, at, handles, joined, failure, out>>

RejectLengths ==
    /\ pc = "enter"
    /\ req.workers # 0
    /\ req.input # req.output
    /\ pc' = "returned"
    /\ result' = Outcome("LengthMismatch", 0)
    /\ UNCHANGED <<req, at, handles, joined, failure, out>>

EmptyInput ==
    /\ pc = "enter"
    /\ Accepted
    /\ req.input = 0
    /\ pc' = "returned"
    /\ result' = Outcome("Ok", 0)
    /\ UNCHANGED <<req, at, handles, joined, failure, out>>

Dispatch ==
    /\ pc = "enter"
    /\ Accepted
    /\ req.input # 0
    /\ pc' = IF WorkerCount(req) = 1 THEN "inline" ELSE "spawn"
    /\ UNCHANGED <<req, at, handles, joined, failure, result, out>>

----------------------------------------------------------------------------
(* worker_count == 1: the closure runs on the caller's own stack.  An Err  *)
(* leaves by `?`; a panic is caught by nobody here and unwinds the caller. *)

InlineOk ==
    /\ pc = "inline"
    /\ req.f[at + 1] = "ok"
    /\ at' = at + 1
    /\ out' = [out EXCEPT ![at + 1] = "new"]
    /\ IF at + 1 = req.input
       THEN pc' = "returned" /\ result' = Outcome("Ok", 0)
       ELSE UNCHANGED <<pc, result>>
    /\ UNCHANGED <<req, handles, joined, failure>>

InlineErr ==
    /\ pc = "inline"
    /\ req.f[at + 1] = "err"
    /\ \E left \in {"old", "torn"} : out' = [out EXCEPT ![at + 1] = left]
    /\ pc' = "returned"
    /\ result' = Outcome("Worker", at + 1)
    /\ UNCHANGED <<req, at, handles, joined, failure>>

InlinePanic ==
    /\ pc = "inline"
    /\ req.f[at + 1] = "panic"
    /\ \E left \in {"old", "torn"} : out' = [out EXCEPT ![at + 1] = left]
    /\ pc' = "unwound"
    /\ result' = Outcome("UnwoundByClosure", 0)
    /\ UNCHANGED <<req, at, handles, joined, failure>>

----------------------------------------------------------------------------
(* thread::scope: one scoped thread per chunk, spawned by the caller while *)
(* the earlier ones already run.                                           *)

\* Defect: a chunk starts on the last element of the one before.
SpawnOverlapping ==
    /\ pc = "spawn"
    /\ LET from == IF at = 0 THEN 1 ELSE at
       IN  handles' = Append(handles, [lo |-> from, hi |-> ChunkEnd(req, at),
                                       pos |-> from, st |-> "ready"])
    /\ at' = ChunkEnd(req, at)
    /\ pc' = IF ChunkEnd(req, at) = req.input THEN "join" ELSE "spawn"
    /\ UNCHANGED <<req, joined, failure, result, out>>

Spawn ==
    /\ pc = "spawn"
    /\ handles' = Append(handles, [lo |-> at + 1, hi |-> ChunkEnd(req, at),
                                   pos |-> at + 1, st |-> "ready"])
    /\ at' = ChunkEnd(req, at)
    /\ pc' = IF ChunkEnd(req, at) = req.input THEN "join" ELSE "spawn"
    /\ UNCHANGED <<req, joined, failure, result, out>>

\* scope.spawn panics when the OS refuses a thread; the scope then waits for
\* the threads it already has before it lets the panic out.
SpawnFails ==
    /\ pc = "spawn"
    /\ pc' = "unwinding"
    /\ UNCHANGED <<req, at, handles, joined, failure, result, out>>

\* Defect: a failed spawn unwinds at once, as with detached threads.
UnwindsAtOnce ==
    /\ pc = "unwinding"
    /\ pc' = "unwound"
    /\ result' = Outcome("UnwoundBySpawn", 0)
    /\ UNCHANGED <<req, at, handles, joined, failure, out>>

ScopeUnwinds ==
    /\ pc = "unwinding"
    /\ \A w \in DOMAIN handles : handles[w].st \in Ended
    /\ pc' = "unwound"
    /\ result' = Outcome("UnwoundBySpawn", 0)
    /\ UNCHANGED <<req, at, handles, joined, failure, out>>

----------------------------------------------------------------------------
(* A worker thread: the loop over its chunk.  A closure call is two steps, *)
(* because the worker holds its slot mutably between them.                 *)

Call(w) ==
    /\ handles[w].st = "ready"
    /\ handles' = [handles EXCEPT ![w].st = "calling"]
    /\ UNCHANGED <<req, pc, at, joined, failure, result, out>>

CallOk(w) ==
    /\ handles[w].st = "calling"
    /\ req.f[handles[w].pos] = "ok"
    /\ out' = [out EXCEPT ![handles[w].pos] = "new"]
    /\ handles' =
         [handles EXCEPT ![w].pos = @ + 1,
                         ![w].st = IF handles[w].pos = handles[w].hi
                                   THEN "ok" ELSE "ready"]
    /\ UNCHANGED <<req, pc, at, joined, failure, result>>

\* Defect: the loop notes a failure and goes on to the next element.
FailsAtChunkEnd(w) ==
    /\ handles[w].st = "calling"
    /\ req.f[handles[w].pos] # "ok"
    /\ handles' =
         [handles EXCEPT ![w].pos = IF @ = handles[w].hi THEN @ ELSE @ + 1,
                         ![w].st = IF handles[w].pos = handles[w].hi
                                   THEN req.f[handles[w].pos] ELSE "ready"]
    /\ UNCHANGED <<req, pc, at, joined, failure, result, out>>

\* Defect: a failing element is tried again.
RetriesFailure(w) ==
    /\ handles[w].st = "calling"
    /\ req.f[handles[w].pos] # "ok"
    /\ handles' = [handles EXCEPT ![w].st = "ready"]
    /\ UNCHANGED <<req, pc, at, joined, failure, result, out>>

CallFails(w) ==
    /\ handles[w].st = "calling"
    /\ req.f[handles[w].pos] # "ok"
    /\ \E left \in {"old", "torn"} :
         out' = [out EXCEPT ![handles[w].pos] = left]
    /\ handles' = [handles EXCEPT ![w].st = req.f[handles[w].pos]]
    /\ UNCHANGED <<req, pc, at, joined, failure, result>>

Worker(w) == Call(w) \/ CallOk(w) \/ CallFails(w)

----------------------------------------------------------------------------
(* Joining in spawn order; the first failure met is the one reported.      *)

\* The error a joined handle hands over.
Reported(h) ==
    CASE h.st = "ok" -> None
      [] h.st = "err" -> Outcome("Worker", h.pos)
      [] OTHER -> Outcome("WorkerPanicked", 0)

\* Defect: a later failure replaces an earlier one.
JoinKeepsLast ==
    /\ pc = "join"
    /\ joined < Len(handles)
    /\ handles[joined + 1].st \in Ended
    /\ failure' = IF Reported(handles[joined + 1]) = None THEN failure
                  ELSE Reported(handles[joined + 1])
    /\ joined' = joined + 1
    /\ UNCHANGED <<req, pc, at, handles, result, out>>

Join ==
    /\ pc = "join"
    /\ joined < Len(handles)
    /\ handles[joined + 1].st \in Ended
    /\ failure' = IF failure = None THEN Reported(handles[joined + 1])
                                    ELSE failure
    /\ joined' = joined + 1
    /\ UNCHANGED <<req, pc, at, handles, result, out>>

Return ==
    /\ pc = "join"
    /\ joined = Len(handles)
    /\ pc' = "returned"
    /\ result' = IF failure = None THEN Outcome("Ok", 0) ELSE failure
    /\ UNCHANGED <<req, at, handles, joined, failure, out>>

Caller ==
    \/ RejectWorkers \/ RejectLengths \/ EmptyInput \/ Dispatch
    \/ InlineOk \/ InlineErr \/ InlinePanic
    \/ Spawn \/ SpawnFails \/ ScopeUnwinds
    \/ Join \/ Return

\* The call is over: the program goes on outside this function.
Terminated ==
    /\ pc \in {"returned", "unwound"}
    /\ UNCHANGED vars

Next ==
    \/ Caller
    \/ \E w \in DOMAIN handles : Worker(w)
    \/ Terminated

Spec == Init /\ [][Next]_vars

\* The OS never leaves every runnable thread unscheduled, and the closure's
\* calls return.
FairSpec ==
    /\ Spec
    /\ WF_vars(Caller)
    /\ WF_vars(\E w \in DOMAIN handles : Worker(w))

----------------------------------------------------------------------------
(* Properties.                                                             *)

Handle ==
    [lo : 1 .. req.input, hi : 1 .. req.input, pos : 1 .. req.input + 1,
     st : Ended \cup {"ready", "calling"}]

\* Every variable holds a value of its kind; in particular no thread's chunk
\* or position leaves the input slice, so no closure call is out of bounds.
TypeOK ==
    /\ req \in Requests
    /\ pc \in {"enter", "inline", "spawn", "unwinding", "join", "returned", "unwound"}
    /\ at \in 0 .. req.input
    /\ handles \in Seq(Handle)
    /\ joined \in 0 .. Len(handles)
    /\ failure \in [tag : {"None", "Worker", "WorkerPanicked"}, at : 0 .. req.input]
    /\ result \in [tag : {"None", "Ok", "InvalidWorkerCount", "LengthMismatch", "Worker",
                          "WorkerPanicked", "UnwoundByClosure", "UnwoundBySpawn"},
                   at : 0 .. req.input]
    /\ out \in [1 .. req.output -> {"old", "new", "torn"}]

\* "no worker can alias another worker's output" (lib.rs:47-48): two threads
\* inside the closure at the same time hold different slots.
ExclusiveSlots ==
    \A v, w \in DOMAIN handles :
        v # w /\ handles[v].st = "calling" /\ handles[w].st = "calling"
            => handles[v].pos # handles[w].pos

\* "no background work survives this call" (lib.rs:108): once the call has
\* returned, or unwound, no thread it spawned is still running.
NoWorkerSurvives ==
    pc \in {"returned", "unwound"} =>
        \A w \in DOMAIN handles : handles[w].st \in Ended

\* At most `workers` threads are spawned (lib.rs:45), although chunks are
\* rounded up and there may be fewer of them than workers.
AtMostWorkers == Len(handles) <= req.workers

\* An accepted call that returns reports what a sequential loop would: Ok if
\* no index fails, else the failure of the least failing index.  Neither the
\* schedule nor the number of workers has a say in it (lib.rs:10-11, 105-107).
ResultIsFirstFailure ==
    pc = "returned" /\ Accepted =>
        IF \A i \in 1 .. req.input : req.f[i] = "ok"
        THEN result.tag = "Ok"
        ELSE \E i \in 1 .. req.input :
               /\ req.f[i] # "ok"
               /\ \A j \in 1 .. i - 1 : req.f[j] = "ok"
               /\ result = IF req.f[i] = "err" THEN Outcome("Worker", i)
                                               ELSE Outcome("WorkerPanicked", 0)

\* Ok means every slot holds the value of its own index.
OkMeansAllMapped ==
    result.tag = "Ok" => \A i \in 1 .. req.output : out[i] = "new"

\* A loop stops at its first failure (`?`): no thread touches a slot of its
\* chunk past a failing index, and neither does the inline loop.
StopsAtFirstFailure ==
    \A i \in 1 .. req.output : out[i] # "old" =>
        IF handles = <<>>
        THEN \A j \in 1 .. i - 1 : req.f[j] = "ok"
        ELSE \E w \in DOMAIN handles :
               /\ i \in handles[w].lo .. handles[w].hi
               /\ \A j \in handles[w].lo .. i - 1 : req.f[j] = "ok"

\* The whole call implements the promise: one atomic step with a result that
\* depends on the request alone.
KeepsPromise == Promise!Spec

\* The call comes back, whatever fails: a worker's failure, or a spawn's, never
\* leaves the caller waiting for a handle.
CallEnds == <>(pc \in {"returned", "unwound"})

----------------------------------------------------------------------------
(* The inductive invariant behind the safety properties, in parts.         *)

Threaded == pc \in {"spawn", "unwinding", "join"} \/ handles # <<>>

\* The chunks handed out so far are consecutive, disjoint, and cover 1..at.
Layout ==
    /\ \A w \in DOMAIN handles :
         /\ handles[w].lo <= handles[w].hi
         /\ handles[w].lo <= handles[w].pos
         /\ handles[w].pos <= handles[w].hi + 1
         /\ handles[w].hi <= at
    /\ \A v, w \in DOMAIN handles : v < w => handles[v].hi < handles[w].lo
    /\ Threaded => \A i \in 1 .. at : \E w \in DOMAIN handles :
                      i \in handles[w].lo .. handles[w].hi

\* What a thread has done is what its position says it has done.
Progress ==
    \A w \in DOMAIN handles :
        /\ \A j \in handles[w].lo .. handles[w].pos - 1 :
             req.f[j] = "ok" /\ out[j] = "new"
        /\ handles[w].st \in {"ready", "calling"} => handles[w].pos <= handles[w].hi
        /\ handles[w].st = "ok" => handles[w].pos = handles[w].hi + 1
        /\ handles[w].st \in {"err", "panic"} =>
             /\ handles[w].pos <= handles[w].hi
             /\ req.f[handles[w].pos] = handles[w].st

\* No slot holds a value the closure did not produce for it.
Slots ==
    \A i \in 1 .. req.output :
        /\ out[i] # "old" => Accepted
        /\ out[i] = "new" => req.f[i] = "ok"
        /\ out[i] = "torn" => req.f[i] # "ok"

\* The recorded failure is the first among the joined threads.
Recorded ==
    /\ \A w \in 1 .. joined : handles[w].st \in Ended
    /\ failure = None => \A w \in 1 .. joined : handles[w].st = "ok"
    /\ failure # None => \E w \in 1 .. joined :
         /\ handles[w].st # "ok"
         /\ failure = Reported(handles[w])
         /\ \A v \in 1 .. w - 1 : handles[v].st = "ok"

\* Where the caller is says which path it took and how far it got.
Phase ==
    /\ pc = "enter" => at = 0 /\ handles = <<>> /\ joined = 0 /\ failure = None
    /\ pc \notin {"returned", "unwound"} => result = None
    /\ pc = "inline" =>
         /\ Accepted /\ WorkerCount(req) = 1 /\ handles = <<>>
         /\ at < req.input
         /\ \A j \in 1 .. at : req.f[j] = "ok" /\ out[j] = "new"
    /\ pc \in {"spawn", "unwinding", "join"} =>
         Accepted /\ WorkerCount(req) # 1 /\ req.input # 0
    /\ pc \in {"spawn", "unwinding"} => at < req.input
    /\ pc \in {"spawn", "enter", "unwinding"} => joined = 0 /\ failure = None
    /\ pc = "join" => at = req.input
    /\ handles # <<>> => Accepted

IndInv == TypeOK /\ Layout /\ Progress /\ Slots /\ Recorded /\ Phase

\* A slot that is no longer the caller's has been reached by the inline loop, or
\* by the thread that owns it.
Reached ==
    /\ pc = "inline" => \A i \in 1 .. req.output : out[i] # "old" => i <= at
    /\ handles = <<>> => \A i \in 1 .. req.output : out[i] # "old" =>
         /\ pc \in {"inline", "returned", "unwound"}
         /\ \A j \in 1 .. i - 1 : req.f[j] = "ok"
    /\ handles # <<>> => \A i \in 1 .. req.output : out[i] # "old" =>
         \E w \in DOMAIN handles : i \in handles[w].lo .. handles[w].hi /\ i <= handles[w].pos
=============================================================================
