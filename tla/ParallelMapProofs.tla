-------------------------- MODULE ParallelMapProofs --------------------------
(***************************************************************************)
(* Proofs about ParallelMap for every set of requests: any slice lengths,  *)
(* any worker bound, any closure.                                          *)
(***************************************************************************)
EXTENDS ParallelMap, SequenceTheorems, TLAPS

\* div_ceil of a positive length by at most that many workers is positive, and
\* that many chunks of that size reach the end of the slice.
LEMMA DivCeil ==
    ASSUME NEW n \in Nat \ {0}, NEW c \in Nat \ {0}
    PROVE  /\ (n + c - 1) \div c \in Nat
           /\ (n + c - 1) \div c >= 1
           /\ n <= c * ((n + c - 1) \div c)
  OBVIOUS

\* The chunk after `from` is not empty and ends inside the slice.
LEMMA ChunkEndInside ==
    ASSUME NEW r \in Requests, r.workers # 0, NEW from \in Nat, from < r.input
    PROVE  /\ ChunkEnd(r, from) \in Nat
           /\ from < ChunkEnd(r, from)
           /\ ChunkEnd(r, from) <= r.input
  <1>1. r.input \in Nat \ {0} /\ r.workers \in Nat \ {0}
    BY RequestsWellFormed
  <1>2. WorkerCount(r) \in Nat \ {0}
    BY <1>1 DEF WorkerCount
  <1>3. ChunkSize(r) \in Nat /\ ChunkSize(r) >= 1
    BY <1>1, <1>2, DivCeil DEF ChunkSize
  <1>4. QED
    BY <1>1, <1>3 DEF ChunkEnd

\* The invariant in one name, with what a finished call leaves behind.
Inv == IndInv /\ NoWorkerSurvives

LEMMA InitInv == Init => Inv
  <1> SUFFICES ASSUME Init PROVE Inv
    OBVIOUS
  <1>1. req \in Requests /\ req.input \in Nat /\ req.output \in Nat
    BY RequestsWellFormed DEF Init
  <1>2. TypeOK
    BY <1>1 DEF Init, TypeOK, None
  <1>3. Layout /\ Progress /\ Slots /\ Recorded /\ Phase /\ NoWorkerSurvives
    BY <1>1 DEF Init, Layout, Progress, Slots, Recorded, Phase, NoWorkerSurvives, Threaded, None
  <1>4. QED
    BY <1>2, <1>3 DEF Inv, IndInv

\* A step that keeps the request keeps the types that depend on it.
LEMMA HandleStable == req' = req => Handle' = Handle
  BY DEF Handle

\* The caller's steps before any thread exists.
LEMMA CallerInv ==
    Inv /\ (RejectWorkers \/ RejectLengths \/ EmptyInput \/ Dispatch
              \/ InlineOk \/ InlineErr \/ InlinePanic) => Inv'
  <1> SUFFICES ASSUME Inv,
                      RejectWorkers \/ RejectLengths \/ EmptyInput \/ Dispatch
                        \/ InlineOk \/ InlineErr \/ InlinePanic
               PROVE  Inv'
    OBVIOUS
  <1> USE DEF Inv, IndInv
  <1>0. /\ req \in Requests /\ req.input \in Nat /\ req.output \in Nat /\ req.workers \in Nat
        /\ req.f \in [1 .. req.input -> {"ok", "err", "panic"}]
    BY RequestsWellFormed DEF TypeOK
  <1>1. CASE RejectWorkers \/ RejectLengths \/ EmptyInput
    <2>1. TypeOK'
      BY <1>0, <1>1, HandleStable DEF TypeOK, RejectWorkers, RejectLengths, EmptyInput, Outcome
    <2>2. Layout' /\ Progress' /\ Slots' /\ Recorded'
      BY <1>0, <1>1 DEF TypeOK, Phase, Layout, Progress, Slots, Recorded, Threaded, Accepted, Reported,
           RejectWorkers, RejectLengths, EmptyInput
    <2>3. Phase' /\ NoWorkerSurvives'
      BY <1>0, <1>1 DEF TypeOK, Phase, NoWorkerSurvives, Accepted, RejectWorkers, RejectLengths, EmptyInput
    <2>4. QED BY <2>1, <2>2, <2>3
  <1>2. CASE Dispatch
    <2>1. TypeOK'
      BY <1>0, <1>2 DEF TypeOK, Dispatch, Handle
    <2>2. Layout' /\ Progress' /\ Slots' /\ Recorded'
      BY <1>0, <1>2 DEF TypeOK, Phase, Layout, Progress, Slots, Recorded, Threaded, Accepted, Reported, Dispatch
    <2>3. Phase' /\ NoWorkerSurvives'
      BY <1>0, <1>2 DEF TypeOK, Phase, NoWorkerSurvives, Accepted, Dispatch
    <2>4. QED BY <2>1, <2>2, <2>3
  <1>3. CASE InlineOk \/ InlineErr \/ InlinePanic
    <2>1. TypeOK'
      <3>1. CASE InlineOk
        <4>1. at + 1 \in 1 .. req.input
          BY <1>0, <3>1 DEF TypeOK, Phase, InlineOk
        <4>2. out' \in [1 .. req.output -> {"old", "new", "torn"}]
          BY <3>1 DEF TypeOK, InlineOk
        <4>3. QED
          BY <1>0, <3>1, <4>1, <4>2, HandleStable DEF TypeOK, InlineOk, Outcome
      <3>2. CASE InlineErr \/ InlinePanic
        <4>1. at + 1 \in 1 .. req.input
          BY <1>0, <3>2 DEF TypeOK, Phase, InlineErr, InlinePanic
        <4>2. out' \in [1 .. req.output -> {"old", "new", "torn"}]
          BY <3>2 DEF TypeOK, InlineErr, InlinePanic
        <4>3. QED
          BY <1>0, <3>2, <4>1, <4>2, HandleStable DEF TypeOK, InlineErr, InlinePanic, Outcome
      <3>3. QED BY <1>3, <3>1, <3>2
    <2>2. Layout' /\ Progress' /\ Recorded'
      <3>1. DOMAIN handles' = {} /\ ~Threaded'
        BY <1>0, <1>3 DEF TypeOK, Phase, Threaded, InlineOk, InlineErr, InlinePanic
      <3>2. QED
        BY <1>0, <1>3, <3>1 DEF TypeOK, Phase, Layout, Progress, Recorded, Accepted, Reported,
             InlineOk, InlineErr, InlinePanic
    <2>3. Slots'
      BY <1>0, <1>3 DEF TypeOK, Phase, Slots, Accepted, InlineOk, InlineErr, InlinePanic
    <2>4. Phase' /\ NoWorkerSurvives'
      <3>1. CASE InlineOk
        BY <1>0, <3>1 DEF TypeOK, Phase, NoWorkerSurvives, Accepted, InlineOk
      <3>2. CASE InlineErr \/ InlinePanic
        BY <1>0, <3>2 DEF TypeOK, Phase, NoWorkerSurvives, InlineErr, InlinePanic
      <3>3. QED BY <1>3, <3>1, <3>2
    <2>5. QED BY <2>1, <2>2, <2>3, <2>4
  <1>4. QED
    BY <1>1, <1>2, <1>3

\* Spawning hands out the next chunk.
LEMMA SpawnInv == Inv /\ Spawn => Inv'
  <1> SUFFICES ASSUME Inv, Spawn PROVE Inv'
    OBVIOUS
  <1> USE DEF Inv, IndInv
  <1> DEFINE h == [lo |-> at + 1, hi |-> ChunkEnd(req, at), pos |-> at + 1, st |-> "ready"]
  <1>1. /\ req \in Requests /\ req.input \in Nat /\ req.output \in Nat /\ req.workers \in Nat
        /\ req.f \in [1 .. req.input -> {"ok", "err", "panic"}]
    BY RequestsWellFormed DEF TypeOK
  <1>2. at \in Nat /\ at < req.input /\ req.workers # 0 /\ req.input = req.output
    BY <1>1 DEF Spawn, Phase, Accepted, TypeOK
  <1>3. /\ ChunkEnd(req, at) \in Nat
        /\ at < ChunkEnd(req, at)
        /\ ChunkEnd(req, at) <= req.input
    BY <1>1, <1>2, ChunkEndInside
  <1>4. h \in Handle
    BY <1>1, <1>2, <1>3 DEF Handle
  <1>5. /\ handles \in Seq(Handle) /\ handles' = Append(handles, h)
        /\ handles' \in Seq(Handle)
        /\ Len(handles') = Len(handles) + 1
        /\ DOMAIN handles = 1 .. Len(handles) /\ DOMAIN handles' = 1 .. Len(handles) + 1
        /\ \A w \in 1 .. Len(handles) : handles'[w] = handles[w]
        /\ handles'[Len(handles) + 1] = h
        /\ Len(handles) \in Nat
    BY <1>4 DEF Spawn, TypeOK
  <1>6. TypeOK'
    <2>1. handles' \in Seq(Handle')
      BY <1>5, HandleStable DEF Spawn
    <2>2. joined' \in 0 .. Len(handles')
      BY <1>5 DEF Spawn, TypeOK
    <2>3. QED
      BY <1>2, <1>3, <2>1, <2>2 DEF Spawn, TypeOK
  <1>7. Layout'
    <2>1. \A w \in DOMAIN handles' :
             /\ handles'[w].lo <= handles'[w].hi
             /\ handles'[w].lo <= handles'[w].pos
             /\ handles'[w].pos <= handles'[w].hi + 1
             /\ handles'[w].hi <= at'
      <3> SUFFICES ASSUME NEW w \in 1 .. Len(handles) + 1
                   PROVE  /\ handles'[w].lo <= handles'[w].hi
                          /\ handles'[w].lo <= handles'[w].pos
                          /\ handles'[w].pos <= handles'[w].hi + 1
                          /\ handles'[w].hi <= at'
        BY <1>5
      <3>1. CASE w = Len(handles) + 1
        BY <1>2, <1>3, <1>5, <3>1 DEF Spawn
      <3>2. CASE w \in 1 .. Len(handles)
        <4>1. handles'[w] = handles[w] /\ handles[w] \in Handle
          BY <1>5, <3>2
        <4>2. /\ handles[w].lo <= handles[w].hi
              /\ handles[w].lo <= handles[w].pos
              /\ handles[w].pos <= handles[w].hi + 1
              /\ handles[w].hi <= at
          BY <1>5, <3>2 DEF Layout
        <4>3. handles[w].hi \in Nat /\ at' = ChunkEnd(req, at)
          BY <1>1, <4>1 DEF Handle, Spawn
        <4>4. QED
          BY <1>2, <1>3, <4>1, <4>2, <4>3
      <3>3. QED BY <1>5, <3>1, <3>2
    <2>2. ASSUME NEW v \in DOMAIN handles', NEW w \in DOMAIN handles', v < w
          PROVE  handles'[v].hi < handles'[w].lo
      <3>1. v \in 1 .. Len(handles) /\ handles[v] \in Handle /\ handles'[v] = handles[v]
        BY <1>5, <2>2
      <3>2. CASE w = Len(handles) + 1
        BY <1>1, <1>2, <1>5, <3>1, <3>2 DEF Layout, Handle
      <3>3. CASE w \in 1 .. Len(handles)
        BY <1>5, <2>2, <3>1, <3>3 DEF Layout
      <3>4. QED BY <1>5, <3>2, <3>3
    <2>3. ASSUME NEW i \in 1 .. at'
          PROVE  \E w \in DOMAIN handles' : i \in handles'[w].lo .. handles'[w].hi
      <3>1. CASE i \in 1 .. at
        <4>1. PICK w \in DOMAIN handles : i \in handles[w].lo .. handles[w].hi
          BY <3>1 DEF Layout, Threaded, Spawn
        <4>2. QED BY <1>5, <4>1
      <3>2. CASE i \in at + 1 .. ChunkEnd(req, at)
        BY <1>5, <3>2
      <3>3. QED BY <1>2, <1>3, <3>1, <3>2 DEF Spawn
    <2>4. QED BY <2>1, <2>2, <2>3 DEF Layout
  <1>8. Progress'
    <2> SUFFICES ASSUME NEW w \in 1 .. Len(handles) + 1
                 PROVE  /\ \A j \in handles'[w].lo .. handles'[w].pos - 1 :
                             req'.f[j] = "ok" /\ out'[j] = "new"
                        /\ handles'[w].st \in {"ready", "calling"} => handles'[w].pos <= handles'[w].hi
                        /\ handles'[w].st = "ok" => handles'[w].pos = handles'[w].hi + 1
                        /\ handles'[w].st \in {"err", "panic"} =>
                             /\ handles'[w].pos <= handles'[w].hi
                             /\ req'.f[handles'[w].pos] = handles'[w].st
      BY <1>5 DEF Progress
    <2>1. CASE w = Len(handles) + 1
      BY <1>2, <1>3, <1>5, <2>1
    <2>2. CASE w \in 1 .. Len(handles)
      BY <1>5, <2>2 DEF Progress, Spawn
    <2>3. QED BY <1>5, <2>1, <2>2
  <1>9. Slots'
    BY DEF Slots, Spawn, Accepted
  <1>10. Recorded' /\ Phase' /\ NoWorkerSurvives'
    <2>1. joined = 0 /\ failure = None
      BY DEF Spawn, Phase
    <2>2. QED
      BY <1>1, <1>2, <1>3, <2>1 DEF Recorded, Phase, NoWorkerSurvives, Spawn, Accepted
  <1>11. QED BY <1>6, <1>7, <1>8, <1>9, <1>10

\* The caller's steps that only look at the threads.
LEMMA WaitInv == Inv /\ (SpawnFails \/ ScopeUnwinds \/ Join \/ Return \/ UNCHANGED vars) => Inv'
  <1> SUFFICES ASSUME Inv, SpawnFails \/ ScopeUnwinds \/ Join \/ Return \/ UNCHANGED vars
               PROVE  Inv'
    OBVIOUS
  <1> USE DEF Inv, IndInv
  <1>1. /\ req \in Requests /\ req.input \in Nat
        /\ req.f \in [1 .. req.input -> {"ok", "err", "panic"}]
        /\ handles \in Seq(Handle) /\ Len(handles) \in Nat
        /\ DOMAIN handles = 1 .. Len(handles)
        /\ \A w \in DOMAIN handles : handles[w] \in Handle
    BY RequestsWellFormed DEF TypeOK
  <1>2. req' = req /\ handles' = handles /\ at' = at /\ out' = out
    BY DEF SpawnFails, ScopeUnwinds, Join, Return, vars
  <1>3. Layout' /\ Progress' /\ Slots'
    <2>1. Threaded' => Threaded
      BY <1>2 DEF Threaded, SpawnFails, ScopeUnwinds, Join, Return, vars
    <2>2. QED
      BY <1>2, <2>1 DEF Layout, Progress, Slots, Accepted
  <1>4. CASE SpawnFails \/ ScopeUnwinds
    <2>1. TypeOK'
      BY <1>1, <1>2, <1>4, HandleStable DEF TypeOK, SpawnFails, ScopeUnwinds, Outcome
    <2>2. Recorded'
      BY <1>4 DEF Recorded, SpawnFails, ScopeUnwinds
    <2>3. Phase' /\ NoWorkerSurvives'
      BY <1>2, <1>4 DEF Phase, NoWorkerSurvives, SpawnFails, ScopeUnwinds, Accepted
    <2>4. QED BY <1>3, <2>1, <2>2, <2>3
  <1>5. CASE Join
    <2>1. joined \in Nat /\ joined + 1 \in DOMAIN handles
      BY <1>1, <1>5 DEF Join, TypeOK
    <2>2. handles[joined + 1] \in Handle /\ handles[joined + 1].st \in Ended
      BY <1>1, <1>5, <2>1 DEF Join
    <2>3. handles[joined + 1].st # "ok" => handles[joined + 1].pos \in 1 .. req.input
      <3>1. handles[joined + 1].st \in {"err", "panic"} =>
               handles[joined + 1].pos <= handles[joined + 1].hi
        BY <2>1 DEF Progress
      <3>2. /\ handles[joined + 1].hi \in 1 .. req.input
            /\ handles[joined + 1].pos \in 1 .. req.input + 1
        BY <2>2 DEF Handle
      <3>3. QED
        BY <1>1, <2>2, <3>1, <3>2 DEF Ended
    <2>4. TypeOK'
      <3>1. Reported(handles[joined + 1]) \in
               [tag : {"None", "Worker", "WorkerPanicked"}, at : 0 .. req.input]
        BY <1>1, <2>2, <2>3 DEF Reported, Outcome, None, Ended
      <3>2. QED
        BY <1>1, <1>2, <1>5, <2>1, <3>1, HandleStable DEF TypeOK, Join
    <2>5. Recorded'
      <3>1. \A w \in 1 .. joined + 1 : w \in 1 .. joined \/ w = joined + 1
        BY <2>1
      <3>2. \A w \in 1 .. joined + 1 : handles[w].st \in Ended
        BY <2>2, <3>1 DEF Recorded
      <3>3. CASE failure # None
        <4>1. PICK w \in 1 .. joined :
                 /\ handles[w].st # "ok"
                 /\ failure = Reported(handles[w])
                 /\ \A v \in 1 .. w - 1 : handles[v].st = "ok"
          BY <3>3 DEF Recorded
        <4>2. failure' = failure /\ joined' = joined + 1 /\ w \in 1 .. joined + 1
          BY <1>5, <2>1, <3>3 DEF Join
        <4>3. QED BY <1>2, <3>2, <3>3, <4>1, <4>2 DEF Recorded, Reported
      <3>4. CASE failure = None
        <4>1. failure' = Reported(handles[joined + 1]) /\ joined' = joined + 1
          BY <1>5, <3>4 DEF Join
        <4>2. \A w \in 1 .. joined : handles[w].st = "ok"
          BY <3>4 DEF Recorded
        <4>3. Reported(handles[joined + 1]) = None <=> handles[joined + 1].st = "ok"
          BY <2>2 DEF Reported, Outcome, None, Ended
        <4>4. CASE handles[joined + 1].st = "ok"
          BY <1>2, <3>1, <3>2, <4>1, <4>2, <4>3, <4>4 DEF Recorded
        <4>5. CASE handles[joined + 1].st # "ok"
          <5>1. joined + 1 \in 1 .. joined + 1 /\ (joined + 1) - 1 = joined
            BY <2>1
          <5>2. QED
            BY <1>2, <3>2, <4>1, <4>2, <4>3, <4>5, <5>1 DEF Recorded, Reported
        <4>6. QED BY <4>4, <4>5
      <3>5. QED BY <3>3, <3>4
    <2>6. Phase' /\ NoWorkerSurvives'
      BY <1>2, <1>5 DEF Phase, NoWorkerSurvives, Join, Accepted
    <2>7. QED BY <1>3, <2>4, <2>5, <2>6
  <1>6. CASE Return
    <2>1. TypeOK'
      <3>1. result' \in [tag : {"None", "Ok", "InvalidWorkerCount", "LengthMismatch", "Worker",
                                "WorkerPanicked", "UnwoundByClosure", "UnwoundBySpawn"},
                         at : 0 .. req.input]
        <4>1. CASE failure = None
          BY <1>1, <1>6, <4>1 DEF Return, Outcome
        <4>2. CASE failure # None
          BY <1>6, <4>2 DEF TypeOK, Return
        <4>3. QED BY <4>1, <4>2
      <3>2. QED
        BY <1>2, <1>6, <3>1, HandleStable DEF TypeOK, Return
    <2>2. Recorded' /\ Phase' /\ NoWorkerSurvives'
      BY <1>1, <1>2, <1>6 DEF Recorded, Phase, NoWorkerSurvives, Return, Accepted
    <2>3. QED BY <1>3, <2>1, <2>2
  <1>7. CASE UNCHANGED vars
    <2>1. TypeOK'
      BY <1>7, HandleStable DEF TypeOK, vars
    <2>2. Recorded' /\ Phase' /\ NoWorkerSurvives'
      BY <1>7 DEF Recorded, Phase, NoWorkerSurvives, vars, Accepted
    <2>3. QED BY <1>3, <2>1, <2>2
  <1>8. QED BY <1>4, <1>5, <1>6, <1>7

\* The index a running thread is at lies in its own chunk, and in no other.
LEMMA OwnSlot ==
    ASSUME IndInv, NEW w \in DOMAIN handles, handles[w].st = "calling"
    PROVE  /\ handles[w] \in Handle
           /\ handles[w].pos \in handles[w].lo .. handles[w].hi
           /\ handles[w].pos \in 1 .. req.input
           /\ req.input = req.output
           /\ \A v \in DOMAIN handles : v # w =>
                handles[w].pos \notin handles[v].lo .. handles[v].hi
  <1>1. req.input \in Nat /\ DOMAIN handles = 1 .. Len(handles) /\ Len(handles) \in Nat
    BY RequestsWellFormed DEF IndInv, TypeOK
  <1>2. \A v \in DOMAIN handles : /\ handles[v] \in Handle
                                  /\ handles[v].lo \in Nat
                                  /\ handles[v].hi \in 1 .. req.input
                                  /\ handles[v].pos \in Nat
    <2>1. \A v \in DOMAIN handles : handles[v] \in Handle
      BY <1>1 DEF IndInv, TypeOK
    <2>2. QED
      BY <1>1, <2>1 DEF Handle
  <1>3. handles[w].lo <= handles[w].pos /\ handles[w].pos <= handles[w].hi
    BY <1>2 DEF IndInv, Layout, Progress
  <1>4. handles[w].pos \in 1 .. req.input
    <2>1. handles[w].lo \in 1 .. req.input
      BY <1>2 DEF Handle
    <2>2. QED BY <1>1, <1>2, <1>3, <2>1
  <1>5. ASSUME NEW v \in DOMAIN handles, v # w
        PROVE  handles[w].pos \notin handles[v].lo .. handles[v].hi
    <2>1. v < w \/ w < v
      BY <1>1, <1>5
    <2>2. handles[v].hi < handles[w].lo \/ handles[w].hi < handles[v].lo
      BY <2>1 DEF IndInv, Layout
    <2>3. QED BY <1>2, <1>3, <2>2
  <1>6. req.input = req.output
    BY <1>1 DEF IndInv, Phase, Accepted
  <1>7. QED BY <1>2, <1>3, <1>4, <1>5, <1>6

\* A step of a worker thread.
LEMMA WorkerInv == ASSUME Inv, NEW w \in DOMAIN handles, Worker(w) PROVE Inv'
  <1> USE DEF Inv, IndInv
  <1>1. /\ req \in Requests /\ req.input \in Nat /\ req.output \in Nat
        /\ req.f \in [1 .. req.input -> {"ok", "err", "panic"}]
        /\ handles \in Seq(Handle) /\ Len(handles) \in Nat
        /\ DOMAIN handles = 1 .. Len(handles)
        /\ \A v \in DOMAIN handles : handles[v] \in Handle
    BY RequestsWellFormed DEF TypeOK
  <1>2. /\ handles[w].st \in {"ready", "calling"}
        /\ req' = req /\ pc' = pc /\ at' = at /\ joined' = joined
        /\ failure' = failure /\ result' = result
    BY DEF Worker, Call, CallOk, CallFails
  <1>3. pc \notin {"returned", "unwound"} /\ w \notin 1 .. joined
    BY <1>2 DEF NoWorkerSurvives, Recorded, Ended
  <1>4. PICK h :
           /\ h \in Handle
           /\ handles' = [handles EXCEPT ![w] = h]
           /\ h.lo = handles[w].lo /\ h.hi = handles[w].hi
           /\ h.lo <= h.pos /\ h.pos <= h.hi + 1
           /\ \A j \in h.lo .. h.pos - 1 : req.f[j] = "ok" /\ out'[j] = "new"
           /\ h.st \in {"ready", "calling"} => h.pos <= h.hi
           /\ h.st = "ok" => h.pos = h.hi + 1
           /\ h.st \in {"err", "panic"} => h.pos <= h.hi /\ req.f[h.pos] = h.st
    <2>1. CASE Call(w)
      <3> DEFINE h == [handles[w] EXCEPT !.st = "calling"]
      <3>1. handles' = [handles EXCEPT ![w] = h] /\ out' = out /\ handles[w].st = "ready"
        BY <2>1 DEF Call
      <3>2. /\ h \in Handle /\ h.st = "calling"
            /\ h.lo = handles[w].lo /\ h.hi = handles[w].hi /\ h.pos = handles[w].pos
        BY <1>1 DEF Handle
      <3> HIDE DEF h
      <3>3. /\ handles[w].lo <= handles[w].pos /\ handles[w].pos <= handles[w].hi + 1
            /\ handles[w].pos <= handles[w].hi
            /\ \A j \in handles[w].lo .. handles[w].pos - 1 : req.f[j] = "ok" /\ out[j] = "new"
        BY <1>2 DEF Layout, Progress
      <3>4. QED BY <3>1, <3>2, <3>3
    <2>2. CASE CallOk(w)
      <3>1. /\ handles[w] \in Handle
            /\ handles[w].pos \in handles[w].lo .. handles[w].hi
            /\ handles[w].pos \in 1 .. req.input
            /\ req.input = req.output
        BY <2>2, OwnSlot DEF CallOk
      <3> DEFINE h == [handles[w] EXCEPT !.pos = handles[w].pos + 1,
                                         !.st = IF handles[w].pos = handles[w].hi
                                                THEN "ok" ELSE "ready"]
      <3>2. handles' = [handles EXCEPT ![w] = h]
        BY <2>2 DEF CallOk
      <3>3. /\ h.lo = handles[w].lo /\ h.hi = handles[w].hi /\ h.pos = handles[w].pos + 1
            /\ h.st = IF handles[w].pos = handles[w].hi THEN "ok" ELSE "ready"
        BY <3>1 DEF Handle
      <3>4. h \in Handle
        <4>1. handles[w].pos + 1 \in 1 .. req.input + 1
          BY <1>1, <3>1
        <4>2. h.st \in Ended \cup {"ready", "calling"}
          BY <3>3 DEF Ended
        <4>3. QED BY <3>1, <4>1, <4>2 DEF Handle
      <3> HIDE DEF h
      <3>5. /\ handles[w].lo \in Nat /\ handles[w].hi \in Nat /\ handles[w].pos \in Nat
            /\ handles[w].lo <= handles[w].pos /\ handles[w].pos <= handles[w].hi
        BY <1>1, <3>1 DEF Handle
      <3>6. \A j \in h.lo .. h.pos - 1 : req.f[j] = "ok" /\ out'[j] = "new"
        <4> SUFFICES ASSUME NEW j \in handles[w].lo .. handles[w].pos
                     PROVE  req.f[j] = "ok" /\ out'[j] = "new"
          BY <3>3, <3>5
        <4>1. j \in 1 .. req.output /\ out \in [1 .. req.output -> {"old", "new", "torn"}]
          <5>1. handles[w].lo \in 1 .. req.input
            BY <3>1 DEF Handle
          <5>2. out \in [1 .. req.output -> {"old", "new", "torn"}]
            BY DEF TypeOK
          <5> HIDE DEF Inv, IndInv
          <5>3. QED BY <1>1, <3>1, <3>5, <5>1, <5>2
        <4>2. CASE j = handles[w].pos
          BY <2>2, <4>1, <4>2 DEF CallOk
        <4>3. CASE j # handles[w].pos
          <5>1. j \in handles[w].lo .. handles[w].pos - 1
            BY <3>5, <4>3
          <5>2. req.f[j] = "ok" /\ out[j] = "new"
            BY <5>1 DEF Progress
          <5>3. QED BY <2>2, <4>1, <4>3, <5>2 DEF CallOk
        <4>4. QED BY <4>2, <4>3
      <3>7. /\ h.lo <= h.pos /\ h.pos <= h.hi + 1
            /\ h.st \in {"ready", "calling"} => h.pos <= h.hi
            /\ h.st = "ok" => h.pos = h.hi + 1
            /\ h.st \notin {"err", "panic"}
        BY <3>3, <3>5
      <3>8. QED BY <3>2, <3>3, <3>4, <3>6, <3>7
    <2>3. CASE CallFails(w)
      <3>1. /\ handles[w] \in Handle
            /\ handles[w].pos \in handles[w].lo .. handles[w].hi
            /\ handles[w].pos \in 1 .. req.input
            /\ req.input = req.output
        BY <2>3, OwnSlot DEF CallFails
      <3> DEFINE h == [handles[w] EXCEPT !.st = req.f[handles[w].pos]]
      <3>2. handles' = [handles EXCEPT ![w] = h]
        BY <2>3 DEF CallFails
      <3>3. req.f[handles[w].pos] \in {"err", "panic"}
        BY <1>1, <2>3, <3>1 DEF CallFails
      <3>4. /\ h.lo = handles[w].lo /\ h.hi = handles[w].hi /\ h.pos = handles[w].pos
            /\ h.st = req.f[handles[w].pos]
        BY <3>1 DEF Handle
      <3>5. h \in Handle
        BY <1>1, <3>1, <3>3 DEF Handle, Ended
      <3> HIDE DEF h
      <3>6. /\ handles[w].lo \in Nat /\ handles[w].hi \in Nat /\ handles[w].pos \in Nat
            /\ handles[w].lo <= handles[w].pos /\ handles[w].pos <= handles[w].hi
        BY <1>1, <3>1 DEF Handle
      <3>7. \A j \in handles[w].lo .. handles[w].pos - 1 : req.f[j] = "ok" /\ out'[j] = "new"
        <4> SUFFICES ASSUME NEW j \in handles[w].lo .. handles[w].pos - 1
                     PROVE  req.f[j] = "ok" /\ out'[j] = "new"
          OBVIOUS
        <4>1. j \in 1 .. req.output /\ out \in [1 .. req.output -> {"old", "new", "torn"}]
          <5>1. handles[w].lo \in 1 .. req.input
            BY <3>1 DEF Handle
          <5>2. j \in 1 .. req.output
            BY <1>1, <3>1, <3>6, <5>1
          <5>3. QED BY <5>2 DEF TypeOK
        <4>2. req.f[j] = "ok" /\ out[j] = "new" /\ j # handles[w].pos
          BY <3>6 DEF Progress
        <4>3. QED BY <2>3, <4>1, <4>2 DEF CallFails
      <3>8. /\ h.lo <= h.pos /\ h.pos <= h.hi + 1 /\ h.pos <= h.hi
            /\ h.st \notin {"ready", "calling", "ok"} /\ req.f[h.pos] = h.st
        BY <3>3, <3>4, <3>6
      <3>9. QED BY <3>2, <3>4, <3>5, <3>7, <3>8
    <2>4. QED BY <2>1, <2>2, <2>3 DEF Worker
  <1>5. /\ handles' \in Seq(Handle) /\ Len(handles') = Len(handles)
        /\ DOMAIN handles' = DOMAIN handles
        /\ handles'[w] = h
        /\ \A v \in DOMAIN handles : v # w => handles'[v] = handles[v]
    BY <1>1, <1>4
  <1>6. /\ out' \in [1 .. req.output -> {"old", "new", "torn"}]
        /\ \A i \in 1 .. req.output : out'[i] # out[i] =>
             /\ handles[w].st = "calling" /\ i = handles[w].pos
             /\ req.input = req.output
             /\ out'[i] = "new" => req.f[i] = "ok"
             /\ out'[i] = "torn" => req.f[i] # "ok"
    <2>1. CASE Call(w)
      BY <2>1 DEF TypeOK, Call
    <2>2. CASE CallOk(w)
      BY <2>2, OwnSlot DEF TypeOK, CallOk
    <2>3. CASE CallFails(w)
      BY <2>3, OwnSlot DEF TypeOK, CallFails
    <2>4. QED BY <2>1, <2>2, <2>3 DEF Worker
  <1>7. TypeOK'
    <2>1. handles' \in Seq(Handle')
      BY <1>2, <1>5, HandleStable
    <2>2. QED
      BY <1>2, <1>5, <1>6, <2>1 DEF TypeOK
  <1>8. Layout'
    <2>1. \A v \in DOMAIN handles : handles'[v].lo = handles[v].lo /\ handles'[v].hi = handles[v].hi
      BY <1>4, <1>5
    <2>2. \A v \in DOMAIN handles : /\ handles'[v].lo <= handles'[v].hi
                                    /\ handles'[v].lo <= handles'[v].pos
                                    /\ handles'[v].pos <= handles'[v].hi + 1
                                    /\ handles'[v].hi <= at
      BY <1>4, <1>5 DEF Layout
    <2>3. Threaded
      BY <1>1 DEF Threaded
    <2>4. QED
      BY <1>2, <1>5, <2>1, <2>2, <2>3 DEF Layout
  <1>9. Progress'
    <2> SUFFICES ASSUME NEW v \in DOMAIN handles
                 PROVE  /\ \A j \in handles'[v].lo .. handles'[v].pos - 1 :
                             req.f[j] = "ok" /\ out'[j] = "new"
                        /\ handles'[v].st \in {"ready", "calling"} => handles'[v].pos <= handles'[v].hi
                        /\ handles'[v].st = "ok" => handles'[v].pos = handles'[v].hi + 1
                        /\ handles'[v].st \in {"err", "panic"} =>
                             /\ handles'[v].pos <= handles'[v].hi
                             /\ req.f[handles'[v].pos] = handles'[v].st
      BY <1>2, <1>5 DEF Progress
    <2>1. CASE v = w
      BY <1>4, <1>5, <2>1
    <2>2. CASE v # w
      <3>1. handles'[v] = handles[v] /\ handles[v] \in Handle
        BY <1>1, <1>5, <2>2
      <3>2. ASSUME NEW j \in handles[v].lo .. handles[v].pos - 1
            PROVE  req.f[j] = "ok" /\ out'[j] = "new"
        <4>1. /\ handles[v].lo \in 1 .. req.input /\ handles[v].hi \in 1 .. req.input
              /\ handles[v].pos \in Nat /\ handles[v].pos <= handles[v].hi + 1
          <5>1. handles[v].lo \in Nat /\ handles[v].hi \in Nat /\ handles[v].pos \in Nat
            BY <3>1 DEF Handle
          <5>2. QED BY <1>1, <3>1, <5>1 DEF Handle, Layout
        <4>2. j \in handles[v].lo .. handles[v].hi /\ j \in 1 .. req.input
          BY <1>1, <4>1
        <4>3. req.f[j] = "ok" /\ out[j] = "new"
          BY DEF Progress
        <4>4. req.input = req.output
          BY <1>1 DEF Phase, Accepted
        <4>5. ~(handles[w].st = "calling" /\ j = handles[w].pos)
          BY <2>2, <4>2, OwnSlot
        <4>6. QED BY <1>6, <4>2, <4>3, <4>4, <4>5
      <3>3. QED BY <3>1, <3>2 DEF Progress
    <2>3. QED BY <2>1, <2>2
  <1>10. Slots'
    <2>1. Accepted /\ Accepted'
      BY <1>1, <1>2 DEF Phase, Accepted
    <2>2. QED
      BY <1>2, <1>6, <2>1 DEF Slots, TypeOK
  <1>11. Recorded'
    <2>1. joined \in Nat /\ \A v \in 1 .. joined : v \in DOMAIN handles /\ v # w
      BY <1>1, <1>3 DEF TypeOK
    <2>2. \A v \in 1 .. joined : handles'[v] = handles[v]
      BY <1>5, <2>1
    <2>3. \A v \in 1 .. joined : \A u \in 1 .. v - 1 : u \in 1 .. joined
      BY <2>1
    <2>4. QED
      BY <1>2, <2>1, <2>2, <2>3 DEF Recorded
  <1>12. Phase'
    <2>1. pc \notin {"enter", "inline"} /\ handles' # <<>>
      BY <1>1, <1>5 DEF Phase
    <2>2. QED
      BY <1>1, <1>2, <1>3, <2>1 DEF Phase, Accepted
  <1>13. NoWorkerSurvives'
    BY <1>2, <1>3 DEF NoWorkerSurvives
  <1>14. QED BY <1>7, <1>8, <1>9, <1>10, <1>11, <1>12, <1>13

\* The invariant holds throughout every call.
THEOREM Invariance == Spec => []Inv
  <1>1. Inv /\ [Next]_vars => Inv'
    BY CallerInv, SpawnInv, WaitInv, WorkerInv DEF Next, Caller, Terminated
  <1>2. QED
    BY InitInv, <1>1, PTL DEF Spec

\* Every variable keeps its type and no closure call leaves the slices.
THEOREM TypeCorrect == Spec => []TypeOK
  BY Invariance, PTL DEF Inv, IndInv

\* No two threads ever hold the same output slot.
THEOREM NoAliasing == Spec => []ExclusiveSlots
  <1>1. Inv => ExclusiveSlots
    <2> SUFFICES ASSUME Inv, NEW v \in DOMAIN handles, NEW w \in DOMAIN handles, v # w,
                        handles[v].st = "calling", handles[w].st = "calling"
                 PROVE  handles[v].pos # handles[w].pos
      BY DEF ExclusiveSlots
    <2>1. handles[v].pos \in handles[v].lo .. handles[v].hi
      BY OwnSlot DEF Inv
    <2>2. handles[w].pos \notin handles[v].lo .. handles[v].hi
      BY OwnSlot DEF Inv
    <2>3. QED BY <2>1, <2>2
  <1>2. QED BY Invariance, <1>1, PTL

\* No thread outlives the call, whether it returns or unwinds.
THEOREM ScopeClosed == Spec => []NoWorkerSurvives
  BY Invariance, PTL DEF Inv

\* A step of a worker reaches its own slot only.
LEMMA WorkerReaches ==
    ASSUME Inv, Reached, NEW w \in DOMAIN handles, Worker(w)
    PROVE  Reached'
  <1>1. /\ req.input \in Nat /\ req.output \in Nat /\ handles \in Seq(Handle) /\ handles # <<>>
        /\ DOMAIN handles = 1 .. Len(handles) /\ Len(handles) \in Nat
        /\ \A v \in DOMAIN handles : handles[v] \in Handle
        /\ out \in [1 .. req.output -> {"old", "new", "torn"}]
    BY RequestsWellFormed DEF Inv, IndInv, TypeOK
  <1>2. \A v \in DOMAIN handles :
          /\ handles[v].lo \in Nat /\ handles[v].hi \in Nat /\ handles[v].pos \in Nat
    <2>1. \A v \in DOMAIN handles : /\ handles[v].lo \in 1 .. req.input
                                    /\ handles[v].hi \in 1 .. req.input
                                    /\ handles[v].pos \in 1 .. req.input + 1
      BY <1>1 DEF Handle
    <2>2. QED BY <1>1, <2>1
  <1>3. req' = req /\ pc' = pc /\ at' = at
    BY DEF Worker, Call, CallOk, CallFails
  <1>4. pc # "inline"
    BY <1>1 DEF Inv, IndInv, Phase
  <1>5. PICK h : /\ handles' = [handles EXCEPT ![w] = h] /\ h.lo = handles[w].lo /\ h.hi = handles[w].hi
                 /\ h.pos \in Nat /\ handles[w].pos <= h.pos
    <2>1. CASE Call(w)
      <3> DEFINE h == [handles[w] EXCEPT !.st = "calling"]
      <3>1. handles' = [handles EXCEPT ![w] = h]
        BY <2>1 DEF Call
      <3>2. h.lo = handles[w].lo /\ h.hi = handles[w].hi /\ h.pos = handles[w].pos
        BY <1>1 DEF Handle
      <3> HIDE DEF h
      <3>3. h.pos \in Nat /\ handles[w].pos <= h.pos
        BY <1>2, <3>2
      <3>4. QED BY <3>1, <3>2, <3>3
    <2>2. CASE CallOk(w)
      <3> DEFINE h == [handles[w] EXCEPT !.pos = handles[w].pos + 1,
                                         !.st = IF handles[w].pos = handles[w].hi
                                                THEN "ok" ELSE "ready"]
      <3>1. handles' = [handles EXCEPT ![w] = h]
        BY <2>2 DEF CallOk
      <3>2. h.lo = handles[w].lo /\ h.hi = handles[w].hi /\ h.pos = handles[w].pos + 1
        BY <1>1 DEF Handle
      <3> HIDE DEF h
      <3>3. h.pos \in Nat /\ handles[w].pos <= h.pos
        BY <1>2, <3>2
      <3>4. QED BY <3>1, <3>2, <3>3
    <2>3. CASE CallFails(w)
      <3> DEFINE h == [handles[w] EXCEPT !.st = req.f[handles[w].pos]]
      <3>1. handles' = [handles EXCEPT ![w] = h]
        BY <2>3 DEF CallFails
      <3>2. h.lo = handles[w].lo /\ h.hi = handles[w].hi /\ h.pos = handles[w].pos
        BY <1>1 DEF Handle
      <3> HIDE DEF h
      <3>3. h.pos \in Nat /\ handles[w].pos <= h.pos
        BY <1>2, <3>2
      <3>4. QED BY <3>1, <3>2, <3>3
    <2>4. QED BY <2>1, <2>2, <2>3 DEF Worker
  <1>6. /\ DOMAIN handles' = DOMAIN handles /\ handles' # <<>>
        /\ handles'[w] = h /\ \A v \in DOMAIN handles : v # w => handles'[v] = handles[v]
    BY <1>1, <1>5
  <1>7. ASSUME NEW i \in 1 .. req.output, out'[i] # "old"
        PROVE  \E v \in DOMAIN handles' :
                 i \in handles'[v].lo .. handles'[v].hi /\ i <= handles'[v].pos
    <2>1. CASE out[i] # "old"
      <3>1. PICK v \in DOMAIN handles : i \in handles[v].lo .. handles[v].hi /\ i <= handles[v].pos
        BY <1>1, <2>1 DEF Reached
      <3>2. i \in handles'[v].lo .. handles'[v].hi /\ i <= handles'[v].pos
        BY <1>2, <1>5, <1>6, <3>1
      <3>3. QED BY <1>6, <3>1, <3>2
    <2>2. CASE out[i] = "old"
      <3>1. handles[w].st = "calling" /\ i = handles[w].pos
        BY <1>1, <1>7, <2>2 DEF Worker, Call, CallOk, CallFails
      <3>2. handles[w].pos \in handles[w].lo .. handles[w].hi
        BY <3>1, OwnSlot DEF Inv
      <3>3. i \in handles'[w].lo .. handles'[w].hi /\ i <= handles'[w].pos
        BY <1>2, <1>5, <1>6, <3>1, <3>2
      <3>4. QED BY <1>6, <3>3
    <2>3. QED BY <2>1, <2>2
  <1>8. QED BY <1>3, <1>4, <1>6, <1>7 DEF Reached

\* So does every other step.
LEMMA ReachedStep == Inv /\ Reached /\ [Next]_vars => Reached'
  <1> SUFFICES ASSUME Inv, Reached, [Next]_vars PROVE Reached'
    OBVIOUS
  <1> USE DEF Inv, IndInv
  <1>1. /\ req.input \in Nat /\ req.output \in Nat /\ at \in Nat /\ handles \in Seq(Handle)
        /\ DOMAIN handles = 1 .. Len(handles) /\ Len(handles) \in Nat
        /\ \A v \in DOMAIN handles : handles[v] \in Handle
        /\ out \in [1 .. req.output -> {"old", "new", "torn"}]
    BY RequestsWellFormed DEF TypeOK
  <1>2. CASE RejectWorkers \/ RejectLengths \/ EmptyInput \/ Dispatch
    <2>1. handles = <<>> /\ \A i \in 1 .. req.output : out[i] = "old"
      BY <1>2 DEF Phase, Reached, RejectWorkers, RejectLengths, EmptyInput, Dispatch
    <2>2. QED BY <1>2, <2>1 DEF Reached, RejectWorkers, RejectLengths, EmptyInput, Dispatch
  <1>3. CASE InlineOk \/ InlineErr \/ InlinePanic
    <2>1. pc = "inline" /\ handles = <<>> /\ handles' = <<>> /\ req' = req
      BY <1>3 DEF Phase, InlineOk, InlineErr, InlinePanic
    <2>2. \A j \in 1 .. at : req.f[j] = "ok"
      BY <2>1 DEF Phase
    <2>3. \A i \in 1 .. req.output : out[i] # "old" => i <= at
      BY <2>1 DEF Reached
    <2>4. \A i \in 1 .. req.output : out'[i] # "old" => i <= at + 1
      <3>1. PICK x : out' = [out EXCEPT ![at + 1] = x]
        BY <1>3 DEF InlineOk, InlineErr, InlinePanic
      <3>2. \A i \in 1 .. req.output : i # at + 1 => out'[i] = out[i]
        BY <1>1, <3>1
      <3>3. QED BY <1>1, <2>3, <3>2
    <2>5. /\ pc' \in {"inline", "returned", "unwound"}
          /\ pc' = "inline" => at' = at + 1
      BY <1>3, <2>1 DEF InlineOk, InlineErr, InlinePanic
    <2>6. \A i \in 1 .. req.output : out'[i] # "old" => \A j \in 1 .. i - 1 : req.f[j] = "ok"
      BY <1>1, <2>2, <2>4
    <2>7. QED BY <2>1, <2>4, <2>5, <2>6 DEF Reached
  <1>4. CASE Spawn
    <2> DEFINE h == [lo |-> at + 1, hi |-> ChunkEnd(req, at), pos |-> at + 1, st |-> "ready"]
    <2>1. /\ req' = req /\ out' = out /\ pc = "spawn" /\ pc' \in {"spawn", "join"}
          /\ handles' = Append(handles, h)
      BY <1>4 DEF Spawn
    <2> HIDE DEF h
    <2>2. /\ DOMAIN handles' = 1 .. Len(handles) + 1 /\ handles' # <<>>
          /\ \A v \in DOMAIN handles : v \in DOMAIN handles' /\ handles'[v] = handles[v]
      BY <1>1, <2>1
    <2>3. \A i \in 1 .. req.output : out'[i] # "old" => \E v \in DOMAIN handles' :
             i \in handles'[v].lo .. handles'[v].hi /\ i <= handles'[v].pos
      BY <2>1, <2>2 DEF Reached
    <2>4. QED BY <2>1, <2>2, <2>3 DEF Reached
  <1>5. CASE SpawnFails \/ ScopeUnwinds \/ Join \/ Return \/ UNCHANGED vars
    <2>1. /\ req' = req /\ out' = out /\ handles' = handles /\ at' = at
          /\ pc' = pc \/ (pc # "inline" /\ pc' \in {"unwinding", "unwound", "returned"})
      BY <1>5 DEF SpawnFails, ScopeUnwinds, Join, Return, vars
    <2>2. pc' # pc => pc' \in {"unwound", "returned"} \/ (handles = <<>> => pc = "spawn")
      BY <1>5 DEF SpawnFails, ScopeUnwinds, Join, Return, vars
    <2>3. QED BY <2>1, <2>2 DEF Reached
  <1>6. CASE \E w \in DOMAIN handles : Worker(w)
    BY <1>6, WorkerReaches
  <1>7. QED BY <1>2, <1>3, <1>4, <1>5, <1>6 DEF Next, Caller, Terminated

\* A failing element is the last one its chunk has touched, and the inline loop's
\* likewise, however the threads interleave.
THEOREM FailsFast == Spec => []StopsAtFirstFailure
  <1>1. Init => Reached
    BY RequestsWellFormed DEF Init, Reached
  <1>2. Inv /\ Reached => StopsAtFirstFailure
    <2> SUFFICES ASSUME Inv, Reached, NEW i \in 1 .. req.output, out[i] # "old"
                 PROVE  IF handles = <<>>
                        THEN \A j \in 1 .. i - 1 : req.f[j] = "ok"
                        ELSE \E w \in DOMAIN handles :
                               /\ i \in handles[w].lo .. handles[w].hi
                               /\ \A j \in handles[w].lo .. i - 1 : req.f[j] = "ok"
      BY DEF StopsAtFirstFailure
    <2>1. CASE handles = <<>>
      BY <2>1 DEF Reached
    <2>2. CASE handles # <<>>
      <3>1. PICK w \in DOMAIN handles : i \in handles[w].lo .. handles[w].hi /\ i <= handles[w].pos
        BY <2>2 DEF Reached
      <3>2. handles[w].lo \in Nat /\ handles[w].pos \in Nat /\ req.output \in Nat
        <4>1. handles[w] \in Handle /\ req.input \in Nat /\ req.output \in Nat
          BY RequestsWellFormed DEF Inv, IndInv, TypeOK
        <4>2. QED BY <4>1 DEF Handle
      <3>3. \A j \in handles[w].lo .. i - 1 : j \in handles[w].lo .. handles[w].pos - 1
        BY <3>1, <3>2
      <3>4. \A j \in handles[w].lo .. i - 1 : req.f[j] = "ok"
        BY <3>3 DEF Inv, IndInv, Progress
      <3>5. QED BY <2>2, <3>1, <3>4
    <2>3. QED BY <2>1, <2>2
  <1>3. QED BY Invariance, ReachedStep, <1>1, <1>2, PTL DEF Spec

\* When every handle is joined, the recorded failure is the least failing index.
LEMMA JoinedOutcome ==
    ASSUME Inv, pc = "join", joined = Len(handles)
    PROVE  /\ failure = None =>
                 \A i \in 1 .. req.input : req.f[i] = "ok" /\ out[i] = "new"
           /\ failure # None =>
                 \E i \in 1 .. req.input :
                   /\ req.f[i] # "ok"
                   /\ \A j \in 1 .. i - 1 : req.f[j] = "ok"
                   /\ failure = IF req.f[i] = "err" THEN Outcome("Worker", i)
                                                    ELSE Outcome("WorkerPanicked", 0)
  <1> USE DEF Inv, IndInv
  <1>1. /\ req.input \in Nat /\ Len(handles) \in Nat /\ at = req.input
        /\ DOMAIN handles = 1 .. Len(handles)
        /\ \A w \in DOMAIN handles : handles[w] \in Handle
    BY RequestsWellFormed DEF TypeOK, Phase
  <1>2. \A w \in DOMAIN handles : /\ handles[w].lo \in 1 .. req.input
                                  /\ handles[w].hi \in 1 .. req.input
                                  /\ handles[w].pos \in 1 .. req.input + 1
    BY <1>1 DEF Handle
  <1>3. ASSUME NEW w \in DOMAIN handles, handles[w].st = "ok",
               NEW i \in handles[w].lo .. handles[w].hi
        PROVE  req.f[i] = "ok" /\ out[i] = "new"
    <2>1. i \in handles[w].lo .. handles[w].pos - 1
      BY <1>2, <1>3 DEF Progress
    <2>2. QED BY <2>1 DEF Progress
  <1>4. \A i \in 1 .. req.input : \E w \in DOMAIN handles : i \in handles[w].lo .. handles[w].hi
    BY <1>1 DEF Layout, Threaded
  <1>5. CASE failure = None
    BY <1>1, <1>3, <1>4, <1>5 DEF Recorded
  <1>6. CASE failure # None
    <2>1. PICK w \in DOMAIN handles :
             /\ handles[w].st # "ok"
             /\ failure = Reported(handles[w])
             /\ \A v \in 1 .. w - 1 : handles[v].st = "ok"
             /\ handles[w].st \in Ended
      BY <1>1, <1>6 DEF Recorded
    <2>2. handles[w].st \in {"err", "panic"}
      BY <2>1 DEF Ended
    <2>3. handles[w].pos <= handles[w].hi /\ req.f[handles[w].pos] = handles[w].st
      BY <2>2 DEF Progress
    <2>4. handles[w].pos \in 1 .. req.input
      BY <1>1, <1>2, <2>3
    <2>5. ASSUME NEW j \in 1 .. handles[w].pos - 1
          PROVE  req.f[j] = "ok"
      <3>1. PICK v \in DOMAIN handles : j \in handles[v].lo .. handles[v].hi
        <4>1. j \in 1 .. req.input
          BY <1>1, <2>4
        <4>2. QED BY <1>4, <4>1
      <3>2. CASE v < w
        BY <1>1, <1>3, <2>1, <3>1, <3>2
      <3>3. CASE v = w
        <4>1. j \in handles[w].lo .. handles[w].pos - 1
          BY <1>2, <3>1, <3>3
        <4>2. QED BY <4>1 DEF Progress
      <3>4. CASE w < v
        <4>1. handles[w].hi < handles[v].lo
          BY <3>4 DEF Layout
        <4>2. QED BY <1>2, <2>3, <3>1, <4>1
      <3>5. QED BY <1>1, <3>2, <3>3, <3>4
    <2>6. failure = IF req.f[handles[w].pos] = "err" THEN Outcome("Worker", handles[w].pos)
                                                     ELSE Outcome("WorkerPanicked", 0)
      BY <2>1, <2>2, <2>3 DEF Reported
    <2>7. QED BY <1>6, <2>2, <2>3, <2>4, <2>5, <2>6
  <1>7. QED BY <1>5, <1>6

\* Chunks are handed out by the worker count, never beyond it.
Budget ==
    /\ handles # <<>> => Len(handles) <= WorkerCount(req)
    /\ pc = "spawn" => at = Len(handles) * ChunkSize(req)

\* A product smaller than another with the same positive factor.
LEMMA SmallerFactor ==
    ASSUME NEW k \in Nat, NEW c \in Nat, NEW m \in Nat, k * m < c * m
    PROVE  k < c
  <1>1. ASSUME c <= k PROVE FALSE
    <2>1. k * m = c * m + (k - c) * m /\ k - c \in Nat
      BY <1>1
    <2>2. (k - c) * m >= 0
      BY <2>1
    <2>3. c * m \in Nat /\ (k - c) * m \in Nat
      BY <2>1
    <2>4. QED BY <2>1, <2>2, <2>3
  <1>2. QED BY <1>1

\* The number of threads never exceeds the caller's bound.
THEOREM BoundedThreads == Spec => []AtMostWorkers
  <1>1. Init => Budget
    BY DEF Init, Budget
  <1>2. Inv /\ Budget /\ [Next]_vars => Budget'
    <2> SUFFICES ASSUME Inv, Budget, [Next]_vars PROVE Budget'
      OBVIOUS
    <2> USE DEF Inv, IndInv
    <2>1. /\ req \in Requests /\ req.input \in Nat /\ req.workers \in Nat
          /\ Len(handles) \in Nat /\ at \in Nat
      BY RequestsWellFormed DEF TypeOK
    <2>2. CASE Spawn
      <3>1. req.input \in Nat \ {0} /\ req.workers \in Nat \ {0} /\ at < req.input
        BY <2>1, <2>2 DEF Spawn, Phase, Accepted
      <3>2. WorkerCount(req) \in Nat \ {0}
        BY <3>1 DEF WorkerCount
      <3>3. ChunkSize(req) \in Nat /\ req.input <= WorkerCount(req) * ChunkSize(req)
        BY <3>1, <3>2, DivCeil DEF ChunkSize
      <3>4. at = Len(handles) * ChunkSize(req)
        BY <2>2 DEF Budget, Spawn
      <3>5. Len(handles) < WorkerCount(req)
        <4>1. Len(handles) * ChunkSize(req) < WorkerCount(req) * ChunkSize(req)
          BY <2>1, <3>1, <3>2, <3>3, <3>4
        <4>2. QED BY <2>1, <3>2, <3>3, <4>1, SmallerFactor
      <3>6. Len(handles') = Len(handles) + 1 /\ req' = req
        BY <2>2 DEF Spawn, TypeOK
      <3>7. pc' = "spawn" => at' = (Len(handles) + 1) * ChunkSize(req)
        <4>1. pc' = "spawn" => at' = at + ChunkSize(req)
          BY <2>1, <2>2, <3>3 DEF Spawn, ChunkEnd
        <4>2. (Len(handles) + 1) * ChunkSize(req) = Len(handles) * ChunkSize(req) + ChunkSize(req)
          BY <2>1, <3>3
        <4>3. QED BY <3>4, <4>1, <4>2
      <3>8. QED BY <2>1, <3>2, <3>5, <3>6, <3>7 DEF Budget
    <2>3. CASE Dispatch
      <3>1. at = 0 /\ handles = <<>> /\ Len(handles) = 0
        BY <2>3 DEF Dispatch, Phase
      <3>2. req' = req /\ at' = 0 /\ handles' = <<>> /\ Len(handles') = 0
        BY <2>3, <3>1 DEF Dispatch
      <3>3. pc' = "spawn" => ChunkSize(req) \in Nat
        <4> SUFFICES ASSUME pc' = "spawn" PROVE ChunkSize(req) \in Nat
          OBVIOUS
        <4>1. req.input \in Nat \ {0} /\ req.workers \in Nat \ {0}
          BY <2>1, <2>3 DEF Dispatch, Accepted
        <4>2. WorkerCount(req) \in Nat \ {0}
          BY <4>1 DEF WorkerCount
        <4>3. QED BY <4>1, <4>2, DivCeil DEF ChunkSize
      <3>4. QED BY <3>2, <3>3 DEF Budget
    <2>4. CASE \E w \in DOMAIN handles : Worker(w)
      <3>1. PICK w \in DOMAIN handles : Worker(w)
        BY <2>4
      <3>2. Len(handles') = Len(handles) /\ UNCHANGED <<req, pc, at>>
        BY <3>1 DEF Worker, Call, CallOk, CallFails, TypeOK
      <3>3. handles # <<>>
        BY <3>1
      <3>4. QED BY <3>2, <3>3 DEF Budget
    <2>5. CASE \/ RejectWorkers \/ RejectLengths \/ EmptyInput
               \/ InlineOk \/ InlineErr \/ InlinePanic
               \/ SpawnFails \/ ScopeUnwinds \/ Join \/ Return \/ UNCHANGED vars
      BY <2>5 DEF Budget, RejectWorkers, RejectLengths, EmptyInput, InlineOk, InlineErr, InlinePanic,
           SpawnFails, ScopeUnwinds, Join, Return, vars
    <2>6. QED
      BY <2>2, <2>3, <2>4, <2>5 DEF Next, Caller, Terminated
  <1>3. Inv /\ Budget => AtMostWorkers
    <2> SUFFICES ASSUME Inv, Budget PROVE AtMostWorkers
      OBVIOUS
    <2>1. req.input \in Nat /\ req.workers \in Nat /\ Len(handles) \in Nat
      BY RequestsWellFormed DEF Inv, IndInv, TypeOK
    <2>2. WorkerCount(req) <= req.workers /\ WorkerCount(req) \in Nat
      BY <2>1 DEF WorkerCount
    <2>3. QED BY <2>1, <2>2 DEF Budget, AtMostWorkers
  <1>4. QED
    BY Invariance, <1>1, <1>2, <1>3, PTL DEF Spec

\* The reported result is the least failing index's, and Ok fills the output.
THEOREM Deterministic == Spec => [](ResultIsFirstFailure /\ OkMeansAllMapped)
  <1> DEFINE P == ResultIsFirstFailure /\ OkMeansAllMapped
  <1>1. Init => P
    BY DEF Init, ResultIsFirstFailure, OkMeansAllMapped, None
  <1>2. Inv /\ P /\ [Next]_vars => P'
    <2> SUFFICES ASSUME Inv, P, [Next]_vars PROVE P'
      OBVIOUS
    <2> USE DEF Inv, IndInv
    <2>1. /\ req \in Requests /\ req.input \in Nat /\ req.output \in Nat
          /\ req.f \in [1 .. req.input -> {"ok", "err", "panic"}]
      BY RequestsWellFormed DEF TypeOK
    <2>2. CASE pc \in {"returned", "unwound"}
      <3>1. ~Caller
        BY <2>2 DEF Caller, RejectWorkers, RejectLengths, EmptyInput, Dispatch, InlineOk, InlineErr,
             InlinePanic, Spawn, SpawnFails, ScopeUnwinds, Join, Return
      <3>2. \A w \in DOMAIN handles : ~Worker(w)
        BY <2>2 DEF NoWorkerSurvives, Ended, Worker, Call, CallOk, CallFails
      <3>3. UNCHANGED vars
        BY <3>1, <3>2 DEF Next, Terminated
      <3>4. QED BY <3>3 DEF vars, ResultIsFirstFailure, OkMeansAllMapped, Accepted
    <2>3. CASE pc \notin {"returned", "unwound"} /\ pc' \notin {"returned", "unwound"}
      <3>1. result' = None
        BY <2>3 DEF Phase, Next, Caller, RejectWorkers, RejectLengths, EmptyInput, Dispatch, InlineOk,
             InlineErr, InlinePanic, Spawn, SpawnFails, ScopeUnwinds, Join, Return, Terminated, vars,
             Worker, Call, CallOk, CallFails
      <3>2. QED BY <2>3, <3>1 DEF ResultIsFirstFailure, OkMeansAllMapped, None
    <2>4. CASE RejectWorkers \/ RejectLengths \/ InlinePanic \/ ScopeUnwinds
      <3>1. req' = req /\ result'.tag # "Ok" /\ (pc' = "returned" => ~Accepted)
        BY <2>4 DEF RejectWorkers, RejectLengths, InlinePanic, ScopeUnwinds, Accepted, Outcome
      <3>2. QED BY <3>1 DEF ResultIsFirstFailure, OkMeansAllMapped, Accepted
    <2>5. CASE EmptyInput
      <3>1. req' = req /\ req.input = 0 /\ req.output = 0 /\ result'.tag = "Ok"
        BY <2>5 DEF EmptyInput, Accepted, Outcome
      <3>2. QED BY <3>1 DEF ResultIsFirstFailure, OkMeansAllMapped
    <2>6. CASE InlineOk /\ pc' = "returned"
      <3>1. /\ req' = req /\ result'.tag = "Ok" /\ req.input = req.output
            /\ at + 1 = req.input /\ at \in Nat
            /\ \A j \in 1 .. at : req.f[j] = "ok" /\ out[j] = "new"
            /\ req.f[at + 1] = "ok" /\ out' = [out EXCEPT ![at + 1] = "new"]
        BY <2>1, <2>6 DEF InlineOk, Phase, Accepted, TypeOK, Outcome
      <3>2. \A i \in 1 .. req.input : req.f[i] = "ok" /\ out'[i] = "new"
        <4> SUFFICES ASSUME NEW i \in 1 .. req.input PROVE req.f[i] = "ok" /\ out'[i] = "new"
          OBVIOUS
        <4>1. i = at + 1 \/ i \in 1 .. at
          BY <2>1, <3>1
        <4>2. QED BY <3>1, <4>1 DEF TypeOK
      <3>3. QED BY <3>1, <3>2 DEF ResultIsFirstFailure, OkMeansAllMapped
    <2>7. CASE InlineErr
      <3>1. /\ req' = req /\ result' = Outcome("Worker", at + 1)
            /\ at + 1 \in 1 .. req.input /\ req.f[at + 1] = "err"
            /\ \A j \in 1 .. (at + 1) - 1 : req.f[j] = "ok"
        BY <2>1, <2>7 DEF InlineErr, Phase, TypeOK
      <3>2. QED BY <3>1 DEF ResultIsFirstFailure, OkMeansAllMapped, Outcome
    <2>8. CASE Return
      <3>1. /\ pc = "join" /\ joined = Len(handles) /\ req' = req /\ out' = out
            /\ req.input = req.output
        BY <2>8 DEF Return, Phase, Accepted
      <3>2. CASE failure = None
        <4>1. result'.tag = "Ok" /\ \A i \in 1 .. req.input : req.f[i] = "ok" /\ out[i] = "new"
          BY <2>8, <3>1, <3>2, JoinedOutcome DEF Return, Outcome
        <4>2. QED BY <3>1, <4>1 DEF ResultIsFirstFailure, OkMeansAllMapped
      <3>3. CASE failure # None
        <4>1. PICK i \in 1 .. req.input :
                /\ req.f[i] # "ok"
                /\ \A j \in 1 .. i - 1 : req.f[j] = "ok"
                /\ failure = IF req.f[i] = "err" THEN Outcome("Worker", i)
                                                 ELSE Outcome("WorkerPanicked", 0)
          BY <3>1, <3>3, JoinedOutcome
        <4>2. result' = failure /\ result'.tag # "Ok"
          BY <2>8, <3>3, <4>1 DEF Return, Outcome
        <4>3. QED BY <3>1, <4>1, <4>2 DEF ResultIsFirstFailure, OkMeansAllMapped
      <3>4. QED BY <3>2, <3>3
    <2>9. QED
      <3>1. CASE \E w \in DOMAIN handles : Worker(w)
        BY <2>2, <2>3, <3>1 DEF Worker, Call, CallOk, CallFails
      <3>2. CASE Caller
        BY <2>2, <2>3, <2>4, <2>5, <2>6, <2>7, <2>8, <3>2 DEF Caller, Dispatch, Spawn, SpawnFails, Join, InlineOk
      <3>3. CASE UNCHANGED vars
        BY <2>2, <2>3, <3>3 DEF vars
      <3>4. QED BY <3>1, <3>2, <3>3 DEF Next, Terminated
  <1>3. QED
    BY Invariance, <1>1, <1>2, PTL DEF Spec

\* A step that ends an accepted call is the promise's single step.
LEMMA Completes ==
    ASSUME Inv, pc \notin {"returned", "unwound"}, pc' \in {"returned", "unwound"},
           Accepted, req' = req,
           Promise!Promised(req, result'), Promise!Left(req, result', out')
    PROVE  Promise!Complete
  BY DEF Promise!Complete, Accepted

\* What the slots hold at the end of a failed call is what the promise allows.
LEMMA LeftAfterFailure ==
    ASSUME Inv', req' = req, result'.tag # "Ok"
    PROVE  Promise!Left(req, result', out')
  BY DEF Inv, IndInv, TypeOK, Slots, Promise!Left, Promise!Slot

\* The call with its threads implements the atomic promise.
THEOREM Refinement == Spec => KeepsPromise
  <1>1. Init => Promise!Init
    BY DEF Init, Promise!Init, Promise!Pending, Promise!Untouched
  <1>2. Inv /\ Inv' /\ [Next]_vars => [Promise!Next]_(Promise!vars)
    <2> SUFFICES ASSUME Inv, Inv', [Next]_vars PROVE [Promise!Next]_(Promise!vars)
      OBVIOUS
    <2>1. /\ req \in Requests /\ req.input \in Nat /\ req.output \in Nat /\ req.workers \in Nat
          /\ req.f \in [1 .. req.input -> {"ok", "err", "panic"}]
      BY RequestsWellFormed DEF Inv, IndInv, TypeOK
    <2>2. WorkerCount(req) = 1 => Promise!Inline(req)
      BY <2>1 DEF Promise!Inline, WorkerCount
    <2>3. CASE pc \in {"returned", "unwound"}
      <3>1. ~Caller
        BY <2>3 DEF Caller, RejectWorkers, RejectLengths, EmptyInput, Dispatch, InlineOk, InlineErr,
             InlinePanic, Spawn, SpawnFails, ScopeUnwinds, Join, Return
      <3>2. \A w \in DOMAIN handles : ~Worker(w)
        BY <2>3 DEF Inv, NoWorkerSurvives, Ended, Worker, Call, CallOk, CallFails
      <3>3. UNCHANGED vars
        BY <3>1, <3>2 DEF Next, Terminated
      <3>4. QED BY <3>3 DEF vars, Promise!vars
    <2>4. CASE pc \notin {"returned", "unwound"} /\ pc' \notin {"returned", "unwound"}
      <3>1. req' = req
        BY <2>4 DEF Next, Caller, RejectWorkers, RejectLengths, EmptyInput, Dispatch, InlineOk,
             InlineErr, InlinePanic, Spawn, SpawnFails, ScopeUnwinds, Join, Return, Terminated, vars,
             Worker, Call, CallOk, CallFails
      <3>2. QED BY <2>4, <3>1 DEF Promise!vars
    <2>5. CASE RejectWorkers \/ RejectLengths
      <3>1. out = [i \in 1 .. req.output |-> "old"]
        BY <2>5 DEF Inv, IndInv, TypeOK, Slots, RejectWorkers, RejectLengths, Accepted
      <3>2. Promise!Reject
        BY <2>5, <3>1 DEF RejectWorkers, RejectLengths, Promise!Reject, Promise!Done, Outcome
      <3>3. QED BY <3>2 DEF Promise!Next
    <2>6. CASE EmptyInput
      <3>1. /\ req' = req /\ req.input = 0 /\ req.output = 0 /\ Accepted
            /\ result' = Outcome("Ok", 0) /\ out' = out
            /\ pc \notin {"returned", "unwound"} /\ pc' \in {"returned", "unwound"}
        BY <2>6 DEF EmptyInput, Accepted
      <3>2. Promise!Promised(req, result')
        BY <3>1 DEF Promise!Promised, Promise!NoFailure, Promise!Done, Outcome
      <3>3. Promise!Left(req, result', out')
        BY <3>1 DEF Promise!Left, Promise!Slot, Inv, IndInv, TypeOK
      <3>4. QED BY <3>1, <3>2, <3>3, Completes DEF Promise!Next
    <2>7. CASE InlineOk /\ pc' = "returned"
      <3>1. /\ req' = req /\ result' = Outcome("Ok", 0) /\ Accepted /\ req.input = req.output
            /\ pc \notin {"returned", "unwound"} /\ pc' \in {"returned", "unwound"}
            /\ at + 1 = req.input /\ at \in Nat
            /\ \A j \in 1 .. at : req.f[j] = "ok" /\ out[j] = "new"
            /\ req.f[at + 1] = "ok" /\ out' = [out EXCEPT ![at + 1] = "new"]
        BY <2>1, <2>7 DEF InlineOk, Inv, IndInv, Phase, Accepted, TypeOK
      <3>2. \A i \in 1 .. req.input : req.f[i] = "ok" /\ out'[i] = "new"
        <4> SUFFICES ASSUME NEW i \in 1 .. req.input PROVE req.f[i] = "ok" /\ out'[i] = "new"
          OBVIOUS
        <4>1. i = at + 1 \/ i \in 1 .. at
          BY <2>1, <3>1
        <4>2. QED BY <3>1, <4>1 DEF Inv, IndInv, TypeOK
      <3>3. Promise!Promised(req, result')
        BY <3>1, <3>2 DEF Promise!Promised, Promise!NoFailure, Promise!Done, Outcome
      <3>4. Promise!Left(req, result', out')
        BY <3>1, <3>2 DEF Promise!Left, Promise!Slot, Inv, IndInv, TypeOK
      <3>5. QED BY <3>1, <3>3, <3>4, Completes DEF Promise!Next
    <2>8. CASE InlineErr \/ InlinePanic
      <3>1. /\ req' = req /\ Accepted /\ WorkerCount(req) = 1
            /\ pc \notin {"returned", "unwound"} /\ pc' \in {"returned", "unwound"}
            /\ at + 1 \in 1 .. req.input
            /\ \A j \in 1 .. (at + 1) - 1 : req.f[j] = "ok"
            /\ \/ req.f[at + 1] = "err" /\ result' = Outcome("Worker", at + 1)
               \/ req.f[at + 1] = "panic" /\ result' = Outcome("UnwoundByClosure", 0)
        BY <2>1, <2>8 DEF InlineErr, InlinePanic, Inv, IndInv, Phase, TypeOK
      <3>2. Promise!FirstFailure(req, at + 1)
        BY <3>1 DEF Promise!FirstFailure
      <3>3. Promise!Promised(req, result')
        BY <2>2, <3>1, <3>2 DEF Promise!Promised, Promise!Done, Outcome
      <3>4. result'.tag # "Ok"
        BY <3>1 DEF Outcome
      <3>5. QED BY <3>1, <3>3, <3>4, LeftAfterFailure, Completes DEF Promise!Next
    <2>9. CASE ScopeUnwinds
      <3>1. /\ req' = req /\ Accepted /\ result' = Outcome("UnwoundBySpawn", 0)
            /\ pc \notin {"returned", "unwound"} /\ pc' \in {"returned", "unwound"}
            /\ WorkerCount(req) # 1 /\ req.input # 0
        BY <2>9 DEF ScopeUnwinds, Inv, IndInv, Phase
      <3>2. ~Promise!Inline(req)
        BY <2>1, <3>1 DEF Promise!Inline, WorkerCount, Accepted
      <3>3. Promise!Promised(req, result') /\ result'.tag # "Ok"
        BY <3>1, <3>2 DEF Promise!Promised, Promise!Done, Outcome
      <3>4. QED BY <3>1, <3>3, LeftAfterFailure, Completes DEF Promise!Next
    <2>10. CASE Return
      <3>1. /\ pc = "join" /\ joined = Len(handles) /\ req' = req /\ out' = out
            /\ req.input = req.output /\ Accepted
            /\ pc \notin {"returned", "unwound"} /\ pc' \in {"returned", "unwound"}
            /\ WorkerCount(req) # 1 /\ req.input # 0
        BY <2>10 DEF Return, Inv, IndInv, Phase, Accepted
      <3>2. ~Promise!Inline(req)
        BY <2>1, <3>1 DEF Promise!Inline, WorkerCount, Accepted
      <3>3. CASE failure = None
        <4>1. /\ result' = Outcome("Ok", 0)
              /\ \A i \in 1 .. req.input : req.f[i] = "ok" /\ out[i] = "new"
          BY <2>10, <3>1, <3>3, JoinedOutcome DEF Return
        <4>2. Promise!Promised(req, result')
          BY <4>1 DEF Promise!Promised, Promise!NoFailure, Promise!Done, Outcome
        <4>3. Promise!Left(req, result', out')
          BY <3>1, <4>1 DEF Promise!Left, Promise!Slot, Inv, IndInv, TypeOK
        <4>4. QED BY <3>1, <4>2, <4>3, Completes DEF Promise!Next
      <3>4. CASE failure # None
        <4>1. PICK i \in 1 .. req.input :
                /\ req.f[i] # "ok"
                /\ \A j \in 1 .. i - 1 : req.f[j] = "ok"
                /\ failure = IF req.f[i] = "err" THEN Outcome("Worker", i)
                                                 ELSE Outcome("WorkerPanicked", 0)
          BY <3>1, <3>4, JoinedOutcome
        <4>2. result' = failure /\ result'.tag # "Ok" /\ req.f[i] \in {"err", "panic"}
          BY <2>1, <2>10, <3>4, <4>1 DEF Return, Outcome
        <4>3. Promise!FirstFailure(req, i)
          BY <4>1 DEF Promise!FirstFailure
        <4>4. Promise!Promised(req, result')
          BY <3>2, <4>1, <4>2, <4>3 DEF Promise!Promised, Promise!Done, Outcome
        <4>5. QED BY <3>1, <4>2, <4>4, LeftAfterFailure, Completes DEF Promise!Next
      <3>5. QED BY <3>3, <3>4
    <2>11. QED
      <3>1. CASE \E w \in DOMAIN handles : Worker(w)
        BY <2>3, <2>4, <3>1 DEF Worker, Call, CallOk, CallFails
      <3>2. CASE Caller
        BY <2>3, <2>4, <2>5, <2>6, <2>7, <2>8, <2>9, <2>10, <3>2
           DEF Caller, Dispatch, Spawn, SpawnFails, Join, InlineOk
      <3>3. CASE UNCHANGED vars
        BY <2>3, <2>4, <3>3 DEF vars
      <3>4. QED BY <3>1, <3>2, <3>3 DEF Next, Terminated
  <1>3. QED
    BY Invariance, <1>1, <1>2, PTL DEF Spec, KeepsPromise, Promise!Spec
=============================================================================
