----------------------------- MODULE MapPromise -----------------------------
(***************************************************************************)
(* What prod_runtime::parallel_map promises its caller, with no threads in *)
(* it: one call is pending, then in a single step it is done, with a       *)
(* result and an output slice.  Which result is a function of the request  *)
(* alone, and it is the one a plain sequential loop over the input would   *)
(* report: the failure at the LEAST failing index, whatever the number of  *)
(* workers and however they were scheduled.                                *)
(*                                                                         *)
(* A request is [input, output, workers, f]: the two slice lengths, the    *)
(* worker bound and, for each input index, what the caller's closure does  *)
(* there ("ok", "err" or "panic").  A slot of the output holds "old" (what *)
(* the caller passed in), "new" (the closure's value for that index) or    *)
(* "torn" (whatever a failing closure left behind).                        *)
(***************************************************************************)
EXTENDS Naturals

CONSTANT Requests

Slot == {"old", "new", "torn"}

VARIABLES req, status, result, output

vars == <<req, status, result, output>>

Pending == [tag |-> "Pending", at |-> 0]

Done(tag, at) == [tag |-> tag, at |-> at]

Untouched(r) == [i \in 1 .. r.output |-> "old"]

\* i is the least index on which the closure fails.
FirstFailure(r, i) ==
    /\ i \in 1 .. r.input
    /\ r.f[i] # "ok"
    /\ \A j \in 1 .. i - 1 : r.f[j] = "ok"

NoFailure(r) == \A i \in 1 .. r.input : r.f[i] = "ok"

\* The single-worker path runs the closure on the caller's own stack.
Inline(r) == r.workers = 1 \/ r.input <= 1

\* The results a call with accepted arguments may report.
Promised(r, res) ==
    \/ NoFailure(r) /\ res = Done("Ok", 0)
    \/ \E i \in 1 .. r.input :
         /\ FirstFailure(r, i)
         /\ \/ r.f[i] = "err" /\ res = Done("Worker", i)
            \/ r.f[i] = "panic" /\ ~Inline(r) /\ res = Done("WorkerPanicked", 0)
            \/ r.f[i] = "panic" /\ Inline(r) /\ res = Done("UnwoundByClosure", 0)
    \/ ~Inline(r) /\ res = Done("UnwoundBySpawn", 0)

\* The outputs it may leave: everything mapped if it reports success, and
\* otherwise every slot untouched, mapped, or torn by the closure's failure.
Left(r, res, out) ==
    /\ out \in [1 .. r.output -> Slot]
    /\ res.tag = "Ok" => \A i \in 1 .. r.output : out[i] = "new"
    /\ \A i \in 1 .. r.output :
         /\ out[i] = "new" => r.f[i] = "ok"
         /\ out[i] = "torn" => r.f[i] # "ok"

Init ==
    /\ req \in Requests
    /\ status = "pending"
    /\ result = Pending
    /\ output = Untouched(req)

Reject ==
    /\ status = "pending"
    /\ \/ req.workers = 0 /\ result' = Done("InvalidWorkerCount", 0)
       \/ /\ req.workers # 0
          /\ req.input # req.output
          /\ result' = Done("LengthMismatch", 0)
    /\ status' = "done"
    /\ UNCHANGED <<req, output>>

Complete ==
    /\ status = "pending"
    /\ req.workers # 0
    /\ req.input = req.output
    /\ Promised(req, result')
    /\ Left(req, result', output')
    /\ status' = "done"
    /\ UNCHANGED req

Next == Reject \/ Complete

Spec == Init /\ [][Next]_vars
=============================================================================
