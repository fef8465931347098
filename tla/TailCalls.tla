----------------------------- MODULE TailCalls -----------------------------
(***************************************************************************)
(* Lowering of self tail calls to a loop                                   *)
(* (rust/prod-codegen/src/tail_calls.rs): the plan made from the body of a *)
(* definition, and a run of the loop emitted from it, side by side with    *)
(* the recursion it replaces.                                              *)
(*                                                                         *)
(* Of a body only its self calls matter, in the order `visit` meets them:  *)
(* whether a call is in tail position, and for each argument whether it is *)
(* just a formal or has to be computed.                                    *)
(***************************************************************************)
EXTENDS Naturals, Sequences, FiniteSets

CONSTANTS
    P,                 \* the number of parameters
    MaxSelfCalls,      \* bound on the self calls of a body
    MaxIterations,     \* bound on the calls of a run
    Compute(_, _),     \* what a computed argument of a call evaluates to
    Initial            \* the arguments the run starts with

ASSUME ConstantsAssumption ==
    P \in Nat \ {0} /\ MaxSelfCalls \in Nat /\ MaxIterations \in Nat

ASSUME InitialAssumption == DOMAIN Initial = 1..P

Params == 1..P
Computed == 0                    \* an argument that is no formal
Argument == Params \cup {Computed}
SelfCall == [tail: BOOLEAN,      \* in tail position
             arity: BOOLEAN,     \* as many arguments as parameters
             args: [Params -> Argument]]

VARIABLES
    calls,       \* the self calls of the body
    borrowed,    \* the formals that are passed by reference
    at,          \* the next call `visit` meets
    changed,     \* Plan::changed: the formals some back edge assigns
    phase,       \* "planning", "looping", "recursive" or "returned"
    formals,     \* the loop's variables
    actuals,     \* the arguments of the recursion's current call
    result,      \* what the loop returned
    expected,    \* what the recursion returns
    iterations

vars == <<calls, borrowed, at, changed, phase, formals, actuals, result, expected, iterations>>
definition == <<calls, borrowed>>
run == <<formals, actuals, result, expected, iterations>>

Pending == <<"pending", 0>>
Value(args) == <<"value", args>>
Error(position) == <<"error", position>>

Init ==
    /\ \E n \in 0..MaxSelfCalls : calls \in [1..n -> SelfCall]
    /\ borrowed \in [Params -> BOOLEAN]
    /\ at = 1
    /\ changed = [i \in Params |-> FALSE]
    /\ phase = "planning"
    /\ formals = Initial
    /\ actuals = Initial
    /\ result = Pending
    /\ expected = Pending
    /\ iterations = 0

-----------------------------------------------------------------------------
(* plan *)

Visiting == phase = "planning" /\ at <= Len(calls)
Unchanged(call, i) == call.args[i] = i

\* Defect: borrowed formals are treated like the others.
AcceptableUnborrowed(call) == call.tail /\ call.arity

Acceptable(call) ==
    /\ call.tail /\ call.arity
    /\ \A i \in Params : borrowed[i] => Unchanged(call, i)

Visit ==
    /\ Visiting /\ Acceptable(calls[at])
    /\ changed' = [i \in Params |-> changed[i] \/ ~Unchanged(calls[at], i)]
    /\ at' = at + 1
    /\ UNCHANGED <<definition, phase, run>>

\* No plan: the definition is rendered as it stands.
VisitFails ==
    /\ Visiting /\ ~Acceptable(calls[at])
    /\ phase' = "recursive"
    /\ UNCHANGED <<definition, at, changed, run>>

\* A body without a self call needs no loop.
Plan ==
    /\ phase = "planning" /\ at > Len(calls)
    /\ phase' = IF calls = << >> THEN "recursive" ELSE "looping"
    /\ UNCHANGED <<definition, at, changed, run>>

-----------------------------------------------------------------------------
(* render_tail: a run of the loop.  The branches taken are arbitrary.      *)

\* The arguments call c passes when the formals are as in env.
Passed(c, env) ==
    [i \in Params |-> IF calls[c].args[i] = Computed
                        THEN Compute(<<c, i>>, env) ELSE env[calls[c].args[i]]]

\* Defect: the formals are assigned one after the other, from the left.
AssignedInOrder(c) ==
    LET sequential[i \in 0..P] ==
            IF i = 0 THEN formals
            ELSE IF changed[i]
              THEN [sequential[i - 1] EXCEPT ![i] = Passed(c, sequential[i - 1])[i]]
              ELSE sequential[i - 1]
    IN  sequential[P]

\* (f1, f2,) = (v1, v2,): the changed operands are evaluated before any is assigned.
Assigned(c) == [i \in Params |-> IF changed[i] THEN Passed(c, formals)[i] ELSE formals[i]]

First(positions) == CHOOSE i \in positions : \A j \in positions : i <= j

\* The computed arguments of call c that fail.
Failing(c) == SUBSET {i \in Params : calls[c].args[i] = Computed}

BackEdge(c) ==
    /\ phase = "looping" /\ iterations < MaxIterations
    /\ formals' = Assigned(c)
    /\ actuals' = Passed(c, actuals)
    /\ iterations' = iterations + 1
    /\ UNCHANGED <<definition, at, changed, phase, result, expected>>

\* The recursion evaluates every argument, from the left, before it calls; the
\* loop only those it assigns.  The first that fails leaves the function by its
\* `?`; a loop that evaluates none of them has not returned.
OperandFails(c, failing) ==
    /\ phase = "looping" /\ failing # {}
    /\ LET evaluated == {i \in failing : changed[i]}
       IN  result' = IF evaluated = {} THEN Pending ELSE Error(First(evaluated))
    /\ expected' = Error(First(failing))
    /\ phase' = "returned"
    /\ UNCHANGED <<definition, at, changed, formals, actuals, iterations>>

Return ==
    /\ phase = "looping"
    /\ result' = Value(formals)
    /\ expected' = Value(actuals)
    /\ phase' = "returned"
    /\ UNCHANGED <<definition, at, changed, formals, actuals, iterations>>

Next ==
    \/ Visit \/ VisitFails \/ Plan
    \/ \E c \in DOMAIN calls :
          \/ BackEdge(c)
          \/ \E failing \in Failing(c) : OperandFails(c, failing)
    \/ Return

Spec == Init /\ [][Next]_vars

-----------------------------------------------------------------------------
TypeOK ==
    /\ calls \in Seq(SelfCall) /\ Len(calls) <= MaxSelfCalls
    /\ borrowed \in [Params -> BOOLEAN]
    /\ at \in 1..(Len(calls) + 1)
    /\ changed \in [Params -> BOOLEAN]
    /\ phase \in {"planning", "looping", "recursive", "returned"}
    /\ DOMAIN formals = Params /\ DOMAIN actuals = Params
    /\ iterations \in 0..MaxIterations

\* At every iteration, whichever back edges were taken, the loop's variables are
\* the arguments the recursion would have: swaps survive, and a formal that only
\* some back edges assign keeps its value on the others.
LoopIsRecursion == formals = actuals

\* The loop returns what the recursion returns, the first error included.
SameOutcome == result = expected

\* "Borrowed formals must remain the identical formal at every back edge": the
\* loop never assigns one, so no reference into an iteration outlives it.
BorrowsStay == [][\A i \in Params : borrowed[i] => formals'[i] = formals[i]]_vars

\* A self call is turned into a back edge only in tail position with all its
\* arguments, and a plan is given up only for a reason.
PlanIsRight ==
    /\ phase \in {"looping", "returned"} =>
          calls # << >> /\ \A c \in DOMAIN calls : calls[c].tail /\ calls[c].arity
    /\ phase = "recursive" =>
          \/ calls = << >>
          \/ \E c \in DOMAIN calls :
                \/ ~calls[c].tail \/ ~calls[c].arity
                \/ \E i \in Params : borrowed[i] /\ calls[c].args[i] # i
=============================================================================
