---------------------------- MODULE ListBuilder ----------------------------
(***************************************************************************)
(* A generated list builder: the function that writes a Lean list into the *)
(* caller's buffer and returns how much of it it used                      *)
(* (rust/prod-codegen/src/lib.rs: builder mode of Renderer::render,        *)
(* render_cons; the error contract of rust/prod-core/src/error.rs).        *)
(*                                                                         *)
(* Along the branches it takes, a list expression is a chain of conses     *)
(* that ends in the empty list or in a copy of a list the caller passed (a *)
(* parameter or a record field).  A call of another builder as a tail      *)
(* hands it the rest of the buffer and returns its count, so that its      *)
(* conses continue the chain.  The head of a cons, the arguments of such a *)
(* call and the record a field is taken from may fail to evaluate.         *)
(***************************************************************************)
EXTENDS Naturals, Sequences

CONSTANTS
    MaxConses,    \* bound on the length of the chain
    MaxCopied,    \* bound on the length of the list copied at its end
    MaxBuffer     \* bound on the caller's buffer

Untouched == 0    \* what a slot holds before the call

VARIABLES
    heads,     \* for each cons, what evaluates: see Heads
    source,    \* what evaluates at the end of the chain
    copied,    \* length of the list at the end of the chain
    buffer,    \* the caller's slice
    depth,     \* conses entered and not left: each took the front slot off
    len,       \* the count on its way back through the conses
    result     \* "descending", "returning", "Ok", or the ComputeError returned

vars == <<heads, source, copied, buffer, depth, len, result>>
input == <<heads, source, copied>>

\* A cons whose head evaluates, one whose head fails, and one in a builder
\* whose call fails in its arguments.
Heads == {"value", "failing", "uncalled"}

\* The list itself: its elements are numbered, so that none is lost, repeated
\* or misplaced unnoticed.
List == [i \in 1..(Len(heads) + copied) |-> i]

Chains == UNION {[1..n -> Heads] : n \in 0..MaxConses}

Init ==
    /\ heads \in Chains
    /\ source \in {"value", "uncalled"}
    /\ copied \in 0..MaxCopied
    /\ \E size \in 0..MaxBuffer : buffer = [i \in 1..size |-> Untouched]
    /\ depth = 0
    /\ len = 0
    /\ result = "descending"

\* The length of the slice the conses entered have left over.
Remaining == Len(buffer) - depth

\* What is evaluated next: the next cons, or the end of the chain.
Due == IF depth < Len(heads) THEN heads[depth + 1] ELSE source

InChain == result = "descending" /\ depth < Len(heads) /\ Due # "uncalled"
AtEnd == result = "descending" /\ depth = Len(heads) /\ Due # "uncalled"

\* Arguments and records are evaluated before the buffer is looked at.
ArgumentFails ==
    /\ result = "descending" /\ Due = "uncalled"
    /\ result' = "EvaluationError"
    /\ UNCHANGED <<input, buffer, depth, len>>

\* render_cons splits the first slot off before it evaluates the head.
HeadDue == InChain /\ Remaining > 0

\* render_cons: write the head, then build the tail into the rest.
Cons ==
    /\ HeadDue /\ Due = "value"
    /\ buffer' = [buffer EXCEPT ![depth + 1] = List[depth + 1]]
    /\ depth' = depth + 1
    /\ UNCHANGED <<input, len, result>>

\* The head's own `?` leaves before the slot is assigned.
HeadFails ==
    /\ HeadDue /\ Due = "failing"
    /\ result' = "EvaluationError"
    /\ UNCHANGED <<input, buffer, depth, len>>

Exhausted ==
    /\ InChain /\ Remaining = 0
    /\ result' = "OutputTooSmall"
    /\ UNCHANGED <<input, buffer, depth, len>>

\* The end of the chain: List.nil, or a parameter or field copied whole.
Fits == copied <= Remaining

Copy ==
    /\ AtEnd /\ Fits
    /\ buffer' = [i \in 1..Len(buffer) |->
                     IF i \in (depth + 1)..(depth + copied) THEN List[i] ELSE buffer[i]]
    /\ len' = copied
    /\ result' = "returning"
    /\ UNCHANGED <<input, depth>>

CopyTooLong ==
    /\ AtEnd /\ ~Fits
    /\ result' = "OutputTooSmall"
    /\ UNCHANGED <<input, buffer, depth, len>>

\* Defect: a cons returns its tail's count.
LeaveUncounted ==
    /\ result = "returning" /\ depth > 0
    /\ depth' = depth - 1
    /\ UNCHANGED <<input, buffer, len, result>>

\* Ok(len + 1), cons by cons; an Err passes through every `?` unchanged.
Leave ==
    /\ result = "returning" /\ depth > 0
    /\ len' = len + 1
    /\ depth' = depth - 1
    /\ UNCHANGED <<input, buffer, result>>

Return ==
    /\ result = "returning" /\ depth = 0
    /\ result' = "Ok"
    /\ UNCHANGED <<input, buffer, depth, len>>

Next ==
    \/ ArgumentFails \/ Cons \/ HeadFails \/ Exhausted
    \/ Copy \/ CopyTooLong \/ Leave \/ Return

Spec == Init /\ [][Next]_vars

-----------------------------------------------------------------------------
\* Ok(n) means that the first n slots hold exactly the list, in order, and that
\* the caller's slots behind them are as they were.
OkIsTheList ==
    result = "Ok" =>
        /\ len = Len(List)
        /\ \A i \in 1..Len(buffer) : buffer[i] = IF i <= len THEN List[i] ELSE Untouched

\* OutputTooSmall is returned for lists longer than the buffer only, and what
\* fails to evaluate in reach of the buffer is reported before it: a head that
\* has a slot, arguments even when no slot is left.
TooSmallIsTrue ==
    result = "OutputTooSmall" =>
        /\ Len(List) > Len(buffer)
        /\ \A i \in 1..Len(heads) : heads[i] = "failing" => i > Len(buffer)
        /\ \A i \in 1..Len(heads) : heads[i] = "uncalled" => i > Len(buffer) + 1

\* An error of evaluation is that of the first thing that fails, every head
\* before it has been written, and no slot behind is touched.
FailureIsFirst ==
    result = "EvaluationError" =>
        \E k \in 1..(Len(heads) + 1) :
            /\ \A i \in 1..(k - 1) : heads[i] = "value"
            /\ IF k <= Len(heads)
                 THEN heads[k] = "uncalled" \/ (heads[k] = "failing" /\ k <= Len(buffer))
                 ELSE source = "uncalled"
            /\ \A i \in 1..Len(buffer) : buffer[i] = IF i < k THEN List[i] ELSE Untouched

\* A builder that returns has written the list, and the error of one that does
\* not is the one Lean's order of evaluation meets first, the end of the caller's
\* buffer being met by the cons that needs a slot.
BuildsTheList == OkIsTheList /\ TooSmallIsTrue /\ FailureIsFirst

-----------------------------------------------------------------------------
(* The inductive invariant behind it, in parts. *)

TypeOK ==
    /\ heads \in Seq(Heads)
    /\ source \in {"value", "uncalled"}
    /\ copied \in Nat
    /\ buffer \in Seq(Nat)
    /\ depth \in 0..Len(heads)
    /\ len \in Nat
    /\ result \in {"descending", "returning", "Ok", "EvaluationError", "OutputTooSmall"}

\* The buffer holds the first n elements of the list and nothing else.
Written(n) == \A i \in 1..Len(buffer) : buffer[i] = IF i <= n THEN List[i] ELSE Untouched

\* On the way down each cons entered has written its slot.
GoingDown ==
    result = "descending" =>
        /\ depth <= Len(buffer)
        /\ \A i \in 1..depth : heads[i] = "value"
        /\ Written(depth)

\* On the way up the whole list is there, and the count is short of the conses
\* that are still to be left.
ComingBack ==
    result \in {"returning", "Ok"} =>
        /\ len + depth = Len(heads) + copied
        /\ len + depth <= Len(buffer)
        /\ Written(len + depth)
        /\ result = "Ok" => depth = 0

ListInv == TypeOK /\ GoingDown /\ ComingBack /\ TooSmallIsTrue /\ FailureIsFirst
=============================================================================
