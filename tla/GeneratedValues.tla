--------------------------- MODULE GeneratedValues ---------------------------
(***************************************************************************)
(* The values that generated code computes: the arithmetic of its Nat      *)
(* expressions (NatArithmetic) and the lists it writes into a caller's     *)
(* buffer (ListBuilder).  Nothing of one is read by the other.             *)
(***************************************************************************)
EXTENDS Naturals, Sequences

CONSTANTS
    W, E, Depth,                                        \* see NatArithmetic
    MaxConses, MaxCopied, MaxBuffer                     \* see ListBuilder

\* A width is a natural, and every width is less than 2^E (64 < 2^32).
ASSUME WidthAssumption == W \in Nat /\ E \in Nat /\ W < 2^E /\ Depth \in Nat

\* What is used of powers of two: they are positive, and they do not shrink from
\* the width on.
ASSUME PowersAssumption ==
    /\ \A n \in {W, E} \cup 0..(2^W - 1) : 2^n > 0
    /\ \A n \in W..(2^W - 1) : 2^W <= 2^n

ASSUME BoundsAssumption == MaxConses \in Nat /\ MaxCopied \in Nat /\ MaxBuffer \in Nat

VARIABLES
    stack, exact, error, operation,                     \* see NatArithmetic
    heads, source, copied, buffer, depth, len, result   \* see ListBuilder

natState == <<stack, exact, error, operation>>
listState == <<heads, source, copied, buffer, depth, len, result>>

Nats == INSTANCE NatArithmetic WITH last <- operation
Lists == INSTANCE ListBuilder

-----------------------------------------------------------------------------
\* Nat expressions give Lean's value, a left shift its low W bits, or an error.
ExactUpToShl == Nats!ExactUpToShl

\* A builder writes the list it stands for, or says what Lean meets first.
BuildsTheList == Lists!BuildsTheList
=============================================================================
