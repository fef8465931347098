--------------------------- MODULE NatArithmetic ---------------------------
(***************************************************************************)
(* The Nat expressions of generated code against Lean's Nat: what the      *)
(* renderer emits for Add, Mul, Sub, Div, Mod, Shl, Shr and Pow            *)
(* (rust/prod-codegen/src/lib.rs: render_value_leaf, checked_binop,        *)
(* checked_exponent_op, total_binop).                                      *)
(*                                                                         *)
(* An expression is evaluated the way the emitted Rust does it, operands   *)
(* left to right and each operator after its operands, on a stack of u64   *)
(* values; beside it the same expression is evaluated in the unbounded Nat *)
(* it was exported from.  A `?` abandons the evaluation at the first       *)
(* error.  The widths 64 and 32 are the constants W and E.                 *)
(***************************************************************************)
EXTENDS Naturals, Sequences

CONSTANTS
    W,       \* bits of a value: 64
    E,       \* bits of a shift or power exponent: 32; W < 2^E
    Depth    \* bound on the operands pending at once, the nesting explored

Radix == 2^W
Words == 0..(Radix - 1)

Op == {"Add", "Mul", "Sub", "Div", "Mod", "Shl", "Shr", "Pow"}

ComputeError == {"AddOverflow", "MulOverflow", "ShiftOverflow", "PowOverflow",
                 "ShiftExponentTooLarge", "PowExponentTooLarge"}

VARIABLES
    stack,   \* values of the subexpressions the generated code has evaluated
    exact,   \* their values in Lean
    error,   \* the ComputeError returned, or "none"
    last     \* the operation evaluated last, with its operands

vars == <<stack, exact, error, last>>

-----------------------------------------------------------------------------
(* Lean's operations: total, on unbounded naturals. *)

Power(a, b) == IF b = 0 THEN 1 ELSE a^b

Exact(op, a, b) ==
    CASE op = "Add" -> a + b
      [] op = "Mul" -> a * b
      [] op = "Sub" -> IF a < b THEN 0 ELSE a - b
      [] op = "Div" -> IF b = 0 THEN 0 ELSE a \div b
      [] op = "Mod" -> IF b = 0 THEN a ELSE a % b
      [] op = "Shl" -> a * 2^b
      [] op = "Shr" -> a \div 2^b
      [] op = "Pow" -> Power(a, b)

-----------------------------------------------------------------------------
(* The u64 operations of the standard library that the emitted code calls.
   An Option is the set of its values: empty is None. *)

Fits(n) == {v \in {n} : n \in Words}
checked_add(a, b) == Fits(a + b)
checked_mul(a, b) == Fits(a * b)
checked_pow(a, e) == Fits(Power(a, e))

\* None when the amount is not below the width; high bits are dropped.
checked_shl(a, s) == {v \in {(a * 2^s) % Radix} : s < W}
checked_shr(a, s) == {v \in {a \div 2^s} : s < W}

saturating_sub(a, b) == IF a < b THEN 0 ELSE a - b

\* u32::try_from
Narrow(b) == {v \in {b} : b < 2^E}

-----------------------------------------------------------------------------
(* What the renderer emits: a value, or the error the `?` returns. *)

Ok(v) == [value |-> v, error |-> "none"]
Err(e) == [value |-> 0, error |-> e]

OkOr(option, e) == IF option = {} THEN Err(e) ELSE Ok(CHOOSE v \in option : TRUE)

\* u32::try_from(b).unwrap_or(u32::MAX)
NarrowOrMax(b) == IF Narrow(b) = {} THEN 2^E - 1 ELSE b

\* option is what the checked method returns for the narrowed exponent b.
CheckedExponent(option, b, tooLarge, overflow) ==
    IF Narrow(b) = {} THEN Err(tooLarge) ELSE OkOr(option, overflow)

\* checked_shr(..).unwrap_or(0)
ShrOrZero(a, b) ==
    IF checked_shr(a, NarrowOrMax(b)) = {} THEN 0 ELSE a \div 2^NarrowOrMax(b)

\* Defect: remainder by zero is zero, as division by zero is.
TotalModZero(a, b) == IF b = 0 THEN 0 ELSE a % b

\* total_binop
TotalDiv(a, b) == IF b = 0 THEN 0 ELSE a \div b
TotalMod(a, b) == IF b = 0 THEN a ELSE a % b

Emitted(op, a, b) ==
    CASE op = "Add" -> OkOr(checked_add(a, b), "AddOverflow")
      [] op = "Mul" -> OkOr(checked_mul(a, b), "MulOverflow")
      [] op = "Sub" -> Ok(saturating_sub(a, b))
      [] op = "Div" -> Ok(TotalDiv(a, b))
      [] op = "Mod" -> Ok(TotalMod(a, b))
      [] op = "Shl" -> CheckedExponent(checked_shl(a, b), b,
                                       "ShiftExponentTooLarge", "ShiftOverflow")
      [] op = "Shr" -> Ok(ShrOrZero(a, b))
      [] op = "Pow" -> CheckedExponent(checked_pow(a, b), b,
                                       "PowExponentTooLarge", "PowOverflow")

-----------------------------------------------------------------------------
NoOp == [op |-> "none", left |-> 0, right |-> 0]

Init ==
    /\ stack = << >>
    /\ exact = << >>
    /\ error = "none"
    /\ last = NoOp

\* The evaluation goes on: no `?` has left it, and no left shift has dropped
\* bits, after which there is nothing left to compare.
Live == error = "none" /\ stack = exact

\* A literal or a parameter: a Nat that fits a u64.
Operand(v) ==
    /\ Live /\ Len(stack) < Depth
    /\ stack' = Append(stack, v)
    /\ exact' = Append(exact, v)
    /\ last' = NoOp
    /\ UNCHANGED error

Top(s) == s[Len(s)]
Second(s) == s[Len(s) - 1]
Below(s) == SubSeq(s, 1, Len(s) - 2)

Apply(op) ==
    /\ Live /\ Len(stack) >= 2
    /\ LET r == Emitted(op, Second(stack), Top(stack)) IN
       /\ error' = r.error
       /\ IF r.error = "none"
            THEN /\ stack' = Append(Below(stack), r.value)
                 /\ exact' = Append(Below(exact), Exact(op, Second(exact), Top(exact)))
            ELSE UNCHANGED <<stack, exact>>
    /\ last' = [op |-> op, left |-> Second(stack), right |-> Top(stack)]

Next == (\E v \in Words : Operand(v)) \/ (\E op \in Op : Apply(op))

Spec == Init /\ [][Next]_vars

-----------------------------------------------------------------------------
\* The i-th word against Lean's value: a left shift that returned, which is on
\* top, has kept the low W bits only.
InWord(i) ==
    IF last.op = "Shl" /\ i = Len(exact) THEN exact[i] % Radix ELSE exact[i]

\* Through any nesting of operations every operator but the left shift computes
\* the value Lean computes, or returns an error: no silent wrap-around, no
\* divergence in subtraction below zero, in division by zero or in shifts past
\* the width.  A left shift gives Lean's value modulo 2^W, hence Lean's value only
\* where that fits a u64 (ShiftsReportOverflow states it without the exception).
\* An overflow is reported only when the exact value does not fit a u64, except
\* that a shift by the width or more is refused even if the value is 0; an
\* exponent is refused only if it does not fit a u32.
ExactUpToShl ==
    /\ Len(stack) = Len(exact)
    /\ \A i \in 1..Len(exact) : stack[i] = InWord(i)
    /\ error \in {"AddOverflow", "MulOverflow", "PowOverflow", "ShiftOverflow"} =>
          \/ Exact(last.op, last.left, last.right) \notin Words
          \/ last.op = "Shl" /\ last.left = 0 /\ last.right >= W
    /\ error \in {"ShiftExponentTooLarge", "PowExponentTooLarge"} =>
          last.op \in {"Shl", "Pow"} /\ last.right >= 2^E

\* "addition, multiplication, shifts, and powers report overflow as an error":
\* the same agreement, left shifts included.
ShiftsReportOverflow == stack = exact

\* The inductive invariant behind ExactUpToShl: operands fit a word, so that a
\* shift past the width is 0 in Lean too.
NatInv == stack \in Seq(Words) /\ ExactUpToShl
=============================================================================
