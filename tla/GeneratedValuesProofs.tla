------------------------ MODULE GeneratedValuesProofs ------------------------
(***************************************************************************)
(* Proofs about the values that generated code computes: a Nat expression  *)
(* gives Lean's value, a left shift the low bits of it, or a declared      *)
(* error with its reason, whatever the widths and the nesting; and a list  *)
(* builder writes its list, whatever the list and the buffer.              *)
(***************************************************************************)
EXTENDS GeneratedValues, Integers, TLAPS

----------------------------------------------------------------------------
(* Nat arithmetic.                                                         *)

LEMMA WidthFacts ==
    /\ Nats!Radix \in Nat /\ Nats!Radix > 0
    /\ 2^E \in Nat /\ 2^E > 0
    /\ Nats!Words = 0 .. (Nats!Radix - 1) /\ Nats!Words \subseteq Nat
    /\ \A n \in Nats!Words : 2^n \in Nat /\ 2^n > 0
    /\ \A n \in Nats!Words : n >= W => 2^n >= Nats!Radix
  <1>1. \A n \in Nat : 2^n \in Int
    OBVIOUS
  <1>2. 2^W \in Int /\ 2^W > 0 /\ 2^E \in Int /\ 2^E > 0
    BY <1>1, WidthAssumption, PowersAssumption
  <1>3. \A n \in 0 .. (2^W - 1) : 2^n \in Int /\ 2^n > 0
    BY <1>1, PowersAssumption
  <1>4. \A n \in 0 .. (2^W - 1) : n >= W => n \in W .. (2^W - 1)
    BY <1>2, WidthAssumption
  <1>5. \A n \in 0 .. (2^W - 1) : n >= W => 2^n >= 2^W
    BY <1>2, <1>3, <1>4, PowersAssumption
  <1>6. QED BY <1>2, <1>3, <1>5 DEF Nats!Radix, Nats!Words

\* What an Option gives through ok_or, empty or not.
LEMMA OkOrGives ==
    ASSUME NEW v, NEW P \in BOOLEAN, NEW e
    PROVE  Nats!OkOr({x \in {v} : P}, e) = IF P THEN Nats!Ok(v) ELSE Nats!Err(e)
  <1>1. CASE P
    <2>1. {x \in {v} : P} = {v}
      BY <1>1
    <2>2. QED BY <1>1, <2>1 DEF Nats!OkOr
  <1>2. CASE ~P
    <2>1. {x \in {v} : P} = {}
      BY <1>2
    <2>2. QED BY <1>2, <2>1 DEF Nats!OkOr
  <1>3. QED BY <1>1, <1>2

\* A word shifted right by the width or more is 0, in Lean too.
LEMMA ShiftedOut ==
    ASSUME NEW a \in Nats!Words, NEW n \in Nats!Words, n >= W
    PROVE  a \div 2^n = 0
  <1>1. a \in Nat /\ a < Nats!Radix /\ 2^n \in Nat /\ 2^n > 0 /\ 2^n >= Nats!Radix
    BY WidthFacts
  <1>2. a < 2^n
    BY <1>1, WidthFacts
  <1> DEFINE b == 2^n
  <1>3. b \in Nat /\ b > 0 /\ a < b
    BY <1>1, <1>2
  <1> HIDE DEF b
  <1>4. a \div b = 0
    BY <1>1, <1>3
  <1>5. QED BY <1>4 DEF b

\* Each emitted operator gives Lean's value, or fails for its reason; a left shift
\* gives Lean's value modulo the word.
LEMMA EmittedIsExact ==
    ASSUME NEW op \in Nats!Op, NEW a \in Nats!Words, NEW b \in Nats!Words,
           NEW r, r = Nats!Emitted(op, a, b)
    PROVE  /\ r.error = "none" =>
                 /\ r.value \in Nats!Words
                 /\ r.value = IF op = "Shl" THEN Nats!Exact(op, a, b) % Nats!Radix ELSE Nats!Exact(op, a, b)
           /\ r.error \in {"AddOverflow", "MulOverflow", "PowOverflow", "ShiftOverflow"} =>
                 \/ Nats!Exact(op, a, b) \notin Nats!Words
                 \/ op = "Shl" /\ a = 0 /\ b >= W
           /\ r.error \in {"ShiftExponentTooLarge", "PowExponentTooLarge"} =>
                 op \in {"Shl", "Pow"} /\ b >= 2^E
  <1>1. a \in Nat /\ b \in Nat /\ a < Nats!Radix /\ b < Nats!Radix /\ 2^b \in Nat /\ 2^b > 0
    BY WidthFacts
  <1>2. \A n \in Nat : n \in Nats!Words <=> n < Nats!Radix
    BY WidthFacts
  <1> USE DEF Nats!Ok, Nats!Err
  <1>3. CASE op = "Add"
    <2>1. r = Nats!OkOr({x \in {a + b} : a + b \in Nats!Words}, "AddOverflow")
      BY <1>3 DEF Nats!Emitted, Nats!checked_add, Nats!Fits
    <2>2. r = IF a + b \in Nats!Words THEN Nats!Ok(a + b) ELSE Nats!Err("AddOverflow")
      BY <2>1, OkOrGives
    <2>3. Nats!Exact(op, a, b) = a + b
      BY <1>3 DEF Nats!Exact
    <2>4. QED BY <1>3, <2>2, <2>3
  <1>4. CASE op = "Mul"
    <2>1. r = Nats!OkOr({x \in {a * b} : a * b \in Nats!Words}, "MulOverflow")
      BY <1>4 DEF Nats!Emitted, Nats!checked_mul, Nats!Fits
    <2>2. r = IF a * b \in Nats!Words THEN Nats!Ok(a * b) ELSE Nats!Err("MulOverflow")
      BY <2>1, OkOrGives
    <2>3. Nats!Exact(op, a, b) = a * b
      BY <1>4 DEF Nats!Exact
    <2>4. QED BY <1>4, <2>2, <2>3
  <1>5. CASE op = "Sub"
    <2>1. r = Nats!Ok(IF a < b THEN 0 ELSE a - b) /\ Nats!Exact(op, a, b) = IF a < b THEN 0 ELSE a - b
      BY <1>5 DEF Nats!Emitted, Nats!Exact, Nats!saturating_sub
    <2>2. (IF a < b THEN 0 ELSE a - b) \in Nats!Words
      BY <1>1, <1>2, WidthFacts
    <2>3. QED BY <1>5, <2>1, <2>2
  <1>6. CASE op = "Div"
    <2>1. /\ r = Nats!Ok(IF b = 0 THEN 0 ELSE a \div b)
          /\ Nats!Exact(op, a, b) = IF b = 0 THEN 0 ELSE a \div b
      BY <1>6 DEF Nats!Emitted, Nats!Exact, Nats!TotalDiv
    <2>2. b # 0 => a \div b \in Nat /\ a \div b <= a
      BY <1>1
    <2>3. (IF b = 0 THEN 0 ELSE a \div b) \in Nats!Words
      BY <1>1, <1>2, <2>2, WidthFacts
    <2>4. QED BY <1>6, <2>1, <2>3
  <1>7. CASE op = "Mod"
    <2>1. /\ r = Nats!Ok(IF b = 0 THEN a ELSE a % b)
          /\ Nats!Exact(op, a, b) = IF b = 0 THEN a ELSE a % b
      BY <1>7 DEF Nats!Emitted, Nats!Exact, Nats!TotalMod
    <2>2. b # 0 => a % b \in Nat /\ a % b <= a
      BY <1>1
    <2>3. (IF b = 0 THEN a ELSE a % b) \in Nats!Words
      BY <1>1, <1>2, <2>2, WidthFacts
    <2>4. QED BY <1>7, <2>1, <2>3
  <1>8. CASE op = "Shl"
    <2> DEFINE v == (a * 2^b) % Nats!Radix
    <2>1. v \in Nats!Words
      <3> DEFINE m == a * 2^b
      <3>1. m \in Nat
        BY <1>1
      <3> HIDE DEF m
      <3>2. m % Nats!Radix \in 0 .. (Nats!Radix - 1)
        BY <3>1, WidthFacts
      <3>3. QED BY <3>2, WidthFacts DEF m
    <2>2. Nats!checked_shl(a, b) = {x \in {v} : b < W}
      BY DEF Nats!checked_shl
    <2> HIDE DEF v
    <2>3. (b < W) \in BOOLEAN
      OBVIOUS
    <2>4. Nats!OkOr(Nats!checked_shl(a, b), "ShiftOverflow")
            = IF b < W THEN Nats!Ok(v) ELSE Nats!Err("ShiftOverflow")
      BY <2>2, <2>3, OkOrGives
    <2>5. b < 2^E <=> Nats!Narrow(b) # {}
      BY DEF Nats!Narrow
    <2>6. r = IF b < 2^E THEN (IF b < W THEN Nats!Ok(v) ELSE Nats!Err("ShiftOverflow"))
                         ELSE Nats!Err("ShiftExponentTooLarge")
      BY <1>8, <2>4, <2>5 DEF Nats!Emitted, Nats!CheckedExponent
    <2>7. Nats!Exact(op, a, b) = a * 2^b /\ v = Nats!Exact(op, a, b) % Nats!Radix
      BY <1>8 DEF Nats!Exact, v
    <2>8. a # 0 /\ b >= W => a * 2^b \notin Nats!Words
      <3> SUFFICES ASSUME a # 0, b >= W PROVE a * 2^b \notin Nats!Words
        OBVIOUS
      <3> DEFINE p == 2^b
      <3>1. p \in Nat /\ p >= Nats!Radix /\ a \in Nat /\ a > 0
        BY <1>1, WidthFacts
      <3> HIDE DEF p
      <3>2. a * p >= p /\ a * p \in Nat
        BY <3>1
      <3>3. ~(a * p < Nats!Radix)
        BY <3>1, <3>2, WidthFacts
      <3>4. QED BY <1>2, <3>2, <3>3 DEF p
    <2>9. b >= W <=> ~(b < W)
      BY <1>1, WidthAssumption
    <2>10. b >= 2^E <=> ~(b < 2^E)
      BY <1>1, WidthFacts
    <2>11. QED BY <1>8, <2>1, <2>6, <2>7, <2>8, <2>9, <2>10
  <1>9. CASE op = "Shr"
    <2>1. r = Nats!Ok(Nats!ShrOrZero(a, b)) /\ Nats!Exact(op, a, b) = a \div 2^b
      BY <1>9 DEF Nats!Emitted, Nats!Exact
    <2>2. Nats!NarrowOrMax(b) = IF b < 2^E THEN b ELSE 2^E - 1
      BY DEF Nats!NarrowOrMax, Nats!Narrow
    <2>3. CASE b < W
      <3>1. Nats!NarrowOrMax(b) = b
        BY <1>1, <2>2, <2>3, WidthAssumption, WidthFacts
      <3>2. Nats!checked_shr(a, b) = {a \div 2^b}
        BY <2>3 DEF Nats!checked_shr
      <3>3. Nats!ShrOrZero(a, b) = a \div 2^b
        BY <3>1, <3>2 DEF Nats!ShrOrZero
      <3>4. a \div 2^b \in Nats!Words
        <4> DEFINE p == 2^b
        <4>1. p \in Nat /\ p > 0
          BY <1>1
        <4> HIDE DEF p
        <4>2. a \div p \in Nat /\ a \div p <= a
          BY <1>1, <4>1
        <4>3. a \div p < Nats!Radix
          BY <1>1, <4>2, WidthFacts
        <4>4. QED BY <1>2, <4>2, <4>3 DEF p
      <3>5. QED BY <1>9, <2>1, <3>3, <3>4
    <2>4. CASE b >= W
      <3>1. Nats!NarrowOrMax(b) >= W
        BY <1>1, <2>2, <2>4, WidthAssumption, WidthFacts
      <3>2. Nats!checked_shr(a, Nats!NarrowOrMax(b)) = {}
        <4>1. ~(Nats!NarrowOrMax(b) < W)
          BY <1>1, <2>2, <3>1, WidthAssumption, WidthFacts
        <4>2. QED BY <4>1 DEF Nats!checked_shr
      <3>3. Nats!ShrOrZero(a, b) = 0
        BY <3>2 DEF Nats!ShrOrZero
      <3>4. a \div 2^b = 0
        BY <2>4, ShiftedOut
      <3>5. 0 \in Nats!Words
        BY WidthFacts
      <3>6. QED BY <1>9, <2>1, <3>3, <3>4, <3>5
    <2>5. QED BY <1>1, <2>3, <2>4, WidthAssumption
  <1>10. CASE op = "Pow"
    <2> DEFINE v == Nats!Power(a, b)
    <2>1. Nats!checked_pow(a, b) = {x \in {v} : v \in Nats!Words} /\ Nats!Exact(op, a, b) = v
      BY <1>10 DEF Nats!checked_pow, Nats!Fits, Nats!Exact
    <2> HIDE DEF v
    <2>2. Nats!OkOr(Nats!checked_pow(a, b), "PowOverflow")
            = IF v \in Nats!Words THEN Nats!Ok(v) ELSE Nats!Err("PowOverflow")
      BY <2>1, OkOrGives
    <2>3. b < 2^E <=> Nats!Narrow(b) # {}
      BY DEF Nats!Narrow
    <2>4. r = IF b < 2^E THEN (IF v \in Nats!Words THEN Nats!Ok(v) ELSE Nats!Err("PowOverflow"))
                         ELSE Nats!Err("PowExponentTooLarge")
      BY <1>10, <2>2, <2>3 DEF Nats!Emitted, Nats!CheckedExponent
    <2>5. b >= 2^E <=> ~(b < 2^E)
      BY <1>1, WidthFacts
    <2>6. QED BY <1>10, <2>1, <2>4, <2>5
  <1>11. QED BY <1>3, <1>4, <1>5, <1>6, <1>7, <1>8, <1>9, <1>10 DEF Nats!Op

LEMMA OperandInv == ASSUME Nats!NatInv, NEW v \in Nats!Words, Nats!Operand(v) PROVE Nats!NatInv'
  <1>1. /\ stack \in Seq(Nats!Words) /\ stack = exact /\ error = "none" /\ error' = error
        /\ stack' = Append(stack, v) /\ exact' = Append(exact, v)
    BY DEF Nats!NatInv, Nats!Operand, Nats!Live
  <1>2. stack' \in Seq(Nats!Words)
    BY <1>1
  <1>3. operation'.op = "none"
    BY DEF Nats!Operand, Nats!NoOp
  <1>4. Nats!ExactUpToShl'
    BY <1>1, <1>3 DEF Nats!ExactUpToShl, Nats!InWord
  <1>5. QED BY <1>2, <1>4 DEF Nats!NatInv

LEMMA ApplyInv == ASSUME Nats!NatInv, NEW op \in Nats!Op, Nats!Apply(op) PROVE Nats!NatInv'
  <1> DEFINE a == Nats!Second(stack)
             b == Nats!Top(stack)
             r == Nats!Emitted(op, a, b)
  <1>1. /\ stack \in Seq(Nats!Words) /\ Len(stack) \in Nat /\ Len(stack) >= 2
        /\ stack = exact /\ error = "none"
    BY DEF Nats!NatInv, Nats!Apply, Nats!Live
  <1>2. a \in Nats!Words /\ b \in Nats!Words
    BY <1>1 DEF Nats!Second, Nats!Top
  <1>3. Nats!Below(stack) \in Seq(Nats!Words) /\ Nats!Below(exact) = Nats!Below(stack)
    <2>1. 1 \in 1 .. Len(stack) /\ Len(stack) - 2 \in 0 .. Len(stack)
      BY <1>1
    <2>2. \A i \in 1 .. Len(stack) - 2 : stack[i] \in Nats!Words
      BY <1>1
    <2>3. QED BY <1>1, <2>1, <2>2 DEF Nats!Below
  <1>4. /\ error' = r.error
        /\ operation' = [op |-> op, left |-> a, right |-> b]
        /\ r.error = "none" => /\ stack' = Append(Nats!Below(stack), r.value)
                               /\ exact' = Append(Nats!Below(exact), Nats!Exact(op, a, b))
        /\ r.error # "none" => stack' = stack /\ exact' = exact
    BY <1>1 DEF Nats!Apply
  <1> HIDE DEF a, b
  <1>5. /\ r.error = "none" =>
                 /\ r.value \in Nats!Words
                 /\ r.value = IF op = "Shl" THEN Nats!Exact(op, a, b) % Nats!Radix ELSE Nats!Exact(op, a, b)
        /\ r.error \in {"AddOverflow", "MulOverflow", "PowOverflow", "ShiftOverflow"} =>
                 \/ Nats!Exact(op, a, b) \notin Nats!Words
                 \/ op = "Shl" /\ a = 0 /\ b >= W
        /\ r.error \in {"ShiftExponentTooLarge", "PowExponentTooLarge"} =>
                 op \in {"Shl", "Pow"} /\ b >= 2^E
    BY <1>2, EmittedIsExact
  <1> HIDE DEF r
  <1>6. operation'.op = op /\ operation'.left = a /\ operation'.right = b
    BY <1>4
  <1>7. stack' \in Seq(Nats!Words)
    <2>1. CASE r.error = "none"
      <3>1. r.value \in Nats!Words /\ stack' = Append(Nats!Below(stack), r.value)
        BY <1>4, <1>5, <2>1
      <3>2. QED BY <1>3, <3>1
    <2>2. CASE r.error # "none"
      BY <1>1, <1>4, <2>2
    <2>3. QED BY <2>1, <2>2
  <1>8. Len(stack') = Len(exact') /\ \A i \in 1 .. Len(exact') : stack'[i] = Nats!InWord(i)'
    <2>1. CASE r.error = "none"
      <3> DEFINE x == Nats!Exact(op, a, b)
                 n == Len(Nats!Below(stack)) + 1
      <3>1. exact' = Append(Nats!Below(stack), x) /\ stack' = Append(Nats!Below(stack), r.value)
        BY <1>3, <1>4, <2>1
      <3>2. r.value = IF op = "Shl" THEN x % Nats!Radix ELSE x
        BY <1>5, <2>1
      <3> HIDE DEF x
      <3>3. /\ Len(exact') = n /\ Len(stack') = n /\ n \in Nat
            /\ exact'[n] = x /\ stack'[n] = r.value
            /\ \A i \in 1 .. n : i # n => stack'[i] = exact'[i]
        BY <1>3, <3>1
      <3> HIDE DEF n
      <3>4. QED BY <1>6, <3>2, <3>3 DEF Nats!InWord
    <2>2. CASE r.error # "none"
      <3>1. stack' = stack /\ exact' = stack
        BY <1>1, <1>4, <2>2
      <3>2. \A i \in 1 .. Len(stack) : stack[i] % Nats!Radix = stack[i]
        <4>1. \A i \in 1 .. Len(stack) : stack[i] \in Nats!Words
          BY <1>1
        <4>2. \A v \in Nats!Words : v % Nats!Radix = v
          BY WidthFacts
        <4>3. QED BY <4>1, <4>2
      <3>3. QED BY <1>1, <3>1, <3>2 DEF Nats!InWord
    <2>3. QED BY <2>1, <2>2
  <1>9. Nats!ExactUpToShl'
    BY <1>4, <1>5, <1>6, <1>8 DEF Nats!ExactUpToShl
  <1>10. QED BY <1>7, <1>9 DEF Nats!NatInv

\* Through any nesting of operations, at any width, every operator of generated
\* code but the left shift computes Lean's value or returns an error for its
\* reason; a left shift computes Lean's value modulo 2^W, so that it is silently
\* wrong where bits are lost, as ShiftsReportOverflow shows.
THEOREM Arithmetic == Nats!Spec => []ExactUpToShl
  <1>1. Nats!Init => Nats!NatInv
    BY DEF Nats!Init, Nats!NatInv, Nats!ExactUpToShl, Nats!InWord, Nats!NoOp
  <1>2. Nats!NatInv /\ [Nats!Next]_Nats!vars => Nats!NatInv'
    <2>1. ASSUME Nats!NatInv, UNCHANGED Nats!vars PROVE Nats!NatInv'
      BY <2>1 DEF Nats!vars, Nats!NatInv, Nats!ExactUpToShl, Nats!InWord
    <2>2. QED BY <2>1, OperandInv, ApplyInv DEF Nats!Next
  <1>3. Nats!NatInv => ExactUpToShl
    BY DEF Nats!NatInv, ExactUpToShl
  <1>4. QED BY <1>1, <1>2, <1>3, PTL DEF Nats!Spec

----------------------------------------------------------------------------
(* List builders.                                                          *)

LEMMA ListIs ==
    ASSUME heads \in Seq(Lists!Heads), copied \in Nat
    PROVE  /\ Len(heads) \in Nat
           /\ Len(Lists!List) = Len(heads) + copied
           /\ \A i \in 1 .. Len(heads) + copied : Lists!List[i] = i
  <1>1. Len(heads) \in Nat
    OBVIOUS
  <1>2. Lists!List = [i \in 1 .. Len(heads) + copied |-> i]
    BY DEF Lists!List
  <1>3. Len(heads) + copied \in Nat
    BY <1>1
  <1>4. QED BY <1>1, <1>2, <1>3

LEMMA ListInit == Lists!Init => Lists!ListInv
  <1> SUFFICES ASSUME Lists!Init PROVE Lists!ListInv
    OBVIOUS
  <1>1. PICK n \in 0 .. MaxConses : heads \in [1 .. n -> Lists!Heads]
    BY DEF Lists!Init, Lists!Chains
  <1>2. n \in Nat /\ heads \in Seq(Lists!Heads) /\ Len(heads) = n
    BY <1>1, BoundsAssumption
  <1>3. PICK size \in 0 .. MaxBuffer : buffer = [i \in 1 .. size |-> Lists!Untouched]
    BY DEF Lists!Init
  <1>4. size \in Nat /\ buffer \in Seq(Nat) /\ Len(buffer) = size
        /\ \A i \in 1 .. Len(buffer) : buffer[i] = Lists!Untouched
    BY <1>3, BoundsAssumption DEF Lists!Untouched
  <1>5. /\ source \in {"value", "uncalled"} /\ copied \in Nat
        /\ depth = 0 /\ len = 0 /\ result = "descending"
    BY BoundsAssumption DEF Lists!Init
  <1>6. Lists!TypeOK
    BY <1>2, <1>4, <1>5 DEF Lists!TypeOK
  <1>7. Lists!GoingDown
    BY <1>4, <1>5 DEF Lists!GoingDown, Lists!Written
  <1>8. QED
    BY <1>5, <1>6, <1>7 DEF Lists!ListInv, Lists!ComingBack, Lists!TooSmallIsTrue, Lists!FailureIsFirst

LEMMA DownInv ==
    ASSUME Lists!ListInv,
           Lists!ArgumentFails \/ Lists!Cons \/ Lists!HeadFails \/ Lists!Exhausted
    PROVE  Lists!ListInv'
  <1>1. /\ heads \in Seq(Lists!Heads) /\ Len(heads) \in Nat /\ copied \in Nat /\ buffer \in Seq(Nat)
        /\ source \in {"value", "uncalled"}
        /\ Len(buffer) \in Nat /\ depth \in 0 .. Len(heads) /\ len \in Nat /\ Lists!TypeOK
    BY DEF Lists!ListInv, Lists!TypeOK
  <1>2. /\ result = "descending" /\ heads' = heads /\ source' = source /\ copied' = copied /\ len' = len
    BY DEF Lists!ArgumentFails, Lists!Cons, Lists!HeadFails, Lists!Exhausted, Lists!HeadDue,
           Lists!InChain, Lists!input
  <1>3. /\ depth <= Len(buffer)
        /\ \A i \in 1 .. depth : heads[i] = "value"
        /\ \A i \in 1 .. Len(buffer) : buffer[i] = IF i <= depth THEN Lists!List[i] ELSE Lists!Untouched
    BY <1>2 DEF Lists!ListInv, Lists!GoingDown, Lists!Written
  <1>4. /\ Len(Lists!List) = Len(heads) + copied
        /\ \A i \in 1 .. Len(heads) + copied : Lists!List[i] = i
    BY <1>1, ListIs
  <1>5. Lists!List' = Lists!List
    BY <1>2 DEF Lists!List
  <1>6. CASE Lists!ArgumentFails
    <2>1. result' = "EvaluationError" /\ buffer' = buffer /\ depth' = depth /\ Lists!Due = "uncalled"
      BY <1>6 DEF Lists!ArgumentFails
    <2>2. Lists!TypeOK'
      BY <1>1, <1>2, <2>1 DEF Lists!TypeOK
    <2>3. Lists!FailureIsFirst'
      <3> DEFINE k == depth + 1
      <3>1. k \in 1 .. (Len(heads) + 1) /\ \A i \in 1 .. (k - 1) : heads[i] = "value"
        <4>1. k - 1 = depth /\ k \in 1 .. (Len(heads) + 1)
          BY <1>1
        <4> HIDE DEF k
        <4>2. QED BY <1>3, <4>1
      <3>2. IF k <= Len(heads) THEN heads[k] = "uncalled" ELSE source = "uncalled"
        BY <1>1, <2>1 DEF Lists!Due
      <3>3. \A i \in 1 .. Len(buffer) : buffer[i] = IF i < k THEN Lists!List[i] ELSE Lists!Untouched
        BY <1>1, <1>3
      <3> HIDE DEF k
      <3>4. QED BY <1>2, <1>5, <2>1, <3>1, <3>2, <3>3 DEF Lists!FailureIsFirst
    <2>4. QED
      BY <2>1, <2>2, <2>3 DEF Lists!ListInv, Lists!GoingDown, Lists!ComingBack, Lists!TooSmallIsTrue
  <1>7. CASE Lists!HeadFails
    <2>1. /\ result' = "EvaluationError" /\ buffer' = buffer /\ depth' = depth /\ depth < Len(heads)
          /\ heads[depth + 1] = "failing" /\ depth < Len(buffer)
      BY <1>1, <1>7 DEF Lists!HeadFails, Lists!HeadDue, Lists!InChain, Lists!Due, Lists!Remaining
    <2>2. Lists!TypeOK'
      BY <1>1, <1>2, <2>1 DEF Lists!TypeOK
    <2>3. Lists!FailureIsFirst'
      <3> DEFINE k == depth + 1
      <3>1. k \in 1 .. (Len(heads) + 1) /\ \A i \in 1 .. (k - 1) : heads[i] = "value"
        BY <1>1, <1>3
      <3>2. k <= Len(heads) /\ heads[k] = "failing" /\ k <= Len(buffer)
        BY <1>1, <2>1
      <3>3. \A i \in 1 .. Len(buffer) : buffer[i] = IF i < k THEN Lists!List[i] ELSE Lists!Untouched
        BY <1>1, <1>3
      <3> HIDE DEF k
      <3>4. QED BY <1>2, <1>5, <2>1, <3>1, <3>2, <3>3 DEF Lists!FailureIsFirst
    <2>4. QED
      BY <2>1, <2>2, <2>3 DEF Lists!ListInv, Lists!GoingDown, Lists!ComingBack, Lists!TooSmallIsTrue
  <1>8. CASE Lists!Exhausted
    <2>1. /\ result' = "OutputTooSmall" /\ buffer' = buffer /\ depth' = depth /\ depth < Len(heads)
          /\ heads[depth + 1] # "uncalled" /\ depth = Len(buffer)
      BY <1>1, <1>8 DEF Lists!Exhausted, Lists!InChain, Lists!Due, Lists!Remaining
    <2>2. Lists!TypeOK'
      BY <1>1, <1>2, <2>1 DEF Lists!TypeOK
    <2>3. Len(Lists!List) > Len(buffer)
      BY <1>1, <1>4, <2>1
    <2>4. \A i \in 1 .. Len(heads) : /\ heads[i] = "failing" => i > Len(buffer)
                                     /\ heads[i] = "uncalled" => i > Len(buffer) + 1
      BY <1>1, <1>3, <2>1
    <2>5. Lists!TooSmallIsTrue'
      BY <1>2, <1>5, <2>1, <2>3, <2>4 DEF Lists!TooSmallIsTrue
    <2>6. QED
      BY <2>1, <2>2, <2>5 DEF Lists!ListInv, Lists!GoingDown, Lists!ComingBack, Lists!FailureIsFirst
  <1>9. CASE Lists!Cons
    <2>1. /\ result' = result /\ depth' = depth + 1 /\ depth < Len(heads) /\ depth < Len(buffer)
          /\ heads[depth + 1] = "value" /\ buffer' = [buffer EXCEPT ![depth + 1] = Lists!List[depth + 1]]
      BY <1>1, <1>9 DEF Lists!Cons, Lists!HeadDue, Lists!InChain, Lists!Due, Lists!Remaining
    <2>2. /\ buffer' \in Seq(Nat) /\ Len(buffer') = Len(buffer)
          /\ \A i \in 1 .. Len(buffer) :
               buffer'[i] = IF i = depth + 1 THEN Lists!List[depth + 1] ELSE buffer[i]
      <3>1. Lists!List[depth + 1] \in Nat
        BY <1>1, <1>4, <2>1
      <3>2. QED BY <1>1, <2>1, <3>1
    <2>3. Lists!TypeOK'
      BY <1>1, <1>2, <2>1, <2>2 DEF Lists!TypeOK
    <2>4. Lists!GoingDown'
      <3>1. \A i \in 1 .. depth + 1 : heads[i] = "value"
        BY <1>1, <1>3, <2>1
      <3>2. \A i \in 1 .. Len(buffer) :
               buffer'[i] = IF i <= depth + 1 THEN Lists!List[i] ELSE Lists!Untouched
        BY <1>1, <1>3, <2>1, <2>2
      <3>3. depth + 1 <= Len(buffer')
        BY <1>1, <2>1, <2>2
      <3>4. QED BY <1>2, <1>5, <2>1, <2>2, <3>1, <3>2, <3>3 DEF Lists!GoingDown, Lists!Written
    <2>5. QED
      BY <1>2, <2>1, <2>3, <2>4 DEF Lists!ListInv, Lists!ComingBack, Lists!TooSmallIsTrue, Lists!FailureIsFirst
  <1>10. QED BY <1>6, <1>7, <1>8, <1>9

LEMMA UpInv ==
    ASSUME Lists!ListInv,
           Lists!Copy \/ Lists!CopyTooLong \/ Lists!Leave \/ Lists!Return
    PROVE  Lists!ListInv'
  <1>1. /\ heads \in Seq(Lists!Heads) /\ Len(heads) \in Nat /\ copied \in Nat /\ buffer \in Seq(Nat)
        /\ source \in {"value", "uncalled"}
        /\ Len(buffer) \in Nat /\ depth \in 0 .. Len(heads) /\ len \in Nat /\ Lists!TypeOK
    BY DEF Lists!ListInv, Lists!TypeOK
  <1>2. heads' = heads /\ source' = source /\ copied' = copied
    BY DEF Lists!Copy, Lists!CopyTooLong, Lists!Leave, Lists!Return, Lists!input
  <1>4. /\ Len(Lists!List) = Len(heads) + copied
        /\ \A i \in 1 .. Len(heads) + copied : Lists!List[i] = i
    BY <1>1, ListIs
  <1>5. Lists!List' = Lists!List
    BY <1>2 DEF Lists!List
  <1>6. ASSUME result = "descending"
        PROVE  /\ depth <= Len(buffer)
               /\ \A i \in 1 .. depth : heads[i] = "value"
               /\ \A i \in 1 .. Len(buffer) :
                    buffer[i] = IF i <= depth THEN Lists!List[i] ELSE Lists!Untouched
    BY <1>6 DEF Lists!ListInv, Lists!GoingDown, Lists!Written
  <1>7. ASSUME result = "returning"
        PROVE  /\ len + depth = Len(heads) + copied /\ len + depth <= Len(buffer)
               /\ \A i \in 1 .. Len(buffer) :
                    buffer[i] = IF i <= len + depth THEN Lists!List[i] ELSE Lists!Untouched
    BY <1>7 DEF Lists!ListInv, Lists!ComingBack, Lists!Written
  <1>8. CASE Lists!Copy
    <2>1. /\ result = "descending" /\ result' = "returning" /\ depth' = depth /\ len' = copied
          /\ depth = Len(heads) /\ depth + copied <= Len(buffer)
          /\ buffer' = [i \in 1 .. Len(buffer) |->
                          IF i \in (depth + 1) .. (depth + copied) THEN Lists!List[i] ELSE buffer[i]]
      BY <1>1, <1>6, <1>8 DEF Lists!Copy, Lists!AtEnd, Lists!Fits, Lists!Remaining
    <2>2. /\ buffer' \in Seq(Nat) /\ Len(buffer') = Len(buffer)
          /\ \A i \in 1 .. Len(buffer) : buffer'[i] =
               IF i \in (depth + 1) .. (depth + copied) THEN Lists!List[i] ELSE buffer[i]
      <3>1. \A i \in (depth + 1) .. (depth + copied) : Lists!List[i] \in Nat
        BY <1>1, <1>4, <2>1
      <3>2. \A i \in 1 .. Len(buffer) :
               (IF i \in (depth + 1) .. (depth + copied) THEN Lists!List[i] ELSE buffer[i]) \in Nat
        BY <1>1, <3>1
      <3>3. QED BY <1>1, <2>1, <3>2
    <2>3. Lists!TypeOK'
      BY <1>1, <1>2, <2>1, <2>2 DEF Lists!TypeOK
    <2>4. \A i \in 1 .. Len(buffer) :
             buffer'[i] = IF i <= copied + depth THEN Lists!List[i] ELSE Lists!Untouched
      BY <1>1, <1>6, <2>1, <2>2
    <2>5. copied + depth = Len(heads) + copied /\ copied + depth <= Len(buffer)
      BY <1>1, <2>1
    <2>6. Lists!ComingBack'
      BY <1>2, <1>5, <2>1, <2>2, <2>4, <2>5 DEF Lists!ComingBack, Lists!Written
    <2>7. QED
      BY <2>1, <2>3, <2>6 DEF Lists!ListInv, Lists!GoingDown, Lists!TooSmallIsTrue, Lists!FailureIsFirst
  <1>9. CASE Lists!CopyTooLong
    <2>1. /\ result = "descending" /\ result' = "OutputTooSmall" /\ depth' = depth /\ len' = len
          /\ depth = Len(heads) /\ depth + copied > Len(buffer) /\ buffer' = buffer
      BY <1>1, <1>9 DEF Lists!CopyTooLong, Lists!AtEnd, Lists!Fits, Lists!Remaining
    <2>2. Lists!TypeOK'
      BY <1>1, <1>2, <2>1 DEF Lists!TypeOK
    <2>3. \A i \in 1 .. Len(heads) : heads[i] = "value"
      BY <1>6, <2>1
    <2>4. Len(Lists!List) > Len(buffer)
      BY <1>1, <1>4, <2>1
    <2>5. Lists!TooSmallIsTrue'
      BY <1>2, <1>5, <2>1, <2>3, <2>4 DEF Lists!TooSmallIsTrue
    <2>6. QED
      BY <2>1, <2>2, <2>5 DEF Lists!ListInv, Lists!GoingDown, Lists!ComingBack, Lists!FailureIsFirst
  <1>10. CASE Lists!Leave
    <2>1. /\ result = "returning" /\ result' = result /\ depth' = depth - 1 /\ len' = len + 1
          /\ depth > 0 /\ buffer' = buffer
      BY <1>10 DEF Lists!Leave
    <2>2. depth - 1 \in 0 .. Len(heads) /\ len + 1 \in Nat /\ (len + 1) + (depth - 1) = len + depth
      BY <1>1, <2>1
    <2>3. Lists!TypeOK'
      BY <1>1, <1>2, <2>1, <2>2 DEF Lists!TypeOK
    <2>4. len' + depth' = len + depth
      BY <2>1, <2>2
    <2>5. Lists!ComingBack'
      BY <1>2, <1>5, <1>7, <2>1, <2>4 DEF Lists!ComingBack, Lists!Written
    <2>6. QED
      BY <2>1, <2>3, <2>5 DEF Lists!ListInv, Lists!GoingDown, Lists!TooSmallIsTrue, Lists!FailureIsFirst
  <1>11. CASE Lists!Return
    <2>1. /\ result = "returning" /\ result' = "Ok" /\ depth' = depth /\ len' = len
          /\ depth = 0 /\ buffer' = buffer
      BY <1>11 DEF Lists!Return
    <2>2. Lists!TypeOK'
      BY <1>1, <1>2, <2>1 DEF Lists!TypeOK
    <2>3. Lists!ComingBack'
      BY <1>2, <1>5, <1>7, <2>1 DEF Lists!ComingBack, Lists!Written
    <2>4. QED
      BY <2>1, <2>2, <2>3 DEF Lists!ListInv, Lists!GoingDown, Lists!TooSmallIsTrue, Lists!FailureIsFirst
  <1>12. QED BY <1>8, <1>9, <1>10, <1>11

\* A builder that returns has written its list and nothing else, whatever the list
\* and the buffer; one that fails reports what Lean's evaluation meets first.
THEOREM Building == Lists!Spec => []BuildsTheList
  <1>1. Lists!ListInv /\ [Lists!Next]_Lists!vars => Lists!ListInv'
    <2>1. ASSUME Lists!ListInv, UNCHANGED Lists!vars PROVE Lists!ListInv'
      <3>1. /\ heads' = heads /\ source' = source /\ copied' = copied /\ buffer' = buffer
            /\ depth' = depth /\ len' = len /\ result' = result
        BY <2>1 DEF Lists!vars
      <3>2. Lists!List' = Lists!List
        BY <3>1 DEF Lists!List
      <3>3. QED
        BY <2>1, <3>1, <3>2 DEF Lists!ListInv, Lists!TypeOK, Lists!GoingDown, Lists!ComingBack,
           Lists!Written, Lists!TooSmallIsTrue, Lists!FailureIsFirst
    <2>2. QED BY <2>1, DownInv, UpInv DEF Lists!Next
  <1>2. Lists!ListInv => BuildsTheList
    <2> SUFFICES ASSUME Lists!ListInv PROVE BuildsTheList
      OBVIOUS
    <2>1. heads \in Seq(Lists!Heads) /\ copied \in Nat /\ len \in Nat
      BY DEF Lists!ListInv, Lists!TypeOK
    <2>2. Len(Lists!List) = Len(heads) + copied
      BY <2>1, ListIs
    <2>3. Lists!OkIsTheList
      <3>1. result = "Ok" => len + depth = len
        BY <2>1 DEF Lists!ListInv, Lists!ComingBack
      <3>2. QED BY <2>2, <3>1 DEF Lists!ListInv, Lists!ComingBack, Lists!Written, Lists!OkIsTheList
    <2>4. QED BY <2>3 DEF Lists!ListInv, BuildsTheList, Lists!BuildsTheList
  <1>3. QED BY ListInit, <1>1, <1>2, PTL DEF Lists!Spec
=============================================================================
