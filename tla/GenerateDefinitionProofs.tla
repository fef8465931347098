----------------------- MODULE GenerateDefinitionProofs -----------------------
(***************************************************************************)
(* The lowering of a definition, for every body, every limit and every     *)
(* number of parameters: what expansion of join points admits and refuses  *)
(* is exact (joins.rs), and the loop emitted for self tail calls is the    *)
(* recursion (tail_calls.rs).                                              *)
(*                                                                         *)
(* The main facts about join points: cost counts the size of the expansion *)
(* (AdmittedFits), no sound body is refused without a reason (SoundAdmits) *)
(* and compaction keeps the join points and the jumps (FactorKeeps).       *)
(***************************************************************************)
EXTENDS GenerateDefinition, FiniteSetTheorems, WellFoundedInduction, TLAPS

-----------------------------------------------------------------------------
(* Expressions. tlapm cannot instantiate the induction theorems of its     *)
(* library, so induction is made from well-foundedness, and the recursive  *)
(* functions are shown to be what their equations say.                     *)

\* Induction over the natural numbers, from their well-foundedness.
LEMMA NatSetInduction ==
    ASSUME NEW S \in SUBSET Nat, 0 \in S, \A n \in S : n + 1 \in S
    PROVE  S = Nat
  <1> SUFFICES ASSUME S # Nat PROVE FALSE
    OBVIOUS
  <1>1. PICK x \in Nat \ S : \A y \in Nat \ S : ~(<<y, x>> \in OpToRel(<, Nat))
    <2>1. Nat \ S \subseteq Nat /\ Nat \ S # {}
      OBVIOUS
    <2>2. QED BY <2>1, NatLessThanWellFounded, WFMin
  <1>2. \A y \in Nat \ S : ~(y < x)
    BY <1>1 DEF OpToRel
  <1>3. x # 0 /\ x - 1 \in S /\ x = (x - 1) + 1
    BY <1>2
  <1>4. QED BY <1>3

\* The expressions whose children are in a set.
Over(children) ==
    {e \in [op: Joins!Operators, name: Names, names: Seq(Names), args: Seq(children)] : Joins!Shaped(e)}

\* One more level than those of h.
LevelOf(h, n) == Over(IF n = 0 THEN {} ELSE h[n - 1])

\* The recursive function Level is what its equation says.
LEMMA LevelDef == \A n \in Nat : Joins!Level[n] = LevelOf(Joins!Level, n)
  <1> DEFINE Good(h, n) == \A k \in 0..n : h[k] = LevelOf(h, k)
             S == {n \in Nat : \E h : Good(h, n)}
  <1>1. S = Nat
    <2>1. 0 \in S
      <3> DEFINE h == [k \in Nat |-> Over({})]
      <3>1. Good(h, 0)
        BY DEF LevelOf
      <3>2. QED BY <3>1
    <2>2. ASSUME NEW n \in S PROVE n + 1 \in S
      <3>1. PICK h : Good(h, n)
        OBVIOUS
      <3> DEFINE g == [k \in Nat |-> LevelOf(h, k)]
      <3>2. \A k \in 0..n : g[k] = h[k]
        BY <3>1
      <3>3. ASSUME NEW k \in 0..(n + 1) PROVE LevelOf(g, k) = LevelOf(h, k)
        <4>1. k # 0 => g[k - 1] = h[k - 1]
          BY <3>2
        <4> HIDE DEF g
        <4>2. QED BY <4>1 DEF LevelOf
      <3>4. \A k \in 0..(n + 1) : g[k] = LevelOf(h, k)
        OBVIOUS
      <3> HIDE DEF g
      <3>5. Good(g, n + 1)
        BY <3>3, <3>4
      <3>6. QED BY <3>5
    <2> HIDE DEF S
    <2>3. S \in SUBSET Nat
      BY DEF S
    <2>4. QED BY <2>1, <2>2, <2>3, NatSetInduction
  <1>2. ASSUME NEW n \in Nat, NEW g, NEW h, Good(g, n), Good(h, n)
        PROVE  \A k \in 0..n : g[k] = h[k]
    <2> DEFINE T == {k \in Nat : k <= n => g[k] = h[k]}
    <2>1. 0 \in T
      BY <1>2 DEF LevelOf
    <2>2. ASSUME NEW k \in T PROVE k + 1 \in T
      <3>1. k + 1 <= n => g[k + 1] = LevelOf(g, k + 1) /\ h[k + 1] = LevelOf(h, k + 1) /\ g[k] = h[k]
        BY <1>2
      <3>2. (k + 1) - 1 = k
        OBVIOUS
      <3>3. QED BY <3>1, <3>2 DEF LevelOf
    <2>3. T = Nat
      <3>1. T \in SUBSET Nat
        OBVIOUS
      <3> HIDE DEF T
      <3>2. QED BY <3>1, <2>1, <2>2, NatSetInduction
    <2>4. QED BY <2>3
  <1> DEFINE Below(n) == CHOOSE h : Good(h, n)
             f == [n \in Nat |-> Below(n)[n]]
  <1>3. ASSUME NEW n \in Nat PROVE Good(Below(n), n)
    <2>1. n \in S
      <3> HIDE DEF S
      <3>1. QED BY <1>1
    <2>2. \E h : Good(h, n)
      BY <2>1
    <2> HIDE DEF Good
    <2>3. QED BY <2>2
  <1>4. ASSUME NEW n \in Nat PROVE f[n] = LevelOf(f, n)
    <2>1. f[n] = LevelOf(Below(n), n)
      <3> HIDE DEF Below
      <3>1. QED BY <1>3
    <2>2. n # 0 => Below(n)[n - 1] = Below(n - 1)[n - 1]
      <3>1. n # 0 => n - 1 \in Nat /\ n - 1 \in 0..n
        OBVIOUS
      <3>2. n # 0 => Good(Below(n), n - 1) /\ Good(Below(n - 1), n - 1)
        <4> HIDE DEF Below
        <4>1. QED BY <1>3, <3>1
      <3> HIDE DEF Good, Below
      <3>3. QED BY <1>2, <3>1, <3>2
    <2>3. n # 0 => f[n - 1] = Below(n - 1)[n - 1]
      <3> HIDE DEF Below
      <3>1. QED OBVIOUS
    <2> HIDE DEF f, Below
    <2>4. QED BY <2>1, <2>2, <2>3 DEF LevelOf
  <1>5. f = [n \in Nat |-> LevelOf(f, n)]
    <2>1. f = [n \in Nat |-> f[n]]
      <3> HIDE DEF Below
      <3>1. QED OBVIOUS
    <2> HIDE DEF f
    <2>2. QED BY <2>1, <1>4
  <1>6. \E h : h = [n \in Nat |-> LevelOf(h, n)]
    <2> HIDE DEF f
    <2>1. QED BY <1>5
  <1>7. Joins!Level = [n \in Nat |-> LevelOf(Joins!Level, n)]
    BY <1>6 DEF Joins!Level, LevelOf, Over
  <1>8. QED BY <1>7

\* Its equation, step by step.
LEMMA LevelSteps ==
    /\ Joins!Level[0] = Over({})
    /\ \A n \in Nat : Joins!Level[n + 1] = Over(Joins!Level[n])
  <1>1. \A n \in Nat : n + 1 \in Nat /\ n + 1 # 0 /\ (n + 1) - 1 = n
    OBVIOUS
  <1>2. QED BY <1>1, LevelDef DEF LevelOf

\* More children, more expressions.
LEMMA OverMonotone ==
    ASSUME NEW A, NEW B, A \subseteq B
    PROVE  Over(A) \subseteq Over(B)
  <1>1. Seq(A) \subseteq Seq(B)
    OBVIOUS
  <1>2. QED BY <1>1 DEF Over

\* A higher level has all expressions of a lower one.
LEMMA LevelMonotone ==
    ASSUME NEW m \in Nat, NEW n \in Nat, m <= n
    PROVE  Joins!Level[m] \subseteq Joins!Level[n]
  <1> DEFINE S == {k \in Nat : Joins!Level[k] \subseteq Joins!Level[k + 1]}
             T == {k \in Nat : Joins!Level[m] \subseteq Joins!Level[m + k]}
  <1>1. S = Nat
    <2>1. 0 \in S
      <3>1. Over({}) \subseteq Over(Joins!Level[0])
        BY OverMonotone
      <3>2. Joins!Level[0 + 1] = Over(Joins!Level[0])
        BY LevelSteps
      <3>3. QED BY <3>1, <3>2, LevelSteps
    <2>2. ASSUME NEW k \in S PROVE k + 1 \in S
      <3>1. k \in Nat /\ k + 1 \in Nat /\ Joins!Level[k] \subseteq Joins!Level[k + 1]
        OBVIOUS
      <3>2. Over(Joins!Level[k]) \subseteq Over(Joins!Level[k + 1])
        BY <3>1, OverMonotone
      <3>3. Joins!Level[k + 1] \subseteq Joins!Level[(k + 1) + 1]
        BY <3>1, <3>2, LevelSteps
      <3>4. QED BY <3>1, <3>3
    <2>3. S \in SUBSET Nat
      OBVIOUS
    <2> HIDE DEF S
    <2>4. QED BY <2>1, <2>2, <2>3, NatSetInduction
  <1>2. T = Nat
    <2>1. 0 \in T
      OBVIOUS
    <2>2. ASSUME NEW k \in T PROVE k + 1 \in T
      <3>1. m + k \in S
        <4>1. m + k \in Nat
          OBVIOUS
        <4> HIDE DEF S
        <4>2. QED BY <4>1, <1>1
      <3>2. Joins!Level[m + k] \subseteq Joins!Level[(m + k) + 1] /\ (m + k) + 1 = m + (k + 1)
        BY <3>1
      <3>3. QED BY <3>2
    <2>3. T \in SUBSET Nat
      OBVIOUS
    <2> HIDE DEF T
    <2>4. QED BY <2>1, <2>2, <2>3, NatSetInduction
  <1>3. n - m \in T /\ m + (n - m) = n
    <2>1. n - m \in Nat /\ m + (n - m) = n
      OBVIOUS
    <2> HIDE DEF T
    <2>2. QED BY <2>1, <1>2
  <1>4. QED BY <1>3

\* The fields of an expression, and its children one level below.
LEMMA LevelFields ==
    ASSUME NEW n \in Nat, NEW e \in Joins!Level[n]
    PROVE  /\ e.op \in Joins!Operators /\ e.name \in Names /\ e.names \in Seq(Names)
           /\ e = [op |-> e.op, name |-> e.name, names |-> e.names, args |-> e.args]
           /\ e.args \in Seq(Joins!Level[n])
           /\ DOMAIN e.args = 1..Len(e.args) /\ Len(e.args) \in Nat
           /\ Joins!Shaped(e)
           /\ \A i \in DOMAIN e.args : n # 0 /\ e.args[i] \in Joins!Level[n - 1] /\ e.args[i] \in Joins!Level[n]
  <1> DEFINE below == IF n = 0 THEN {} ELSE Joins!Level[n - 1]
  <1>1. Joins!Level[n] = Over(below)
    BY LevelDef DEF LevelOf
  <1>2. below \subseteq Joins!Level[n]
    <2>1. CASE n = 0
      BY <2>1
    <2>2. CASE n # 0
      <3>1. n - 1 \in Nat /\ n - 1 <= n
        BY <2>2
      <3>2. Joins!Level[n - 1] \subseteq Joins!Level[n]
        BY <3>1, LevelMonotone
      <3>3. QED BY <2>2, <3>2
    <2>3. QED BY <2>1, <2>2
  <1>3. e.args \in Seq(below)
    BY <1>1 DEF Over
  <1>4. \A i \in DOMAIN e.args : e.args[i] \in below
    BY <1>3
  <1>5. DOMAIN e.args = 1..Len(e.args) /\ Len(e.args) \in Nat
    BY <1>3
  <1>6. e.args \in Seq(Joins!Level[n])
    <2> HIDE DEF below
    <2>1. QED BY <1>2, <1>3
  <1>7. e.op \in Joins!Operators /\ e.name \in Names /\ e.names \in Seq(Names) /\ Joins!Shaped(e)
    BY <1>1 DEF Over
  <1>8. e = [op |-> e.op, name |-> e.name, names |-> e.names, args |-> e.args]
    BY <1>1 DEF Over
  <1>9. \A i \in DOMAIN e.args : n # 0 /\ e.args[i] \in Joins!Level[n - 1]
    BY <1>4
  <1>10. \A i \in DOMAIN e.args : e.args[i] \in Joins!Level[n]
    BY <1>4, <1>2
  <1> HIDE DEF below
  <1>11. QED BY <1>5, <1>6, <1>7, <1>8, <1>9, <1>10

\* The same of the expressions of the code.
LEMMA ExpressionFields ==
    ASSUME NEW e \in Joins!Expressions
    PROVE  /\ e.op \in Joins!Operators /\ e.name \in Names /\ e.names \in Seq(Names)
           /\ e = [op |-> e.op, name |-> e.name, names |-> e.names, args |-> e.args]
           /\ e.args \in Seq(Joins!Expressions)
           /\ DOMAIN e.args = 1..Len(e.args) /\ Len(e.args) \in Nat
           /\ Joins!Shaped(e)
           /\ \A i \in DOMAIN e.args : e.args[i] \in Joins!Level[MAX_NODES - 1] /\ e.args[i] \in Joins!Expressions
  <1>1. MAX_NODES \in Nat
    BY LimitsAssumption
  <1>2. e \in Joins!Level[MAX_NODES]
    BY DEF Joins!Expressions
  <1>3. QED BY <1>1, <1>2, LevelFields DEF Joins!Expressions

\* What has its children one level below is in a level.
LEMMA LevelMember ==
    ASSUME NEW n \in Nat, NEW e, n # 0,
           e.op \in Joins!Operators, e.name \in Names, e.names \in Seq(Names),
           e.args \in Seq(Joins!Level[n - 1]), Joins!Shaped(e),
           e = [op |-> e.op, name |-> e.name, names |-> e.names, args |-> e.args]
    PROVE  e \in Joins!Level[n]
  <1>1. Joins!Level[n] = Over(Joins!Level[n - 1])
    BY LevelDef DEF LevelOf
  <1>2. e \in [op: Joins!Operators, name: Names, names: Seq(Names), args: Seq(Joins!Level[n - 1])]
    OBVIOUS
  <1>3. QED BY <1>1, <1>2 DEF Over

\* The levels up to the last are expressions.
LEMMA LevelBounded ==
    ASSUME NEW n \in Nat, n <= MAX_NODES
    PROVE  Joins!Level[n] \subseteq Joins!Expressions
  <1>1. MAX_NODES \in Nat
    BY LimitsAssumption
  <1>2. QED BY <1>1, LevelMonotone DEF Joins!Expressions

\* Induction over an expression.
LEMMA ExpressionInduction ==
    ASSUME NEW S, \A e \in Joins!Expressions : (\A i \in DOMAIN e.args : e.args[i] \in S) => e \in S
    PROVE  Joins!Expressions \subseteq S
  <1> DEFINE T == {n \in Nat : n <= MAX_NODES => Joins!Level[n] \subseteq S}
  <1>1. MAX_NODES \in Nat
    BY LimitsAssumption
  <1>2. 0 \in T
    <2>1. ASSUME NEW e \in Joins!Level[0] PROVE e \in S
      <3>1. e \in Joins!Expressions
        BY <1>1, LevelBounded
      <3>2. \A i \in DOMAIN e.args : FALSE
        BY LevelFields
      <3>3. QED BY <3>1, <3>2
    <2>2. QED BY <2>1
  <1>3. ASSUME NEW n \in T PROVE n + 1 \in T
    <2>1. n \in Nat /\ n + 1 \in Nat /\ (n + 1) - 1 = n
      OBVIOUS
    <2>2. ASSUME n + 1 <= MAX_NODES, NEW e \in Joins!Level[n + 1] PROVE e \in S
      <3>1. e \in Joins!Expressions
        BY <2>1, <2>2, LevelBounded
      <3>2. Joins!Level[n] \subseteq S
        BY <2>1, <2>2, <1>1
      <3>3. \A i \in DOMAIN e.args : e.args[i] \in Joins!Level[n]
        BY <2>1, <2>2, LevelFields
      <3>4. QED BY <3>1, <3>2, <3>3
    <2>3. QED BY <2>1, <2>2
  <1>4. T = Nat
    <2>1. T \in SUBSET Nat
      OBVIOUS
    <2> HIDE DEF T
    <2>2. QED BY <2>1, <1>2, <1>3, NatSetInduction
  <1>5. MAX_NODES \in T
    <2> HIDE DEF T
    <2>1. QED BY <1>1, <1>4
  <1>6. QED BY <1>1, <1>5 DEF Joins!Expressions

-----------------------------------------------------------------------------
(* Series: sums, maxima, sums of costs and nests of lets are all made      *)
(* element by element.                                                     *)

\* Induction over the numbers up to n.
LEMMA RangeInduction ==
    ASSUME NEW n \in Nat, NEW S, 0 \in S, \A i \in 1..n : i - 1 \in S => i \in S
    PROVE  0..n \subseteq S
  <1> DEFINE T == {k \in Nat : k <= n => k \in S}
  <1>1. 0 \in T
    OBVIOUS
  <1>2. ASSUME NEW k \in T PROVE k + 1 \in T
    <2>1. k + 1 <= n => k + 1 \in 1..n /\ (k + 1) - 1 = k /\ k \in S
      OBVIOUS
    <2>2. QED BY <2>1
  <1>3. T \in SUBSET Nat
    OBVIOUS
  <1>4. T = Nat
    <2> HIDE DEF T
    <2>1. QED BY <1>1, <1>2, <1>3, NatSetInduction
  <1>5. QED BY <1>4

\* A function over the prefixes of a list: its steps, and what they make of a start.
Steps(n, V) == [(1..n) \X V -> V]
\* f has the results of the steps, from start on.
Follows(f, n, V, start, step) ==
    f \in [0..n -> V] /\ f[0] = start /\ \A i \in 1..n : f[i] = step[<<i, f[i - 1]>>]

\* There is such a function for any steps.
LEMMA PrefixRecursion ==
    ASSUME NEW n \in Nat, NEW V, NEW start \in V, NEW G \in Steps(n, V)
    PROVE  \E f : Follows(f, n, V, start, G)
  <1> USE DEF Steps, Follows
  <1> DEFINE Good(k, f) == f \in [0..n -> V] /\ f[0] = start /\ \A i \in 1..k : f[i] = G[<<i, f[i - 1]>>]
             S == {k \in 0..n : \E f : Good(k, f)}
  <1>1. 0 \in S
    <2>1. Good(0, [i \in 0..n |-> start])
      OBVIOUS
    <2> HIDE DEF Good
    <2>2. QED BY <2>1
  <1>2. ASSUME NEW k \in 1..n, k - 1 \in S PROVE k \in S
    <2>1. PICK f : Good(k - 1, f)
      BY <1>2
    <2> DEFINE g == [i \in 0..n |-> IF i = k THEN G[<<k, f[k - 1]>>] ELSE f[i]]
    <2>2. G[<<k, f[k - 1]>>] \in V
      <3>1. k - 1 \in 0..n
        OBVIOUS
      <3>2. f[k - 1] \in V
        BY <2>1, <3>1
      <3>3. QED BY <3>2
    <2>3. g \in [0..n -> V]
      BY <2>1, <2>2
    <2>4. g[0] = start
      BY <2>1
    <2>5. ASSUME NEW i \in 1..k PROVE g[i] = G[<<i, g[i - 1]>>]
      <3>1. i - 1 \in 0..n /\ i \in 0..n /\ i - 1 # k
        OBVIOUS
      <3>2. g[i - 1] = f[i - 1]
        BY <3>1
      <3>3. i # k => g[i] = f[i] /\ i \in 1..(k - 1)
        BY <3>1
      <3>4. i = k => g[i] = G[<<k, f[k - 1]>>]
        BY <3>1
      <3> HIDE DEF g
      <3>5. QED BY <2>1, <3>2, <3>3, <3>4
    <2>6. Good(k, g)
      <3> HIDE DEF g
      <3>1. QED BY <2>3, <2>4, <2>5
    <2> HIDE DEF Good, g
    <2>7. QED BY <2>6
  <1>3. n \in S
    <2> HIDE DEF S
    <2>1. 0..n \subseteq S
      BY <1>1, <1>2, RangeInduction
    <2>2. QED BY <2>1
  <1>4. PICK f : Good(n, f)
    BY <1>3
  <1>5. QED BY <1>4

\* Evaluated changes nothing.
LEMMA EvaluatedIs ==
    ASSUME NEW n \in Nat, NEW f, f = [i \in 1..n |-> f[i]]
    PROVE  Joins!Evaluated(f) = f
  <1> DEFINE S == {f[i] : i \in 1..n}
  <1>1. f \in [1..n -> S]
    OBVIOUS
  <1>2. f \in Seq(S) /\ Len(f) = n
    BY <1>1
  <1>3. QED BY <1>2 DEF Joins!Evaluated

\* A sum has a series of partial sums.
LEMMA SumUnfold ==
    ASSUME NEW s \in Seq(Nat)
    PROVE  \E total \in [0..Len(s) -> Nat] :
              /\ total[0] = 0
              /\ \A i \in 1..Len(s) : total[i] = total[i - 1] + s[i]
              /\ Joins!Sum(s) = total[Len(s)]
  <1> DEFINE Round(f) == [i \in 0..Len(s) |-> IF i = 0 THEN 0 ELSE f[i - 1] + s[i]]
             G == [p \in (1..Len(s)) \X Nat |-> p[2] + s[p[1]]]
             total == CHOOSE f : f = Round(f)
  <1>1. Len(s) \in Nat /\ \A i \in 1..Len(s) : s[i] \in Nat
    OBVIOUS
  <1>2. G \in Steps(Len(s), Nat)
    BY <1>1 DEF Steps
  <1>3. PICK f : Follows(f, Len(s), Nat, 0, G)
    <2> HIDE DEF G
    <2>1. Len(s) \in Nat /\ 0 \in Nat
      BY <1>1
    <2>2. QED BY <1>2, <2>1, PrefixRecursion
  <1>4. ASSUME NEW i \in 1..Len(s) PROVE f[i] = f[i - 1] + s[i]
    <2>1. i - 1 \in 0..Len(s)
      BY <1>1
    <2>2. <<i, f[i - 1]>> \in (1..Len(s)) \X Nat
      BY <1>3, <2>1 DEF Follows
    <2>3. QED BY <1>3, <2>2 DEF Follows
  <1>5. f = Round(f)
    BY <1>3, <1>4 DEF Follows
  <1>6. total = Round(total)
    <2> HIDE DEF Round
    <2>1. QED BY <1>5
  <1>7. \A i \in 0..Len(s) : total[i] = f[i]
    <2> DEFINE S == {i \in 0..Len(s) : total[i] = f[i]}
    <2> HIDE DEF total
    <2>1. 0 \in S
      BY <1>1, <1>3, <1>6 DEF Follows
    <2>2. ASSUME NEW i \in 1..Len(s), i - 1 \in S PROVE i \in S
      BY <1>1, <1>4, <1>6, <2>2, SMTT(30)
    <2>3. 0..Len(s) \subseteq S
      <3> HIDE DEF S
      <3>1. QED BY <1>1, <2>1, <2>2, RangeInduction
    <2>4. QED BY <2>3
  <1>8. Joins!Sum(s) = total[Len(s)]
    BY DEF Joins!Sum
  <1> HIDE DEF total
  <1>9. QED BY <1>1, <1>3, <1>4, <1>7, <1>8, SMTT(30) DEF Follows

\* A maximum has a series of maxima so far.
LEMMA HighestUnfold ==
    ASSUME NEW s \in Seq(Nat)
    PROVE  \E top \in [0..Len(s) -> Nat] :
              /\ top[0] = 0
              /\ \A i \in 1..Len(s) : top[i] = Joins!Larger(top[i - 1], s[i])
              /\ Joins!Highest(s) = top[Len(s)]
  <1> DEFINE Round(f) == [i \in 0..Len(s) |-> IF i = 0 THEN 0 ELSE Joins!Larger(f[i - 1], s[i])]
             G == [p \in (1..Len(s)) \X Nat |-> Joins!Larger(p[2], s[p[1]])]
             top == CHOOSE f : f = Round(f)
  <1>1. Len(s) \in Nat /\ \A i \in 1..Len(s) : s[i] \in Nat
    OBVIOUS
  <1>2. G \in Steps(Len(s), Nat)
    BY <1>1 DEF Steps, Joins!Larger
  <1>3. PICK f : Follows(f, Len(s), Nat, 0, G)
    <2> HIDE DEF G
    <2>1. Len(s) \in Nat /\ 0 \in Nat
      BY <1>1
    <2>2. QED BY <1>2, <2>1, PrefixRecursion
  <1>4. ASSUME NEW i \in 1..Len(s) PROVE f[i] = Joins!Larger(f[i - 1], s[i])
    <2>1. i - 1 \in 0..Len(s)
      BY <1>1
    <2>2. <<i, f[i - 1]>> \in (1..Len(s)) \X Nat
      BY <1>3, <2>1 DEF Follows
    <2>3. QED BY <1>3, <2>2 DEF Follows
  <1>5. f = Round(f)
    BY <1>3, <1>4 DEF Follows
  <1>6. top = Round(top)
    <2> HIDE DEF Round
    <2>1. QED BY <1>5
  <1>7. \A i \in 0..Len(s) : top[i] = f[i]
    <2> DEFINE S == {i \in 0..Len(s) : top[i] = f[i]}
    <2> HIDE DEF top
    <2>1. 0 \in S
      BY <1>1, <1>3, <1>6 DEF Follows
    <2>2. ASSUME NEW i \in 1..Len(s), i - 1 \in S PROVE i \in S
      BY <1>1, <1>4, <1>6, <2>2, SMTT(30)
    <2>3. 0..Len(s) \subseteq S
      <3> HIDE DEF S
      <3>1. QED BY <1>1, <2>1, <2>2, RangeInduction
    <2>4. QED BY <2>3
  <1>8. Joins!Highest(s) = top[Len(s)]
    BY DEF Joins!Highest
  <1> HIDE DEF top
  <1>9. QED BY <1>1, <1>3, <1>4, <1>7, <1>8, SMTT(30) DEF Follows

\* What a cost is: an error, or the size and the depth of an expansion.
Costs == [error: {"none", "JoinExpansionLimit", "UnsupportedJoinPoint"}, nodes: Nat, depth: Nat]

\* The sum of two costs is a cost (Cost::add).
LEMMA AddIsCost ==
    ASSUME NEW left \in Costs, NEW right \in Costs
    PROVE  Joins!Add(left, right) \in Costs
  BY DEF Costs, Joins!Add, Joins!Measured, Joins!Failed, Joins!Larger

\* A sum of costs has a series of partial sums, which may turn into an error.
LEMMA AddAllUnfold ==
    ASSUME NEW start \in Costs, NEW s \in Seq(Costs)
    PROVE  \E total \in [0..Len(s) -> Costs] :
              /\ total[0] = start
              /\ \A i \in 1..Len(s) : total[i] = Joins!Add(total[i - 1], s[i])
              /\ Joins!AddAll(start, s) = total[Len(s)]
  <1> DEFINE Round(f) == [i \in 0..Len(s) |-> IF i = 0 THEN start ELSE Joins!Add(f[i - 1], s[i])]
             G == [p \in (1..Len(s)) \X Costs |-> Joins!Add(p[2], s[p[1]])]
             total == CHOOSE f : f = Round(f)
  <1>1. Len(s) \in Nat /\ \A i \in 1..Len(s) : s[i] \in Costs
    OBVIOUS
  <1>2. G \in Steps(Len(s), Costs)
    BY <1>1, AddIsCost DEF Steps
  <1>3. PICK f : Follows(f, Len(s), Costs, start, G)
    <2> HIDE DEF G
    <2>2. QED BY <1>1, <1>2, PrefixRecursion
  <1>4. ASSUME NEW i \in 1..Len(s) PROVE f[i] = Joins!Add(f[i - 1], s[i])
    <2>1. i - 1 \in 0..Len(s)
      BY <1>1
    <2>2. <<i, f[i - 1]>> \in (1..Len(s)) \X Costs
      BY <1>3, <2>1 DEF Follows
    <2>3. QED BY <1>3, <2>2 DEF Follows
  <1>5. f = Round(f)
    BY <1>3, <1>4 DEF Follows
  <1>6. total = Round(total)
    <2> HIDE DEF Round
    <2>1. QED BY <1>5
  <1>7. \A i \in 0..Len(s) : total[i] = f[i]
    <2> DEFINE S == {i \in 0..Len(s) : total[i] = f[i]}
    <2> HIDE DEF total
    <2>1. 0 \in S
      BY <1>1, <1>3, <1>6 DEF Follows
    <2>2. ASSUME NEW i \in 1..Len(s), i - 1 \in S PROVE i \in S
      BY <1>1, <1>4, <1>6, <2>2
    <2>3. 0..Len(s) \subseteq S
      <3> HIDE DEF S
      <3>1. QED BY <1>1, <2>1, <2>2, RangeInduction
    <2>4. QED BY <2>3
  <1>8. Joins!AddAll(start, s) = total[Len(s)]
    BY DEF Joins!AddAll
  <1> HIDE DEF total
  <1>9. QED BY <1>1, <1>3, <1>4, <1>7, <1>8 DEF Follows

\* A nest of lets has a series of lets, from the inside out (expression).
LEMMA BindUnfold ==
    ASSUME NEW params, NEW args, NEW inner, Len(params) \in Nat
    PROVE  \E bound :
              /\ bound[0] = inner
              /\ \A i \in 1..Len(params) :
                    bound[i] = Joins!Let(params[Len(params) - i + 1], args[Len(params) - i + 1], bound[i - 1])
              /\ Joins!Bind(params, args, inner) = bound[Len(params)]
  <1>0. PICK n : n = Len(params)
    OBVIOUS
  <1>1. n \in Nat
    BY <1>0
  <1> DEFINE Next1(f, i) == Joins!Let(params[n - i + 1], args[n - i + 1], f[i - 1])
             Round(f) == [i \in 0..n |-> IF i = 0 THEN inner ELSE Next1(f, i)]
             Good(f, k) == f[0] = inner /\ \A i \in 1..k : f[i] = Next1(f, i)
             S == {k \in 0..n : \E f : Good(f, k)}
  <1>2. n \in S
    <2>1. 0 \in S
      <3>1. Good([i \in 0..n |-> inner], 0)
        BY <1>1
      <3> HIDE DEF Good
      <3>2. QED BY <1>1, <3>1
    <2>2. ASSUME NEW k \in 1..n, k - 1 \in S PROVE k \in S
      <3>1. PICK f : Good(f, k - 1)
        BY <2>2
      <3> DEFINE g == Round(f)
      <3>2. g[0] = inner /\ \A i \in 1..k : g[i] = Next1(f, i)
        BY <1>1
      <3>3. \A i \in 0..(k - 1) : g[i] = f[i]
        BY <1>1, <3>1
      <3> HIDE DEF g
      <3>4. ASSUME NEW i \in 1..k PROVE g[i] = Next1(g, i)
        <4>1. i - 1 \in 0..(k - 1)
          OBVIOUS
        <4>2. QED BY <3>2, <3>3, <4>1
      <3>5. Good(g, k)
        BY <3>2, <3>4
      <3> HIDE DEF Good
      <3>6. QED BY <3>5
    <2> HIDE DEF S
    <2>3. 0..n \subseteq S
      BY <1>1, <2>1, <2>2, RangeInduction
    <2>4. QED BY <1>1, <2>3
  <1>3. PICK f : Good(f, n)
    BY <1>2
  <1>4. Round(f) = Round(Round(f))
    <2> DEFINE g == Round(f)
    <2>1. g = [i \in 0..n |-> g[i]] /\ g[0] = inner /\ \A i \in 1..n : g[i] = Next1(f, i)
      BY <1>1
    <2>2. \A i \in 0..n : g[i] = f[i]
      BY <1>1, <1>3
    <2> HIDE DEF g
    <2>3. ASSUME NEW i \in 1..n PROVE g[i] = Next1(g, i)
      <3>1. i - 1 \in 0..n
        BY <1>1
      <3>2. QED BY <2>1, <2>2, <3>1
    <2> HIDE DEF Next1
    <2>4. g = Round(g)
      BY <2>1, <2>3, <1>1
    <2> USE DEF g
    <2>5. QED BY <2>4
  <1> DEFINE bound == CHOOSE h : h = Round(h)
  <1>5. bound = Round(bound)
    <2>1. \E h : h = Round(h)
      BY <1>4
    <2> HIDE DEF Round
    <2>2. QED BY <2>1
  <1>6. Joins!Bind(params, args, inner) = bound[n]
    BY <1>0 DEF Joins!Bind
  <1> HIDE DEF bound
  <1>7. bound[0] = inner /\ \A i \in 1..n : bound[i] = Next1(bound, i)
    BY <1>1, <1>5
  <1>8. QED BY <1>0, <1>6, <1>7

-----------------------------------------------------------------------------
(* The functions over expressions: each is what its equation says.         *)

\* The expressions below the n-th level.
Lower(n) == IF n = 0 THEN {} ELSE Joins!Level[n - 1]

\* The children of an expression are lower.
LEMMA LowerFields ==
    ASSUME NEW n \in 1..(MAX_NODES + 1), NEW e \in Lower(n)
    PROVE  /\ e \in Joins!Expressions
           /\ \A i \in DOMAIN e.args : e.args[i] \in Lower(n - 1) /\ e.args[i] \in Joins!Expressions
  <1>1. MAX_NODES \in Nat /\ n - 1 \in Nat /\ n - 1 <= MAX_NODES /\ e \in Joins!Level[n - 1]
    BY LimitsAssumption DEF Lower
  <1>2. e \in Joins!Expressions
    BY <1>1, LevelBounded
  <1>3. \A i \in DOMAIN e.args : n - 1 # 0 /\ e.args[i] \in Joins!Level[(n - 1) - 1]
    BY <1>1, LevelFields
  <1>4. QED BY <1>2, <1>3, ExpressionFields DEF Lower

\* All expressions are below the level after the last.
LEMMA LowerAll == Lower(MAX_NODES + 1) = Joins!Expressions
  BY LimitsAssumption DEF Lower, Joins!Expressions

\* The equations of the functions over expressions, for any function h of the children.
\* The size.
NodesOf(h, e) == 1 + Joins!Sum(Joins!Evaluated([i \in DOMAIN e.args |-> h[e.args[i]]]))
\* The declared names.
declaredOf(h, e) ==
    (IF e.op = "jp" THEN {e.name} ELSE {}) \cup UNION {h[e.args[i]] : i \in DOMAIN e.args}
\* The jumps.
jumpsOf(h, e) ==
    (IF e.op = "jmp" THEN {<<e.name, Len(e.args)>>} ELSE {}) \cup UNION {h[e.args[i]] : i \in DOMAIN e.args}
\* The declaration of each name.
declarationOf(h, e) ==
    [name \in Names |->
        LET found == {i \in DOMAIN e.args : name \in Joins!declared[e.args[i]]}
        IN  IF found = {} THEN e ELSE h[e.args[Joins!Latest(found)]][name]]
\* The tail destination.
destinationOf(h, e) ==
    IF e.op = "jmp" /\ Len(e.args) = 1 THEN {e.name}
    ELSE IF e.op = "let" THEN h[e.args[2]]
    ELSE IF e.op = "branch"
      THEN {name \in UNION {h[e.args[i]] : i \in Joins!Alternatives(e)} :
               \A i \in Joins!Alternatives(e) : h[e.args[i]] = {name}}
    ELSE {}
\* The tail arguments.
takenOf(h, e) ==
    IF e.op = "jmp" /\ Len(e.args) = 1 THEN e.args[1]
    ELSE IF e.op \in {"let", "branch"}
      THEN [e EXCEPT !.args = [i \in DOMAIN @ |-> IF i = 1 THEN @[i] ELSE h[@[i]]]]
    ELSE e

\* The latest of some positions is one of them and the last.
LEMMA LatestIn ==
    ASSUME NEW n \in Nat, NEW S \in SUBSET (1..n), S # {}
    PROVE  Joins!Latest(S) \in S /\ \A j \in S : j <= Joins!Latest(S)
  <1> DEFINE T == {k \in 0..n : \A R \in SUBSET (1..k) : R # {} => \E i \in R : \A j \in R : j <= i}
  <1>1. 0 \in T
    <2>1. 1..0 = {} /\ 0 \in 0..n
      OBVIOUS
    <2>2. \A R \in SUBSET (1..0) : R = {}
      BY <2>1
    <2>3. QED BY <2>1, <2>2
  <1>2. ASSUME NEW k \in 1..n, k - 1 \in T PROVE k \in T
    <2>1. ASSUME NEW R \in SUBSET (1..k), R # {} PROVE \E i \in R : \A j \in R : j <= i
      <3>1. CASE k \in R
        <4>1. \A j \in R : j <= k
          OBVIOUS
        <4>2. QED BY <3>1, <4>1
      <3>2. CASE k \notin R
        <4>1. R \in SUBSET (1..(k - 1))
          BY <3>2
        <4>2. QED BY <1>2, <2>1, <4>1
      <3>3. QED BY <3>1, <3>2
    <2>2. QED BY <2>1
  <1>3. n \in T
    <2> HIDE DEF T
    <2>1. 0..n \subseteq T
      BY <1>1, <1>2, RangeInduction
    <2>2. QED BY <2>1
  <1>4. \E i \in S : \A j \in S : j <= i
    BY <1>3
  <1>5. QED BY <1>4 DEF Joins!Latest

\* A child that declares a name is chosen among the children.
LEMMA LatestChild ==
    ASSUME NEW e \in Joins!Expressions, NEW found, found = {i \in DOMAIN e.args : i \in found}, found # {}
    PROVE  Joins!Latest(found) \in found /\ Joins!Latest(found) \in DOMAIN e.args
  <1>1. Len(e.args) \in Nat /\ found \in SUBSET (1..Len(e.args))
    BY ExpressionFields
  <1>2. QED BY <1>1, LatestIn

\* An equation asks h of the children only, so one function satisfies it: that of the
\* model.  The same two lemmas for each function.
LEMMA NodesLocal ==
    ASSUME NEW e \in Joins!Expressions, NEW g, NEW h,
           \A i \in DOMAIN e.args : g[e.args[i]] = h[e.args[i]]
    PROVE  NodesOf(g, e) = NodesOf(h, e)
  BY DEF NodesOf

\* The size of an expression is what its equation says.
LEMMA NodesDef == \A e \in Joins!Expressions : Joins!Nodes[e] = NodesOf(Joins!Nodes, e)
  <1> DEFINE Round(h) == [e \in Joins!Expressions |-> NodesOf(h, e)]
             S == {n \in 0..(MAX_NODES + 1) : \E h : \A e \in Lower(n) : h[e] = NodesOf(h, e)}
  <1>1. ASSUME NEW n \in 1..(MAX_NODES + 1), n - 1 \in S PROVE n \in S
    <2>1. PICK h : \A e \in Lower(n - 1) : h[e] = NodesOf(h, e)
      BY <1>1
    <2>2. ASSUME NEW e \in Lower(n) PROVE Round(h)[e] = NodesOf(Round(h), e)
      <3>1. e \in Joins!Expressions /\ \A i \in DOMAIN e.args : e.args[i] \in Lower(n - 1) /\ e.args[i] \in Joins!Expressions
        BY LowerFields
      <3>2. \A i \in DOMAIN e.args : Round(h)[e.args[i]] = h[e.args[i]]
        BY <2>1, <3>1
      <3> HIDE DEF Round
      <3>3. NodesOf(Round(h), e) = NodesOf(h, e)
        BY <3>1, <3>2, NodesLocal
      <3> USE DEF Round
      <3>4. QED BY <3>1, <3>3
    <2> HIDE DEF Round
    <2>3. QED BY <2>2
  <1>2. 0 \in S
    BY LimitsAssumption DEF Lower
  <1>3. MAX_NODES + 1 \in S
    <2> HIDE DEF S
    <2>1. MAX_NODES + 1 \in Nat /\ MAX_NODES + 1 \in 0..(MAX_NODES + 1)
      BY LimitsAssumption
    <2>2. 0..(MAX_NODES + 1) \subseteq S
      BY <1>1, <1>2, <2>1, RangeInduction
    <2>3. QED BY <2>1, <2>2
  <1>4. PICK h : \A e \in Joins!Expressions : h[e] = NodesOf(h, e)
    BY <1>3, LowerAll
  <1>5. Round(h) = Round(Round(h))
    <2>1. \A e \in Joins!Expressions : Round(h)[e] = h[e]
      BY <1>4
    <2> HIDE DEF Round
    <2>2. ASSUME NEW e \in Joins!Expressions PROVE NodesOf(h, e) = NodesOf(Round(h), e)
      <3>1. \A i \in DOMAIN e.args : Round(h)[e.args[i]] = h[e.args[i]]
        BY <2>1, ExpressionFields
      <3>2. QED BY <3>1, NodesLocal
    <2> USE DEF Round
    <2>3. QED BY <2>2
  <1>6. Joins!Nodes = Round(Joins!Nodes)
    <2>1. \E f : f = Round(f)
      BY <1>5
    <2>2. Joins!Nodes = CHOOSE f : f = Round(f)
      BY DEF Joins!Nodes, NodesOf
    <2> HIDE DEF Round
    <2>3. QED BY <2>1, <2>2
  <1>7. QED BY <1>6

\* The equation of the declared names looks at the children only.
LEMMA DeclaredLocal ==
    ASSUME NEW e \in Joins!Expressions, NEW g, NEW h,
           \A i \in DOMAIN e.args : g[e.args[i]] = h[e.args[i]]
    PROVE  declaredOf(g, e) = declaredOf(h, e)
  BY DEF declaredOf

\* The declared names are what their equation says.
LEMMA DeclaredDef == \A e \in Joins!Expressions : Joins!declared[e] = declaredOf(Joins!declared, e)
  <1> DEFINE Round(h) == [e \in Joins!Expressions |-> declaredOf(h, e)]
             S == {n \in 0..(MAX_NODES + 1) : \E h : \A e \in Lower(n) : h[e] = declaredOf(h, e)}
  <1>1. ASSUME NEW n \in 1..(MAX_NODES + 1), n - 1 \in S PROVE n \in S
    <2>1. PICK h : \A e \in Lower(n - 1) : h[e] = declaredOf(h, e)
      BY <1>1
    <2>2. ASSUME NEW e \in Lower(n) PROVE Round(h)[e] = declaredOf(Round(h), e)
      <3>1. e \in Joins!Expressions /\ \A i \in DOMAIN e.args : e.args[i] \in Lower(n - 1) /\ e.args[i] \in Joins!Expressions
        BY LowerFields
      <3>2. \A i \in DOMAIN e.args : Round(h)[e.args[i]] = h[e.args[i]]
        BY <2>1, <3>1
      <3> HIDE DEF Round
      <3>3. declaredOf(Round(h), e) = declaredOf(h, e)
        BY <3>1, <3>2, DeclaredLocal
      <3> USE DEF Round
      <3>4. QED BY <3>1, <3>3
    <2> HIDE DEF Round
    <2>3. QED BY <2>2
  <1>2. 0 \in S
    BY LimitsAssumption DEF Lower
  <1>3. MAX_NODES + 1 \in S
    <2> HIDE DEF S
    <2>1. MAX_NODES + 1 \in Nat /\ MAX_NODES + 1 \in 0..(MAX_NODES + 1)
      BY LimitsAssumption
    <2>2. 0..(MAX_NODES + 1) \subseteq S
      BY <1>1, <1>2, <2>1, RangeInduction
    <2>3. QED BY <2>1, <2>2
  <1>4. PICK h : \A e \in Joins!Expressions : h[e] = declaredOf(h, e)
    BY <1>3, LowerAll
  <1>5. Round(h) = Round(Round(h))
    <2>1. \A e \in Joins!Expressions : Round(h)[e] = h[e]
      BY <1>4
    <2> HIDE DEF Round
    <2>2. ASSUME NEW e \in Joins!Expressions PROVE declaredOf(h, e) = declaredOf(Round(h), e)
      <3>1. \A i \in DOMAIN e.args : Round(h)[e.args[i]] = h[e.args[i]]
        BY <2>1, ExpressionFields
      <3>2. QED BY <3>1, DeclaredLocal
    <2> USE DEF Round
    <2>3. QED BY <2>2
  <1>6. Joins!declared = Round(Joins!declared)
    <2>1. \E f : f = Round(f)
      BY <1>5
    <2>2. Joins!declared = CHOOSE f : f = Round(f)
      BY DEF Joins!declared, declaredOf
    <2> HIDE DEF Round
    <2>3. QED BY <2>1, <2>2
  <1>7. QED BY <1>6

\* The equation of the jumps looks at the children only.
LEMMA JumpsLocal ==
    ASSUME NEW e \in Joins!Expressions, NEW g, NEW h,
           \A i \in DOMAIN e.args : g[e.args[i]] = h[e.args[i]]
    PROVE  jumpsOf(g, e) = jumpsOf(h, e)
  BY DEF jumpsOf

\* The jumps are what their equation says.
LEMMA JumpsDef == \A e \in Joins!Expressions : Joins!jumps[e] = jumpsOf(Joins!jumps, e)
  <1> DEFINE Round(h) == [e \in Joins!Expressions |-> jumpsOf(h, e)]
             S == {n \in 0..(MAX_NODES + 1) : \E h : \A e \in Lower(n) : h[e] = jumpsOf(h, e)}
  <1>1. ASSUME NEW n \in 1..(MAX_NODES + 1), n - 1 \in S PROVE n \in S
    <2>1. PICK h : \A e \in Lower(n - 1) : h[e] = jumpsOf(h, e)
      BY <1>1
    <2>2. ASSUME NEW e \in Lower(n) PROVE Round(h)[e] = jumpsOf(Round(h), e)
      <3>1. e \in Joins!Expressions /\ \A i \in DOMAIN e.args : e.args[i] \in Lower(n - 1) /\ e.args[i] \in Joins!Expressions
        BY LowerFields
      <3>2. \A i \in DOMAIN e.args : Round(h)[e.args[i]] = h[e.args[i]]
        BY <2>1, <3>1
      <3> HIDE DEF Round
      <3>3. jumpsOf(Round(h), e) = jumpsOf(h, e)
        BY <3>1, <3>2, JumpsLocal
      <3> USE DEF Round
      <3>4. QED BY <3>1, <3>3
    <2> HIDE DEF Round
    <2>3. QED BY <2>2
  <1>2. 0 \in S
    BY LimitsAssumption DEF Lower
  <1>3. MAX_NODES + 1 \in S
    <2> HIDE DEF S
    <2>1. MAX_NODES + 1 \in Nat /\ MAX_NODES + 1 \in 0..(MAX_NODES + 1)
      BY LimitsAssumption
    <2>2. 0..(MAX_NODES + 1) \subseteq S
      BY <1>1, <1>2, <2>1, RangeInduction
    <2>3. QED BY <2>1, <2>2
  <1>4. PICK h : \A e \in Joins!Expressions : h[e] = jumpsOf(h, e)
    BY <1>3, LowerAll
  <1>5. Round(h) = Round(Round(h))
    <2>1. \A e \in Joins!Expressions : Round(h)[e] = h[e]
      BY <1>4
    <2> HIDE DEF Round
    <2>2. ASSUME NEW e \in Joins!Expressions PROVE jumpsOf(h, e) = jumpsOf(Round(h), e)
      <3>1. \A i \in DOMAIN e.args : Round(h)[e.args[i]] = h[e.args[i]]
        BY <2>1, ExpressionFields
      <3>2. QED BY <3>1, JumpsLocal
    <2> USE DEF Round
    <2>3. QED BY <2>2
  <1>6. Joins!jumps = Round(Joins!jumps)
    <2>1. \E f : f = Round(f)
      BY <1>5
    <2>2. Joins!jumps = CHOOSE f : f = Round(f)
      BY DEF Joins!jumps, jumpsOf
    <2> HIDE DEF Round
    <2>3. QED BY <2>1, <2>2
  <1>7. QED BY <1>6

\* The equation of the declarations looks at the children only.
LEMMA DeclarationLocal ==
    ASSUME NEW e \in Joins!Expressions, NEW g, NEW h,
           \A i \in DOMAIN e.args : g[e.args[i]] = h[e.args[i]]
    PROVE  declarationOf(g, e) = declarationOf(h, e)
  <1> DEFINE Found(name) == {i \in DOMAIN e.args : name \in Joins!declared[e.args[i]]}
  <1>1. ASSUME NEW name, Found(name) # {}
        PROVE  g[e.args[Joins!Latest(Found(name))]] = h[e.args[Joins!Latest(Found(name))]]
    <2>1. Joins!Latest(Found(name)) \in DOMAIN e.args
      <3>1. Found(name) = {i \in DOMAIN e.args : i \in Found(name)}
        OBVIOUS
      <3> HIDE DEF Found
      <3>2. QED BY <1>1, <3>1, LatestChild
    <2> HIDE DEF Found
    <2>2. QED BY <2>1
  <1> DEFINE Chosen(k, name) == IF Found(name) = {} THEN e ELSE k[e.args[Joins!Latest(Found(name))]][name]
  <1>2. ASSUME NEW name PROVE Chosen(g, name) = Chosen(h, name)
    <2> HIDE DEF Found
    <2>1. QED BY <1>1
  <1>3. \A k : declarationOf(k, e) = [name \in Names |-> Chosen(k, name)]
    BY DEF declarationOf
  <1> HIDE DEF Chosen
  <1>4. QED BY <1>2, <1>3

\* The declarations are what their equation says.
LEMMA DeclarationDef == \A e \in Joins!Expressions : Joins!declaration[e] = declarationOf(Joins!declaration, e)
  <1> DEFINE Round(h) == [e \in Joins!Expressions |-> declarationOf(h, e)]
             S == {n \in 0..(MAX_NODES + 1) : \E h : \A e \in Lower(n) : h[e] = declarationOf(h, e)}
  <1>1. ASSUME NEW n \in 1..(MAX_NODES + 1), n - 1 \in S PROVE n \in S
    <2>1. PICK h : \A e \in Lower(n - 1) : h[e] = declarationOf(h, e)
      BY <1>1
    <2>2. ASSUME NEW e \in Lower(n) PROVE Round(h)[e] = declarationOf(Round(h), e)
      <3>1. e \in Joins!Expressions /\ \A i \in DOMAIN e.args : e.args[i] \in Lower(n - 1) /\ e.args[i] \in Joins!Expressions
        BY LowerFields
      <3>2. \A i \in DOMAIN e.args : Round(h)[e.args[i]] = h[e.args[i]]
        BY <2>1, <3>1
      <3> HIDE DEF Round
      <3>3. declarationOf(Round(h), e) = declarationOf(h, e)
        BY <3>1, <3>2, DeclarationLocal
      <3> USE DEF Round
      <3>4. QED BY <3>1, <3>3
    <2> HIDE DEF Round
    <2>3. QED BY <2>2
  <1>2. 0 \in S
    BY LimitsAssumption DEF Lower
  <1>3. MAX_NODES + 1 \in S
    <2> HIDE DEF S
    <2>1. MAX_NODES + 1 \in Nat /\ MAX_NODES + 1 \in 0..(MAX_NODES + 1)
      BY LimitsAssumption
    <2>2. 0..(MAX_NODES + 1) \subseteq S
      BY <1>1, <1>2, <2>1, RangeInduction
    <2>3. QED BY <2>1, <2>2
  <1>4. PICK h : \A e \in Joins!Expressions : h[e] = declarationOf(h, e)
    BY <1>3, LowerAll
  <1>5. Round(h) = Round(Round(h))
    <2>1. \A e \in Joins!Expressions : Round(h)[e] = h[e]
      BY <1>4
    <2> HIDE DEF Round
    <2>2. ASSUME NEW e \in Joins!Expressions PROVE declarationOf(h, e) = declarationOf(Round(h), e)
      <3>1. \A i \in DOMAIN e.args : Round(h)[e.args[i]] = h[e.args[i]]
        BY <2>1, ExpressionFields
      <3>2. QED BY <3>1, DeclarationLocal
    <2> USE DEF Round
    <2>3. QED BY <2>2
  <1>6. Joins!declaration = Round(Joins!declaration)
    <2>1. \E f : f = Round(f)
      BY <1>5
    <2>2. Joins!declaration = CHOOSE f : f = Round(f)
      BY DEF Joins!declaration, declarationOf
    <2> HIDE DEF Round
    <2>3. QED BY <2>1, <2>2
  <1>7. QED BY <1>6

\* The equation of the tail destination looks at the children only.
LEMMA DestinationLocal ==
    ASSUME NEW e \in Joins!Expressions, NEW g, NEW h,
           \A i \in DOMAIN e.args : g[e.args[i]] = h[e.args[i]]
    PROVE  destinationOf(g, e) = destinationOf(h, e)
  <1>1. e.op = "let" => 2 \in DOMAIN e.args
    BY ExpressionFields DEF Joins!Shaped
  <1>2. \A i \in Joins!Alternatives(e) : i \in DOMAIN e.args
    BY ExpressionFields DEF Joins!Alternatives
  <1>3. {g[e.args[i]] : i \in Joins!Alternatives(e)} = {h[e.args[i]] : i \in Joins!Alternatives(e)}
    BY <1>2
  <1>4. {name \in UNION {g[e.args[i]] : i \in Joins!Alternatives(e)} :
            \A i \in Joins!Alternatives(e) : g[e.args[i]] = {name}}
        = {name \in UNION {h[e.args[i]] : i \in Joins!Alternatives(e)} :
            \A i \in Joins!Alternatives(e) : h[e.args[i]] = {name}}
    BY <1>2, <1>3
  <1>5. QED BY <1>1, <1>4 DEF destinationOf

\* The tail destination is what its equation says.
LEMMA DestinationDef == \A e \in Joins!Expressions : Joins!tail_destination[e] = destinationOf(Joins!tail_destination, e)
  <1> DEFINE Round(h) == [e \in Joins!Expressions |-> destinationOf(h, e)]
             S == {n \in 0..(MAX_NODES + 1) : \E h : \A e \in Lower(n) : h[e] = destinationOf(h, e)}
  <1>1. ASSUME NEW n \in 1..(MAX_NODES + 1), n - 1 \in S PROVE n \in S
    <2>1. PICK h : \A e \in Lower(n - 1) : h[e] = destinationOf(h, e)
      BY <1>1
    <2>2. ASSUME NEW e \in Lower(n) PROVE Round(h)[e] = destinationOf(Round(h), e)
      <3>1. e \in Joins!Expressions /\ \A i \in DOMAIN e.args : e.args[i] \in Lower(n - 1) /\ e.args[i] \in Joins!Expressions
        BY LowerFields
      <3>2. \A i \in DOMAIN e.args : Round(h)[e.args[i]] = h[e.args[i]]
        BY <2>1, <3>1
      <3> HIDE DEF Round
      <3>3. destinationOf(Round(h), e) = destinationOf(h, e)
        BY <3>1, <3>2, DestinationLocal
      <3> USE DEF Round
      <3>4. QED BY <3>1, <3>3
    <2> HIDE DEF Round
    <2>3. QED BY <2>2
  <1>2. 0 \in S
    BY LimitsAssumption DEF Lower
  <1>3. MAX_NODES + 1 \in S
    <2> HIDE DEF S
    <2>1. MAX_NODES + 1 \in Nat /\ MAX_NODES + 1 \in 0..(MAX_NODES + 1)
      BY LimitsAssumption
    <2>2. 0..(MAX_NODES + 1) \subseteq S
      BY <1>1, <1>2, <2>1, RangeInduction
    <2>3. QED BY <2>1, <2>2
  <1>4. PICK h : \A e \in Joins!Expressions : h[e] = destinationOf(h, e)
    BY <1>3, LowerAll
  <1>5. Round(h) = Round(Round(h))
    <2>1. \A e \in Joins!Expressions : Round(h)[e] = h[e]
      BY <1>4
    <2> HIDE DEF Round
    <2>2. ASSUME NEW e \in Joins!Expressions PROVE destinationOf(h, e) = destinationOf(Round(h), e)
      <3>1. \A i \in DOMAIN e.args : Round(h)[e.args[i]] = h[e.args[i]]
        BY <2>1, ExpressionFields
      <3>2. QED BY <3>1, DestinationLocal
    <2> USE DEF Round
    <2>3. QED BY <2>2
  <1>6. Joins!tail_destination = Round(Joins!tail_destination)
    <2>1. \E f : f = Round(f)
      BY <1>5
    <2>2. Joins!tail_destination = CHOOSE f : f = Round(f)
      BY DEF Joins!tail_destination, destinationOf
    <2> HIDE DEF Round
    <2>3. QED BY <2>1, <2>2
  <1>7. QED BY <1>6

\* The equation of the tail arguments looks at the children only.
LEMMA TakenLocal ==
    ASSUME NEW e \in Joins!Expressions, NEW g, NEW h,
           \A i \in DOMAIN e.args : g[e.args[i]] = h[e.args[i]]
    PROVE  takenOf(g, e) = takenOf(h, e)
  BY DEF takenOf

\* The tail arguments are what their equation says.
LEMMA TakenDef == \A e \in Joins!Expressions : Joins!take_tail_arguments[e] = takenOf(Joins!take_tail_arguments, e)
  <1> DEFINE Round(h) == [e \in Joins!Expressions |-> takenOf(h, e)]
             S == {n \in 0..(MAX_NODES + 1) : \E h : \A e \in Lower(n) : h[e] = takenOf(h, e)}
  <1>1. ASSUME NEW n \in 1..(MAX_NODES + 1), n - 1 \in S PROVE n \in S
    <2>1. PICK h : \A e \in Lower(n - 1) : h[e] = takenOf(h, e)
      BY <1>1
    <2>2. ASSUME NEW e \in Lower(n) PROVE Round(h)[e] = takenOf(Round(h), e)
      <3>1. e \in Joins!Expressions /\ \A i \in DOMAIN e.args : e.args[i] \in Lower(n - 1) /\ e.args[i] \in Joins!Expressions
        BY LowerFields
      <3>2. \A i \in DOMAIN e.args : Round(h)[e.args[i]] = h[e.args[i]]
        BY <2>1, <3>1
      <3> HIDE DEF Round
      <3>3. takenOf(Round(h), e) = takenOf(h, e)
        BY <3>1, <3>2, TakenLocal
      <3> USE DEF Round
      <3>4. QED BY <3>1, <3>3
    <2> HIDE DEF Round
    <2>3. QED BY <2>2
  <1>2. 0 \in S
    BY LimitsAssumption DEF Lower
  <1>3. MAX_NODES + 1 \in S
    <2> HIDE DEF S
    <2>1. MAX_NODES + 1 \in Nat /\ MAX_NODES + 1 \in 0..(MAX_NODES + 1)
      BY LimitsAssumption
    <2>2. 0..(MAX_NODES + 1) \subseteq S
      BY <1>1, <1>2, <2>1, RangeInduction
    <2>3. QED BY <2>1, <2>2
  <1>4. PICK h : \A e \in Joins!Expressions : h[e] = takenOf(h, e)
    BY <1>3, LowerAll
  <1>5. Round(h) = Round(Round(h))
    <2>1. \A e \in Joins!Expressions : Round(h)[e] = h[e]
      BY <1>4
    <2> HIDE DEF Round
    <2>2. ASSUME NEW e \in Joins!Expressions PROVE takenOf(h, e) = takenOf(Round(h), e)
      <3>1. \A i \in DOMAIN e.args : Round(h)[e.args[i]] = h[e.args[i]]
        BY <2>1, ExpressionFields
      <3>2. QED BY <3>1, TakenLocal
    <2> USE DEF Round
    <2>3. QED BY <2>2
  <1>6. Joins!take_tail_arguments = Round(Joins!take_tail_arguments)
    <2>1. \E f : f = Round(f)
      BY <1>5
    <2>2. Joins!take_tail_arguments = CHOOSE f : f = Round(f)
      BY DEF Joins!take_tail_arguments, takenOf
    <2> HIDE DEF Round
    <2>3. QED BY <2>1, <2>2
  <1>7. QED BY <1>6

-----------------------------------------------------------------------------
(* Names: what a body declares and jumps to.                               *)

\* A union of finitely many finite sets is finite.
LEMMA FiniteUnion ==
    ASSUME NEW n \in Nat, NEW f, \A i \in 1..n : IsFiniteSet(f[i])
    PROVE  IsFiniteSet(UNION {f[i] : i \in 1..n})
  <1> DEFINE T == {f[i] : i \in 1..n}
             g == [i \in 1..n |-> f[i]]
  <1>1. IsFiniteSet(1..n)
    BY FS_Interval
  <1>2. g \in Surjection(1..n, T)
    BY DEF Surjection
  <1>3. IsFiniteSet(T)
    <2> HIDE DEF T, g
    <2>1. QED BY <1>1, <1>2, FS_Surjection
  <1>4. \A t \in T : IsFiniteSet(t)
    OBVIOUS
  <1>5. QED
    <2>1. IsFiniteSet(UNION T)
      <3> HIDE DEF T
      <3>1. QED BY <1>3, <1>4, FS_UNION
    <2>2. QED BY <2>1

\* What a body declares is a finite set of names, and its jumps have a name and a
\* count.
LEMMA NamesTyped ==
    \A e \in Joins!Expressions :
        /\ Joins!declared[e] \in SUBSET Names /\ IsFiniteSet(Joins!declared[e])
        /\ Joins!jumps[e] \in SUBSET (Names \X Nat)
  <1> DEFINE S == {e \in Joins!Expressions :
                     /\ Joins!declared[e] \in SUBSET Names /\ IsFiniteSet(Joins!declared[e])
                     /\ Joins!jumps[e] \in SUBSET (Names \X Nat)}
  <1>1. ASSUME NEW e \in Joins!Expressions, \A i \in DOMAIN e.args : e.args[i] \in S PROVE e \in S
    <2>1. Len(e.args) \in Nat /\ DOMAIN e.args = 1..Len(e.args) /\ e.name \in Names
      BY ExpressionFields
    <2> DEFINE D == UNION {Joins!declared[e.args[i]] : i \in DOMAIN e.args}
               J == UNION {Joins!jumps[e.args[i]] : i \in DOMAIN e.args}
    <2>2. D \in SUBSET Names /\ J \in SUBSET (Names \X Nat)
      BY <1>1
    <2>3. IsFiniteSet(D)
      <3> DEFINE f == [i \in 1..Len(e.args) |-> Joins!declared[e.args[i]]]
      <3>1. \A i \in 1..Len(e.args) : IsFiniteSet(f[i])
        BY <1>1, <2>1
      <3>2. D = UNION {f[i] : i \in 1..Len(e.args)}
        BY <2>1
      <3> HIDE DEF f, D
      <3>3. IsFiniteSet(UNION {f[i] : i \in 1..Len(e.args)})
        BY <2>1, <3>1, FiniteUnion
      <3>4. QED BY <3>2, <3>3
    <2>4. Joins!declared[e] = (IF e.op = "jp" THEN {e.name} ELSE {}) \cup D
      BY DeclaredDef DEF declaredOf
    <2>5. Joins!jumps[e] = (IF e.op = "jmp" THEN {<<e.name, Len(e.args)>>} ELSE {}) \cup J
      BY JumpsDef DEF jumpsOf
    <2> HIDE DEF D, J
    <2>6. Joins!declared[e] = D \/ Joins!declared[e] = D \cup {e.name}
      BY <2>4
    <2>7. IsFiniteSet(Joins!declared[e]) /\ Joins!declared[e] \in SUBSET Names
      <3>1. IsFiniteSet(D \cup {e.name})
        BY <2>3, FS_AddElement
      <3>2. QED BY <2>1, <2>2, <2>3, <2>6, <3>1
    <2>8. Joins!jumps[e] \in SUBSET (Names \X Nat)
      BY <2>1, <2>2, <2>5
    <2>9. QED BY <2>7, <2>8
  <1>2. Joins!Expressions \subseteq S
    <2> HIDE DEF S
    <2>1. QED BY <1>1, ExpressionInduction
  <1>3. QED BY <1>2

\* A child declares and jumps no more than its parent.
LEMMA ChildNames ==
    ASSUME NEW e \in Joins!Expressions, NEW i \in DOMAIN e.args
    PROVE  /\ Joins!declared[e.args[i]] \subseteq Joins!declared[e]
           /\ Joins!jumps[e.args[i]] \subseteq Joins!jumps[e]
  <1>1. Joins!declared[e] = declaredOf(Joins!declared, e) /\ Joins!jumps[e] = jumpsOf(Joins!jumps, e)
    BY DeclaredDef, JumpsDef
  <1>2. QED BY <1>1 DEF declaredOf, jumpsOf

\* A declaration is part of the body, and so is its continuation.
LEMMA Declarations ==
    \A e \in Joins!Expressions : \A name \in Joins!declared[e] :
        LET d == Joins!declaration[e][name]
        IN  /\ d \in Joins!Expressions /\ d.op = "jp" /\ d.name = name
            /\ Joins!declared[d] \subseteq Joins!declared[e]
            /\ Joins!jumps[d] \subseteq Joins!jumps[e]
  <1> DEFINE Within(d, e, name) ==
                /\ d \in Joins!Expressions /\ d.op = "jp" /\ d.name = name
                /\ Joins!declared[d] \subseteq Joins!declared[e]
                /\ Joins!jumps[d] \subseteq Joins!jumps[e]
             S == {e \in Joins!Expressions :
                     \A name \in Joins!declared[e] : Within(Joins!declaration[e][name], e, name)}
  <1>1. ASSUME NEW e \in Joins!Expressions, \A i \in DOMAIN e.args : e.args[i] \in S,
               NEW name \in Joins!declared[e]
        PROVE  Within(Joins!declaration[e][name], e, name)
    <2> DEFINE found == {i \in DOMAIN e.args : name \in Joins!declared[e.args[i]]}
    <2>1. name \in Names
      BY NamesTyped
    <2>2. Joins!declaration[e][name]
          = IF found = {} THEN e ELSE Joins!declaration[e.args[Joins!Latest(found)]][name]
      BY <2>1, DeclarationDef, ZenonT(60) DEF declarationOf
    <2>3. CASE found = {}
      <3>1. Joins!declaration[e][name] = e
        BY <2>2, <2>3
      <3>2. name \in (IF e.op = "jp" THEN {e.name} ELSE {}) \cup UNION {Joins!declared[e.args[i]] : i \in DOMAIN e.args}
        BY DeclaredDef DEF declaredOf
      <3>3. \A i \in DOMAIN e.args : name \notin Joins!declared[e.args[i]]
        BY <2>3
      <3>4. e.op = "jp" /\ e.name = name
        BY <3>2, <3>3
      <3> HIDE DEF found
      <3>5. QED BY <3>1, <3>4
    <2>4. CASE found # {}
      <3> PICK k : k = Joins!Latest(found)
        OBVIOUS
      <3>1. found = {i \in DOMAIN e.args : i \in found}
        OBVIOUS
      <3>2. k \in found /\ k \in DOMAIN e.args
        <4> HIDE DEF found
        <4>1. QED BY <2>4, <3>1, LatestChild
      <3>3. name \in Joins!declared[e.args[k]] /\ e.args[k] \in S
        BY <1>1, <3>2
      <3>4. Within(Joins!declaration[e.args[k]][name], e.args[k], name)
        BY <3>3, Zenon
      <3>5. Joins!declaration[e][name] = Joins!declaration[e.args[k]][name]
        <4> HIDE DEF found
        <4>1. QED BY <2>2, <2>4
      <3>6. Joins!declared[e.args[k]] \subseteq Joins!declared[e] /\ Joins!jumps[e.args[k]] \subseteq Joins!jumps[e]
        BY <3>2, ChildNames
      <3> HIDE DEF S, found
      <3>7. QED BY <3>4, <3>5, <3>6
    <2>5. QED BY <2>3, <2>4
  <1>2. Joins!Expressions \subseteq S
    <2>1. ASSUME NEW e \in Joins!Expressions, \A i \in DOMAIN e.args : e.args[i] \in S PROVE e \in S
      <3> HIDE DEF Within
      <3>1. \A name \in Joins!declared[e] : Within(Joins!declaration[e][name], e, name)
        BY <1>1, <2>1
      <3>2. QED BY <3>1
    <2> HIDE DEF S
    <2>2. QED BY <2>1, ExpressionInduction
  <1>3. QED BY <1>2

\* A continuation of a body is an expression that declares and jumps no more than it.
LEMMA Continuations ==
    ASSUME NEW e \in Joins!Expressions, NEW name \in Joins!declared[e]
    PROVE  /\ Joins!Continuation(e, name) \in Joins!Expressions
           /\ Joins!declared[Joins!Continuation(e, name)] \subseteq Joins!declared[e]
           /\ Joins!jumps[Joins!Continuation(e, name)] \subseteq Joins!jumps[e]
           /\ Joins!Params(e, name) \in Seq(Names)
           /\ Len(Joins!Params(e, name)) \in Nat
  <1> DEFINE d == Joins!declaration[e][name]
  <1>1. /\ d \in Joins!Expressions /\ d.op = "jp" /\ d.name = name
        /\ Joins!declared[d] \subseteq Joins!declared[e]
        /\ Joins!jumps[d] \subseteq Joins!jumps[e]
    BY Declarations
  <1> HIDE DEF d
  <1>2. 1 \in DOMAIN d.args /\ d.names \in Seq(Names) /\ d.args[1] \in Joins!Expressions
    BY <1>1, ExpressionFields DEF Joins!Shaped
  <1>3. Joins!declared[d.args[1]] \subseteq Joins!declared[d] /\ Joins!jumps[d.args[1]] \subseteq Joins!jumps[d]
    BY <1>1, <1>2, ChildNames
  <1>4. Joins!Continuation(e, name) = d.args[1] /\ Joins!Params(e, name) = d.names
    BY DEF Joins!Continuation, Joins!Params, d
  <1>5. QED BY <1>1, <1>2, <1>3, <1>4

-----------------------------------------------------------------------------
(* The functions of a body and of the continuations that are active. They  *)
(* recur into a continuation, which is no child; they end because what is  *)
(* active grows.                                                           *)

\* Expressions inside continuations, by how far the recursion still reaches: the
\* continuations that are not active come first, then the height.
Declared(whole) == Cardinality(Joins!declared[whole])
\* How far the recursion reaches inside some continuations, at a level.
Reach(whole, active, level) ==
    (Declared(whole) - Cardinality(active)) * (MAX_NODES + 1) + level
\* The pairs within a reach.
Reaching(whole, n) ==
    {p \in Joins!Expressions \X SUBSET Joins!declared[whole] :
        \E k \in 0..MAX_NODES : p[1] \in Joins!Level[k] /\ Reach(whole, p[2], k) < n}
\* No pair reaches further.
Furthest(whole) == (Declared(whole) + 1) * (MAX_NODES + 1)

\* Active continuations are counted, and entering one more adds one.
LEMMA ActiveCounts ==
    ASSUME NEW whole \in Joins!Expressions, NEW active \in SUBSET Joins!declared[whole]
    PROVE  /\ Declared(whole) \in Nat /\ Cardinality(active) \in Nat
           /\ Cardinality(active) <= Declared(whole)
           /\ \A m \in Joins!declared[whole] \ active :
                 /\ active \cup {m} \in SUBSET Joins!declared[whole]
                 /\ Cardinality(active \cup {m}) = Cardinality(active) + 1
  <1>1. IsFiniteSet(Joins!declared[whole])
    BY NamesTyped
  <1>2. IsFiniteSet(active) /\ Cardinality(active) <= Cardinality(Joins!declared[whole])
    BY <1>1, FS_Subset
  <1>3. Cardinality(active) \in Nat /\ Cardinality(Joins!declared[whole]) \in Nat
    BY <1>1, <1>2, FS_CardinalityType
  <1>4. \A m \in Joins!declared[whole] \ active : Cardinality(active \cup {m}) = Cardinality(active) + 1
    BY <1>2, FS_AddElement
  <1>5. QED BY <1>2, <1>3, <1>4 DEF Declared

\* A child and the continuation of a jump reach less far.
LEMMA ReachingSteps ==
    ASSUME NEW whole \in Joins!Expressions
    PROVE  /\ Furthest(whole) \in Nat
           /\ Reaching(whole, 0) = {}
           /\ Reaching(whole, Furthest(whole)) = Joins!Expressions \X SUBSET Joins!declared[whole]
           /\ \A n \in 1..Furthest(whole) : \A p \in Reaching(whole, n) :
                 /\ \A i \in DOMAIN p[1].args : <<p[1].args[i], p[2]>> \in Reaching(whole, n - 1)
                 /\ \A m \in Joins!declared[whole] \ p[2], c \in Joins!Expressions :
                       <<c, p[2] \cup {m}>> \in Reaching(whole, n - 1)
  <1>0. MAX_NODES \in Nat /\ {} \in SUBSET Joins!declared[whole]
    BY LimitsAssumption
  <1>1. Declared(whole) \in Nat
    BY <1>0, ActiveCounts
  <1>2. Furthest(whole) \in Nat
    BY <1>0, <1>1 DEF Furthest
  <1>3. ASSUME NEW active \in SUBSET Joins!declared[whole], NEW k \in 0..MAX_NODES
        PROVE  Reach(whole, active, k) \in Nat /\ Reach(whole, active, k) < Furthest(whole)
    <2>1. PICK x \in Nat : x = Declared(whole) - Cardinality(active) /\ x <= Declared(whole)
      BY ActiveCounts
    <2>2. x * (MAX_NODES + 1) \in Nat /\ x * (MAX_NODES + 1) <= Declared(whole) * (MAX_NODES + 1)
      BY <1>0, <1>1, <2>1
    <2>3. Furthest(whole) = Declared(whole) * (MAX_NODES + 1) + (MAX_NODES + 1)
      BY <1>0, <1>1 DEF Furthest
    <2>4. Declared(whole) * (MAX_NODES + 1) \in Nat
      BY <1>0, <1>1
    <2>5. QED BY <1>0, <2>1, <2>2, <2>3, <2>4 DEF Reach
  <1>4. Reaching(whole, 0) = {}
    BY <1>3 DEF Reaching
  <1>5. Reaching(whole, Furthest(whole)) = Joins!Expressions \X SUBSET Joins!declared[whole]
    BY <1>0, <1>3 DEF Reaching, Joins!Expressions
  <1>6. ASSUME NEW n \in 1..Furthest(whole), NEW p \in Reaching(whole, n)
        PROVE  /\ \A i \in DOMAIN p[1].args : <<p[1].args[i], p[2]>> \in Reaching(whole, n - 1)
               /\ \A m \in Joins!declared[whole] \ p[2], c \in Joins!Expressions :
                       <<c, p[2] \cup {m}>> \in Reaching(whole, n - 1)
    <2>1. PICK k \in 0..MAX_NODES : p[1] \in Joins!Level[k] /\ Reach(whole, p[2], k) < n
      BY DEF Reaching
    <2>2. p[1] \in Joins!Expressions /\ p[2] \in SUBSET Joins!declared[whole] /\ n \in Nat /\ k \in Nat
      BY <1>2, <2>1 DEF Reaching
    <2>3. ASSUME NEW i \in DOMAIN p[1].args PROVE <<p[1].args[i], p[2]>> \in Reaching(whole, n - 1)
      <3>1. k # 0 /\ p[1].args[i] \in Joins!Level[k - 1] /\ p[1].args[i] \in Joins!Expressions
        BY <2>1, <2>2, LevelFields, ExpressionFields
      <3>2. k - 1 \in 0..MAX_NODES
        BY <1>0, <3>1
      <3>3. Reach(whole, p[2], k - 1) = Reach(whole, p[2], k) - 1
        <4>1. PICK y \in Int : y = (Declared(whole) - Cardinality(p[2])) * (MAX_NODES + 1)
          BY <1>0, <2>2, ActiveCounts
        <4>2. QED BY <2>2, <4>1 DEF Reach
      <3>4. Reach(whole, p[2], k - 1) < n - 1
        BY <1>3, <2>1, <2>2, <3>2, <3>3
      <3>5. QED BY <2>2, <3>1, <3>2, <3>4 DEF Reaching
    <2>4. ASSUME NEW m \in Joins!declared[whole] \ p[2], NEW c \in Joins!Expressions
          PROVE  <<c, p[2] \cup {m}>> \in Reaching(whole, n - 1)
      <3>1. /\ p[2] \cup {m} \in SUBSET Joins!declared[whole]
            /\ Cardinality(p[2] \cup {m}) = Cardinality(p[2]) + 1
            /\ Cardinality(p[2]) \in Nat
        BY <2>2, ActiveCounts
      <3>2. PICK x \in Int : x = Declared(whole) - Cardinality(p[2])
        BY <1>1, <3>1
      <3>3. Reach(whole, p[2] \cup {m}, MAX_NODES) = (x - 1) * (MAX_NODES + 1) + MAX_NODES
        BY <1>1, <3>1, <3>2 DEF Reach
      <3>4. Reach(whole, p[2], k) = x * (MAX_NODES + 1) + k
        BY <3>2 DEF Reach
      <3>5. Reach(whole, p[2] \cup {m}, MAX_NODES) = Reach(whole, p[2], k) - k - 1
        BY <1>0, <2>2, <3>2, <3>3, <3>4
      <3>6. Reach(whole, p[2] \cup {m}, MAX_NODES) < n - 1
        BY <1>3, <2>1, <2>2, <3>5
      <3>7. MAX_NODES \in 0..MAX_NODES /\ c \in Joins!Level[MAX_NODES]
        BY <1>0 DEF Joins!Expressions
      <3>8. QED BY <3>1, <3>6, <3>7 DEF Reaching
    <2>5. QED BY <2>3, <2>4
  <1>7. QED BY <1>2, <1>4, <1>5, <1>6

\* Induction over an expression inside continuations.
LEMMA PairInduction ==
    ASSUME NEW whole \in Joins!Expressions, NEW S,
           \A e \in Joins!Expressions, active \in SUBSET Joins!declared[whole] :
              /\ \A i \in DOMAIN e.args : <<e.args[i], active>> \in S
              /\ \A m \in Joins!declared[whole] \ active, c \in Joins!Expressions :
                    <<c, active \cup {m}>> \in S
              => <<e, active>> \in S
    PROVE  \A e \in Joins!Expressions, active \in SUBSET Joins!declared[whole] : <<e, active>> \in S
  <1> DEFINE T == {n \in 0..Furthest(whole) : Reaching(whole, n) \subseteq S}
  <1>1. Furthest(whole) \in Nat
    BY ReachingSteps
  <1>2. 0 \in T
    BY <1>1, ReachingSteps
  <1>3. ASSUME NEW n \in 1..Furthest(whole), n - 1 \in T PROVE n \in T
    <2>1. ASSUME NEW p \in Reaching(whole, n) PROVE p \in S
      <3>1. p[1] \in Joins!Expressions /\ p[2] \in SUBSET Joins!declared[whole] /\ p = <<p[1], p[2]>>
        BY DEF Reaching
      <3>2. \A i \in DOMAIN p[1].args : <<p[1].args[i], p[2]>> \in S
        BY <1>3, ReachingSteps
      <3>3. \A m \in Joins!declared[whole] \ p[2], c \in Joins!Expressions : <<c, p[2] \cup {m}>> \in S
        BY <1>3, ReachingSteps
      <3>4. <<p[1], p[2]>> \in S
        BY <3>1, <3>2, <3>3
      <3>5. QED BY <3>1, <3>4
    <2>2. QED BY <2>1
  <1>4. Furthest(whole) \in T
    <2> HIDE DEF T
    <2>1. 0..Furthest(whole) \subseteq T
      BY <1>1, <1>2, <1>3, RangeInduction
    <2>2. QED BY <1>1, <2>1
  <1>5. Joins!Expressions \X SUBSET Joins!declared[whole] \subseteq S
    BY <1>4, ReachingSteps
  <1>6. QED BY <1>5

\* Cardinality is the same operator inside the instance.
LEMMA SameCardinality == \A S : Joins!Cardinality(S) = Cardinality(S)
  BY DEF Joins!Cardinality, Cardinality

\* The equations of the three functions of a body and the active continuations. The
\* cost (cost).
measuredOf(whole, h, e, active) ==
    LET args == Joins!Evaluated([i \in DOMAIN e.args |-> h[active][e.args[i]]])
    IN  IF e.op = "jmp" /\ e.name \in Joins!declared[whole]
          THEN IF Len(Joins!Params(whole, e.name)) # Len(e.args) \/ e.name \in active
                 THEN Joins!Failed("UnsupportedJoinPoint")
               ELSE IF Joins!Cardinality(active) >= MAX_DEPTH
                 THEN Joins!Failed("JoinExpansionLimit")
                 ELSE Joins!AddAll(Joins!Jump(h[active \cup {e.name}][Joins!Continuation(whole, e.name)],
                                              Joins!Params(whole, e.name)), args)
        ELSE IF e.op = "jp"
          THEN IF Joins!HasJumps(whole, e.name) THEN Joins!Measured(1, 0) ELSE args[1]
          ELSE Joins!AddAll(Joins!Measured(1, 0), args)

\* The expansion (expression).
expandedOf(whole, h, e, active) ==
    LET args == Joins!Evaluated([i \in DOMAIN e.args |-> h[active][e.args[i]]])
    IN  IF e.op = "jmp" /\ e.name \in Joins!declared[whole]
          THEN IF Len(Joins!Params(whole, e.name)) # Len(e.args) \/ e.name \in active
                 THEN e
                 ELSE Joins!Bind(Joins!Params(whole, e.name), args,
                                 h[active \cup {e.name}][Joins!Continuation(whole, e.name)])
        ELSE IF e.op = "jp"
          THEN IF Joins!HasJumps(whole, e.name) THEN Joins!Unit ELSE args[1]
          ELSE [e EXCEPT !.args = args]

\* The nesting of continuations.
nestingOf(whole, h, e, active) ==
    LET below == Joins!Highest(Joins!Evaluated([i \in DOMAIN e.args |-> h[active][e.args[i]]]))
    IN  IF e.op = "jmp" /\ e.name \in Joins!declared[whole] \ active
          THEN Joins!Larger(1 + h[active \cup {e.name}][Joins!Continuation(whole, e.name)], below)
        ELSE IF e.op = "jp" /\ Joins!HasJumps(whole, e.name) THEN 0
        ELSE below

\* The equation of the cost looks at the children and, inside one continuation more, at
\* the continuation jumped to.
LEMMA CostLocal ==
    ASSUME NEW whole, NEW e, NEW active, NEW g, NEW h,
           \A i \in DOMAIN e.args : g[active][e.args[i]] = h[active][e.args[i]],
           e.op = "jmp" /\ e.name \in Joins!declared[whole] /\ e.name \notin active =>
              g[active \cup {e.name}][Joins!Continuation(whole, e.name)]
                = h[active \cup {e.name}][Joins!Continuation(whole, e.name)]
    PROVE  measuredOf(whole, g, e, active) = measuredOf(whole, h, e, active)
  <1>1. [i \in DOMAIN e.args |-> g[active][e.args[i]]] = [i \in DOMAIN e.args |-> h[active][e.args[i]]]
    OBVIOUS
  <1>2. QED BY <1>1 DEF measuredOf

\* The cost is what its equation says: the recursion ends, as each jump enters a
\* continuation that is not active.
LEMMA CostDef ==
    ASSUME NEW whole \in Joins!Expressions
    PROVE  \A e \in Joins!Expressions, active \in SUBSET Joins!declared[whole] :
              Joins!cost(whole)[active][e] = measuredOf(whole, Joins!cost(whole), e, active)
  <1> DEFINE D == SUBSET Joins!declared[whole]
             Round(h) == [active \in D |-> [e \in Joins!Expressions |-> measuredOf(whole, h, e, active)]]
             Below(n, e, active) == <<e, active>> \in Reaching(whole, n)
             S == {n \in 0..Furthest(whole) : \E h : \A e \in Joins!Expressions, active \in D :
                      Below(n, e, active) => h[active][e] = measuredOf(whole, h, e, active)}
  <1>1. ASSUME NEW n \in 1..Furthest(whole), n - 1 \in S PROVE n \in S
    <2>1. PICK h : \A e \in Joins!Expressions, active \in D :
                      Below(n - 1, e, active) => h[active][e] = measuredOf(whole, h, e, active)
      BY <1>1
    <2>2. \A e \in Joins!Expressions, active \in D : Round(h)[active][e] = measuredOf(whole, h, e, active)
      OBVIOUS
    <2> HIDE DEF Round
    <2>3. ASSUME NEW e \in Joins!Expressions, NEW active \in D, Below(n, e, active)
          PROVE  Round(h)[active][e] = measuredOf(whole, Round(h), e, active)
      <3>1. \A i \in DOMAIN e.args : e.args[i] \in Joins!Expressions /\ Below(n - 1, e.args[i], active)
        BY <2>3, ReachingSteps, ExpressionFields
      <3>2. \A i \in DOMAIN e.args : Round(h)[active][e.args[i]] = h[active][e.args[i]]
        <4> HIDE DEF Below, D
        <4>1. QED BY <2>1, <2>2, <2>3, <3>1
      <3>3. ASSUME NEW m \in Joins!declared[whole], m \notin active
            PROVE  Round(h)[active \cup {m}][Joins!Continuation(whole, m)] = h[active \cup {m}][Joins!Continuation(whole, m)]
        <4>1. Joins!Continuation(whole, m) \in Joins!Expressions /\ active \cup {m} \in D
          BY Continuations
        <4>2. Below(n - 1, Joins!Continuation(whole, m), active \cup {m})
          <5>1. m \in Joins!declared[whole] \ active
            BY <3>3
          <5>2. QED BY <2>3, <4>1, <5>1, ReachingSteps
        <4> HIDE DEF Below, D
        <4>3. QED BY <2>1, <2>2, <4>1, <4>2
      <3>4. measuredOf(whole, Round(h), e, active) = measuredOf(whole, h, e, active)
        BY <3>2, <3>3, CostLocal
      <3>5. QED BY <2>2, <3>4
    <2>4. QED BY <2>3
  <1>2. Furthest(whole) \in Nat
    BY ReachingSteps
  <1>3. 0 \in S
    BY <1>2, ReachingSteps
  <1>4. Furthest(whole) \in S
    <2> HIDE DEF S
    <2>1. 0..Furthest(whole) \subseteq S
      BY <1>1, <1>2, <1>3, RangeInduction
    <2>2. QED BY <1>2, <2>1
  <1>5. PICK h : \A e \in Joins!Expressions, active \in D : h[active][e] = measuredOf(whole, h, e, active)
    <2>1. \A e \in Joins!Expressions, active \in D : Below(Furthest(whole), e, active)
      BY ReachingSteps
    <2>2. QED BY <1>4, <2>1
  <1>6. Round(h) = Round(Round(h))
    <2>1. \A e \in Joins!Expressions, active \in D : Round(h)[active][e] = h[active][e]
      BY <1>5
    <2> HIDE DEF Round
    <2>2. ASSUME NEW e \in Joins!Expressions, NEW active \in D
          PROVE  measuredOf(whole, h, e, active) = measuredOf(whole, Round(h), e, active)
      <3>1. \A i \in DOMAIN e.args : Round(h)[active][e.args[i]] = h[active][e.args[i]]
        BY <2>1, ExpressionFields
      <3>2. ASSUME NEW m \in Joins!declared[whole], m \notin active
            PROVE  Round(h)[active \cup {m}][Joins!Continuation(whole, m)] = h[active \cup {m}][Joins!Continuation(whole, m)]
        <4>1. Joins!Continuation(whole, m) \in Joins!Expressions /\ active \cup {m} \in D
          BY Continuations
        <4> HIDE DEF D
        <4>2. QED BY <2>1, <4>1
      <3>3. QED BY <3>1, <3>2, CostLocal
    <2> USE DEF Round
    <2>3. QED BY <2>2
  <1>7. Joins!cost(whole) = Round(Joins!cost(whole))
    <2>1. \E f : f = Round(f)
      BY <1>6
    <2>2. Joins!cost(whole) = CHOOSE f : f = Round(f)
      BY DEF Joins!cost, measuredOf
    <2> HIDE DEF Round
    <2>3. QED BY <2>1, <2>2
  <1>8. QED BY <1>7

\* The equation of the expansion looks no further than that of the cost.
LEMMA ExpandedLocal ==
    ASSUME NEW whole, NEW e, NEW active, NEW g, NEW h,
           \A i \in DOMAIN e.args : g[active][e.args[i]] = h[active][e.args[i]],
           e.op = "jmp" /\ e.name \in Joins!declared[whole] /\ e.name \notin active =>
              g[active \cup {e.name}][Joins!Continuation(whole, e.name)]
                = h[active \cup {e.name}][Joins!Continuation(whole, e.name)]
    PROVE  expandedOf(whole, g, e, active) = expandedOf(whole, h, e, active)
  <1>1. [i \in DOMAIN e.args |-> g[active][e.args[i]]] = [i \in DOMAIN e.args |-> h[active][e.args[i]]]
    OBVIOUS
  <1>2. QED BY <1>1 DEF expandedOf

\* The expansion is what its equation says.
LEMMA ExpandedDef ==
    ASSUME NEW whole \in Joins!Expressions
    PROVE  \A e \in Joins!Expressions, active \in SUBSET Joins!declared[whole] :
              Joins!expression(whole)[active][e] = expandedOf(whole, Joins!expression(whole), e, active)
  <1> DEFINE D == SUBSET Joins!declared[whole]
             Round(h) == [active \in D |-> [e \in Joins!Expressions |-> expandedOf(whole, h, e, active)]]
             Below(n, e, active) == <<e, active>> \in Reaching(whole, n)
             S == {n \in 0..Furthest(whole) : \E h : \A e \in Joins!Expressions, active \in D :
                      Below(n, e, active) => h[active][e] = expandedOf(whole, h, e, active)}
  <1>1. ASSUME NEW n \in 1..Furthest(whole), n - 1 \in S PROVE n \in S
    <2>1. PICK h : \A e \in Joins!Expressions, active \in D :
                      Below(n - 1, e, active) => h[active][e] = expandedOf(whole, h, e, active)
      BY <1>1
    <2>2. \A e \in Joins!Expressions, active \in D : Round(h)[active][e] = expandedOf(whole, h, e, active)
      OBVIOUS
    <2> HIDE DEF Round
    <2>3. ASSUME NEW e \in Joins!Expressions, NEW active \in D, Below(n, e, active)
          PROVE  Round(h)[active][e] = expandedOf(whole, Round(h), e, active)
      <3>1. \A i \in DOMAIN e.args : e.args[i] \in Joins!Expressions /\ Below(n - 1, e.args[i], active)
        BY <2>3, ReachingSteps, ExpressionFields
      <3>2. \A i \in DOMAIN e.args : Round(h)[active][e.args[i]] = h[active][e.args[i]]
        <4> HIDE DEF Below, D
        <4>1. QED BY <2>1, <2>2, <2>3, <3>1
      <3>3. ASSUME NEW m \in Joins!declared[whole], m \notin active
            PROVE  Round(h)[active \cup {m}][Joins!Continuation(whole, m)] = h[active \cup {m}][Joins!Continuation(whole, m)]
        <4>1. Joins!Continuation(whole, m) \in Joins!Expressions /\ active \cup {m} \in D
          BY Continuations
        <4>2. Below(n - 1, Joins!Continuation(whole, m), active \cup {m})
          <5>1. m \in Joins!declared[whole] \ active
            BY <3>3
          <5>2. QED BY <2>3, <4>1, <5>1, ReachingSteps
        <4> HIDE DEF Below, D
        <4>3. QED BY <2>1, <2>2, <4>1, <4>2
      <3>4. expandedOf(whole, Round(h), e, active) = expandedOf(whole, h, e, active)
        BY <3>2, <3>3, ExpandedLocal
      <3>5. QED BY <2>2, <3>4
    <2>4. QED BY <2>3
  <1>2. Furthest(whole) \in Nat
    BY ReachingSteps
  <1>3. 0 \in S
    BY <1>2, ReachingSteps
  <1>4. Furthest(whole) \in S
    <2> HIDE DEF S
    <2>1. 0..Furthest(whole) \subseteq S
      BY <1>1, <1>2, <1>3, RangeInduction
    <2>2. QED BY <1>2, <2>1
  <1>5. PICK h : \A e \in Joins!Expressions, active \in D : h[active][e] = expandedOf(whole, h, e, active)
    <2>1. \A e \in Joins!Expressions, active \in D : Below(Furthest(whole), e, active)
      BY ReachingSteps
    <2>2. QED BY <1>4, <2>1
  <1>6. Round(h) = Round(Round(h))
    <2>1. \A e \in Joins!Expressions, active \in D : Round(h)[active][e] = h[active][e]
      BY <1>5
    <2> HIDE DEF Round
    <2>2. ASSUME NEW e \in Joins!Expressions, NEW active \in D
          PROVE  expandedOf(whole, h, e, active) = expandedOf(whole, Round(h), e, active)
      <3>1. \A i \in DOMAIN e.args : Round(h)[active][e.args[i]] = h[active][e.args[i]]
        BY <2>1, ExpressionFields
      <3>2. ASSUME NEW m \in Joins!declared[whole], m \notin active
            PROVE  Round(h)[active \cup {m}][Joins!Continuation(whole, m)] = h[active \cup {m}][Joins!Continuation(whole, m)]
        <4>1. Joins!Continuation(whole, m) \in Joins!Expressions /\ active \cup {m} \in D
          BY Continuations
        <4> HIDE DEF D
        <4>2. QED BY <2>1, <4>1
      <3>3. QED BY <3>1, <3>2, ExpandedLocal
    <2> USE DEF Round
    <2>3. QED BY <2>2
  <1>7. Joins!expression(whole) = Round(Joins!expression(whole))
    <2>1. \E f : f = Round(f)
      BY <1>6
    <2>2. Joins!expression(whole) = CHOOSE f : f = Round(f)
      BY DEF Joins!expression, expandedOf
    <2> HIDE DEF Round
    <2>3. QED BY <2>1, <2>2
  <1>8. QED BY <1>7

\* The equation of the nesting looks no further than that of the cost.
LEMMA NestingLocal ==
    ASSUME NEW whole, NEW e, NEW active, NEW g, NEW h,
           \A i \in DOMAIN e.args : g[active][e.args[i]] = h[active][e.args[i]],
           e.op = "jmp" /\ e.name \in Joins!declared[whole] /\ e.name \notin active =>
              g[active \cup {e.name}][Joins!Continuation(whole, e.name)]
                = h[active \cup {e.name}][Joins!Continuation(whole, e.name)]
    PROVE  nestingOf(whole, g, e, active) = nestingOf(whole, h, e, active)
  <1>1. [i \in DOMAIN e.args |-> g[active][e.args[i]]] = [i \in DOMAIN e.args |-> h[active][e.args[i]]]
    OBVIOUS
  <1>2. QED BY <1>1 DEF nestingOf

\* The nesting is what its equation says.
LEMMA NestingDef ==
    ASSUME NEW whole \in Joins!Expressions
    PROVE  \A e \in Joins!Expressions, active \in SUBSET Joins!declared[whole] :
              Joins!Nesting(whole)[active][e] = nestingOf(whole, Joins!Nesting(whole), e, active)
  <1> DEFINE D == SUBSET Joins!declared[whole]
             Round(h) == [active \in D |-> [e \in Joins!Expressions |-> nestingOf(whole, h, e, active)]]
             Below(n, e, active) == <<e, active>> \in Reaching(whole, n)
             S == {n \in 0..Furthest(whole) : \E h : \A e \in Joins!Expressions, active \in D :
                      Below(n, e, active) => h[active][e] = nestingOf(whole, h, e, active)}
  <1>1. ASSUME NEW n \in 1..Furthest(whole), n - 1 \in S PROVE n \in S
    <2>1. PICK h : \A e \in Joins!Expressions, active \in D :
                      Below(n - 1, e, active) => h[active][e] = nestingOf(whole, h, e, active)
      BY <1>1
    <2>2. \A e \in Joins!Expressions, active \in D : Round(h)[active][e] = nestingOf(whole, h, e, active)
      OBVIOUS
    <2> HIDE DEF Round
    <2>3. ASSUME NEW e \in Joins!Expressions, NEW active \in D, Below(n, e, active)
          PROVE  Round(h)[active][e] = nestingOf(whole, Round(h), e, active)
      <3>1. \A i \in DOMAIN e.args : e.args[i] \in Joins!Expressions /\ Below(n - 1, e.args[i], active)
        BY <2>3, ReachingSteps, ExpressionFields
      <3>2. \A i \in DOMAIN e.args : Round(h)[active][e.args[i]] = h[active][e.args[i]]
        <4> HIDE DEF Below, D
        <4>1. QED BY <2>1, <2>2, <2>3, <3>1
      <3>3. ASSUME NEW m \in Joins!declared[whole], m \notin active
            PROVE  Round(h)[active \cup {m}][Joins!Continuation(whole, m)] = h[active \cup {m}][Joins!Continuation(whole, m)]
        <4>1. Joins!Continuation(whole, m) \in Joins!Expressions /\ active \cup {m} \in D
          BY Continuations
        <4>2. Below(n - 1, Joins!Continuation(whole, m), active \cup {m})
          <5>1. m \in Joins!declared[whole] \ active
            BY <3>3
          <5>2. QED BY <2>3, <4>1, <5>1, ReachingSteps
        <4> HIDE DEF Below, D
        <4>3. QED BY <2>1, <2>2, <4>1, <4>2
      <3>4. nestingOf(whole, Round(h), e, active) = nestingOf(whole, h, e, active)
        BY <3>2, <3>3, NestingLocal
      <3>5. QED BY <2>2, <3>4
    <2>4. QED BY <2>3
  <1>2. Furthest(whole) \in Nat
    BY ReachingSteps
  <1>3. 0 \in S
    BY <1>2, ReachingSteps
  <1>4. Furthest(whole) \in S
    <2> HIDE DEF S
    <2>1. 0..Furthest(whole) \subseteq S
      BY <1>1, <1>2, <1>3, RangeInduction
    <2>2. QED BY <1>2, <2>1
  <1>5. PICK h : \A e \in Joins!Expressions, active \in D : h[active][e] = nestingOf(whole, h, e, active)
    <2>1. \A e \in Joins!Expressions, active \in D : Below(Furthest(whole), e, active)
      BY ReachingSteps
    <2>2. QED BY <1>4, <2>1
  <1>6. Round(h) = Round(Round(h))
    <2>1. \A e \in Joins!Expressions, active \in D : Round(h)[active][e] = h[active][e]
      BY <1>5
    <2> HIDE DEF Round
    <2>2. ASSUME NEW e \in Joins!Expressions, NEW active \in D
          PROVE  nestingOf(whole, h, e, active) = nestingOf(whole, Round(h), e, active)
      <3>1. \A i \in DOMAIN e.args : Round(h)[active][e.args[i]] = h[active][e.args[i]]
        BY <2>1, ExpressionFields
      <3>2. ASSUME NEW m \in Joins!declared[whole], m \notin active
            PROVE  Round(h)[active \cup {m}][Joins!Continuation(whole, m)] = h[active \cup {m}][Joins!Continuation(whole, m)]
        <4>1. Joins!Continuation(whole, m) \in Joins!Expressions /\ active \cup {m} \in D
          BY Continuations
        <4> HIDE DEF D
        <4>2. QED BY <2>1, <4>1
      <3>3. QED BY <3>1, <3>2, NestingLocal
    <2> USE DEF Round
    <2>3. QED BY <2>2
  <1>7. Joins!Nesting(whole) = Round(Joins!Nesting(whole))
    <2>1. \E f : f = Round(f)
      BY <1>6
    <2>2. Joins!Nesting(whole) = CHOOSE f : f = Round(f)
      BY DEF Joins!Nesting, nestingOf
    <2> HIDE DEF Round
    <2>3. QED BY <2>1, <2>2
  <1>8. QED BY <1>7

-----------------------------------------------------------------------------
(* Sizes.                                                                  *)

\* The sizes of the first arguments together.
Totals(T, args) ==
    /\ T \in [0..Len(args) -> Nat] /\ T[0] = 0
    /\ \A i \in 1..Len(args) : T[i] = T[i - 1] + Joins!Nodes[args[i]]

\* Sizes are positive numbers.
LEMMA NodesTyped == \A e \in Joins!Expressions : Joins!Nodes[e] \in Nat \ {0}
  <1> DEFINE S == {e \in Joins!Expressions : Joins!Nodes[e] \in Nat \ {0}}
  <1>1. ASSUME NEW e \in Joins!Expressions, \A i \in DOMAIN e.args : e.args[i] \in S PROVE e \in S
    <2> DEFINE sizes == [i \in DOMAIN e.args |-> Joins!Nodes[e.args[i]]]
    <2>1. Len(e.args) \in Nat /\ DOMAIN e.args = 1..Len(e.args)
      BY ExpressionFields
    <2>2. sizes = [i \in 1..Len(e.args) |-> sizes[i]] /\ \A i \in 1..Len(e.args) : sizes[i] \in Nat
      BY <1>1, <2>1
    <2>3. Joins!Nodes[e] = 1 + Joins!Sum(Joins!Evaluated(sizes))
      BY NodesDef DEF NodesOf
    <2> HIDE DEF sizes
    <2>4. Joins!Evaluated(sizes) = sizes
      BY <2>1, <2>2, EvaluatedIs
    <2>5. sizes \in Seq(Nat)
      <3>1. sizes \in [1..Len(e.args) -> Nat]
        BY <2>2
      <3>2. QED BY <2>1, <3>1
    <2>6. Joins!Sum(sizes) \in Nat
      <3>1. PICK total \in [0..Len(sizes) -> Nat] : Joins!Sum(sizes) = total[Len(sizes)]
        BY <2>5, SumUnfold
      <3>2. Len(sizes) \in 0..Len(sizes)
        BY <2>5
      <3>3. QED BY <3>1, <3>2
    <2>7. QED BY <2>3, <2>4, <2>6
  <1>2. Joins!Expressions \subseteq S
    <2> HIDE DEF S
    <2>1. QED BY <1>1, ExpressionInduction
  <1>3. QED BY <1>2

\* The size is one more than the sizes of the arguments together.
LEMMA NodesUnfold ==
    ASSUME NEW e \in Joins!Expressions
    PROVE  \E T : Totals(T, e.args) /\ Joins!Nodes[e] = 1 + T[Len(e.args)]
  <1> DEFINE sizes == [i \in DOMAIN e.args |-> Joins!Nodes[e.args[i]]]
  <1>1. Len(e.args) \in Nat /\ DOMAIN e.args = 1..Len(e.args)
    BY ExpressionFields
  <1>2. /\ sizes = [i \in 1..Len(e.args) |-> sizes[i]]
        /\ \A i \in 1..Len(e.args) : sizes[i] \in Nat /\ sizes[i] = Joins!Nodes[e.args[i]]
    <2>1. \A i \in 1..Len(e.args) : Joins!Nodes[e.args[i]] \in Nat
      BY <1>1, ExpressionFields, NodesTyped
    <2>2. QED BY <1>1, <2>1
  <1>3. Joins!Nodes[e] = 1 + Joins!Sum(Joins!Evaluated(sizes))
    BY NodesDef DEF NodesOf
  <1> HIDE DEF sizes
  <1>4. Joins!Evaluated(sizes) = sizes
    BY <1>1, <1>2, EvaluatedIs
  <1>5. sizes \in Seq(Nat) /\ Len(sizes) = Len(e.args)
    <2>1. sizes \in [1..Len(e.args) -> Nat]
      BY <1>2
    <2>2. QED BY <1>1, <2>1
  <1>6. PICK total \in [0..Len(sizes) -> Nat] :
              /\ total[0] = 0
              /\ \A i \in 1..Len(sizes) : total[i] = total[i - 1] + sizes[i]
              /\ Joins!Sum(sizes) = total[Len(sizes)]
    BY <1>5, SumUnfold
  <1>7. Totals(total, e.args) /\ Joins!Nodes[e] = 1 + total[Len(e.args)]
    BY <1>2, <1>3, <1>4, <1>5, <1>6 DEF Totals
  <1>8. QED BY <1>7

\* Totals are what they are.
LEMMA TotalsUnique ==
    ASSUME NEW args, Len(args) \in Nat, NEW T, NEW U, Totals(T, args), Totals(U, args)
    PROVE  \A i \in 0..Len(args) : T[i] = U[i]
  <1> DEFINE S == {i \in 0..Len(args) : T[i] = U[i]}
  <1>1. 0 \in S
    BY DEF Totals
  <1>2. ASSUME NEW i \in 1..Len(args), i - 1 \in S PROVE i \in S
    BY <1>2 DEF Totals
  <1>3. 0..Len(args) \subseteq S
    <2> HIDE DEF S
    <2>1. QED BY <1>1, <1>2, RangeInduction
  <1>4. QED BY <1>3

\* The distance of two series, of which one grows at least as fast, grows.
LEMMA SeriesCompare ==
    ASSUME NEW n \in Nat, NEW T \in [0..n -> Nat], NEW U \in [0..n -> Nat],
           \A i \in 1..n : T[i] - T[i - 1] <= U[i] - U[i - 1]
    PROVE  \A j \in 0..n : \A i \in 0..j : U[i] - T[i] <= U[j] - T[j]
  <1> DEFINE S == {j \in 0..n : \A i \in 0..j : U[i] - T[i] <= U[j] - T[j]}
  <1>1. 0 \in S
    BY 0 \in 0..n
  <1>2. ASSUME NEW j \in 1..n, j - 1 \in S PROVE j \in S
    <2>1. j - 1 \in 0..n /\ j \in 0..n
      OBVIOUS
    <2>2. T[j] \in Nat /\ T[j - 1] \in Nat /\ U[j] \in Nat /\ U[j - 1] \in Nat
      BY <2>1
    <2>3. T[j] - T[j - 1] <= U[j] - U[j - 1]
      OBVIOUS
    <2>4. U[j - 1] - T[j - 1] <= U[j] - T[j]
      BY <2>2, <2>3
    <2>5. ASSUME NEW i \in 0..j PROVE U[i] - T[i] <= U[j] - T[j]
      <3>1. CASE i = j
        BY <2>2, <3>1
      <3>2. CASE i # j
        <4>1. i \in 0..(j - 1) /\ i \in 0..n
          BY <3>2
        <4>2. U[i] - T[i] <= U[j - 1] - T[j - 1] /\ U[i] \in Nat /\ T[i] \in Nat
          BY <1>2, <4>1
        <4>3. QED BY <2>2, <2>4, <4>2, SMTT(30)
      <3>3. QED BY <3>1, <3>2
    <2>6. QED BY <2>1, <2>5
  <1>3. 0..n \subseteq S
    <2> HIDE DEF S
    <2>1. QED BY <1>1, <1>2, RangeInduction
  <1>4. QED BY <1>3

\* The sizes together are at least each of them.
LEMMA TotalsGrow ==
    ASSUME NEW args, Len(args) \in Nat, NEW T, Totals(T, args),
           \A i \in 1..Len(args) : Joins!Nodes[args[i]] \in Nat
    PROVE  /\ \A j \in 0..Len(args) : \A i \in 0..j : T[i] <= T[j]
           /\ \A j \in 1..Len(args) : Joins!Nodes[args[j]] <= T[Len(args)]
  <1> DEFINE n == Len(args)
             Z == [i \in 0..n |-> 0]
  <1>1. T \in [0..n -> Nat] /\ Z \in [0..n -> Nat]
    BY DEF Totals
  <1>2. \A i \in 1..n : Z[i] - Z[i - 1] <= T[i] - T[i - 1]
    <2>1. ASSUME NEW i \in 1..n PROVE Z[i] - Z[i - 1] <= T[i] - T[i - 1]
      <3>1. i \in 0..n /\ i - 1 \in 0..n
        OBVIOUS
      <3>2. T[i] = T[i - 1] + Joins!Nodes[args[i]] /\ T[i - 1] \in Nat /\ Z[i] = 0 /\ Z[i - 1] = 0
        BY <1>1, <3>1 DEF Totals
      <3> HIDE DEF Z, n
      <3>3. QED BY <3>2 DEF n
    <2>2. QED BY <2>1
  <1>3. \A j \in 0..n : \A i \in 0..j : T[i] - Z[i] <= T[j] - Z[j]
    <2> HIDE DEF Z
    <2>1. QED BY <1>1, <1>2, SeriesCompare
  <1>4. ASSUME NEW j \in 0..n, NEW i \in 0..j PROVE T[i] <= T[j]
    <2>1. i \in 0..n /\ T[i] \in Nat /\ T[j] \in Nat /\ Z[i] = 0 /\ Z[j] = 0
      BY <1>1, SMTT(30)
    <2> HIDE DEF Z
    <2>2. T[i] - Z[i] <= T[j] - Z[j]
      BY <1>3
    <2>3. QED BY <2>1, <2>2
  <1>5. ASSUME NEW j \in 1..n PROVE Joins!Nodes[args[j]] <= T[n]
    <2>1. j - 1 \in 0..n /\ j \in 0..n /\ n \in 0..n /\ j \in 0..n
      OBVIOUS
    <2>2. T[j] = T[j - 1] + Joins!Nodes[args[j]] /\ T[j] <= T[n] /\ T[j - 1] \in Nat /\ T[n] \in Nat /\ T[j] \in Nat
      BY <1>1, <1>4, <2>1 DEF Totals
    <2>3. QED BY <2>2
  <1>6. QED BY <1>4, <1>5

\* A child is smaller.
LEMMA ChildSmaller ==
    ASSUME NEW e \in Joins!Expressions, NEW i \in DOMAIN e.args
    PROVE  Joins!Nodes[e.args[i]] < Joins!Nodes[e]
  <1>1. PICK T : Totals(T, e.args) /\ Joins!Nodes[e] = 1 + T[Len(e.args)]
    BY NodesUnfold
  <1>2. Len(e.args) \in Nat /\ DOMAIN e.args = 1..Len(e.args)
    BY ExpressionFields
  <1>3. \A k \in 1..Len(e.args) : Joins!Nodes[e.args[k]] \in Nat
    BY <1>2, ExpressionFields, NodesTyped
  <1>4. Joins!Nodes[e.args[i]] <= T[Len(e.args)] /\ T[Len(e.args)] \in Nat
    BY <1>1, <1>2, <1>3, TotalsGrow DEF Totals
  <1>5. QED BY <1>1, <1>2, <1>3, <1>4

\* The longest path of an expression is no longer than its size.
LEMMA SmallIsLow == \A e \in Joins!Expressions : \A n \in Nat : Joins!Nodes[e] <= n => e \in Joins!Level[n]
  <1> DEFINE S == {e \in Joins!Expressions : \A n \in Nat : Joins!Nodes[e] <= n => e \in Joins!Level[n]}
  <1>1. ASSUME NEW e \in Joins!Expressions, \A i \in DOMAIN e.args : e.args[i] \in S PROVE e \in S
    <2>1. ASSUME NEW n \in Nat, Joins!Nodes[e] <= n PROVE e \in Joins!Level[n]
      <3>1. n # 0 /\ n - 1 \in Nat
        BY <2>1, NodesTyped
      <3>2. \A i \in DOMAIN e.args : Joins!Nodes[e.args[i]] <= n - 1
        BY <2>1, ChildSmaller, NodesTyped, ExpressionFields
      <3>3. \A i \in DOMAIN e.args : e.args[i] \in Joins!Level[n - 1]
        BY <1>1, <3>1, <3>2
      <3>4. e.args \in Seq(Joins!Level[n - 1])
        <4>1. e.args \in Seq(Joins!Expressions)
          BY ExpressionFields
        <4>2. e.args = [i \in 1..Len(e.args) |-> e.args[i]] /\ DOMAIN e.args = 1..Len(e.args) /\ Len(e.args) \in Nat
          BY <4>1
        <4>3. QED BY <3>3, <4>2
      <3>5. QED BY <3>1, <3>4, LevelMember, ExpressionFields
    <2>2. QED BY <2>1
  <1>2. Joins!Expressions \subseteq S
    <2> HIDE DEF S
    <2>1. QED BY <1>1, ExpressionInduction
  <1>3. QED BY <1>2

\* What has expressions as children that are small enough is an expression.
LEMMA MakeExpression ==
    ASSUME NEW e, e.op \in Joins!Operators, e.name \in Names, e.names \in Seq(Names),
           e.args \in Seq(Joins!Expressions), Joins!Shaped(e),
           e = [op |-> e.op, name |-> e.name, names |-> e.names, args |-> e.args],
           \A i \in DOMAIN e.args : Joins!Nodes[e.args[i]] < MAX_NODES
    PROVE  e \in Joins!Expressions
  <1>1. MAX_NODES \in Nat /\ MAX_NODES # 0 /\ MAX_NODES - 1 \in Nat
    BY LimitsAssumption
  <1>2. \A i \in DOMAIN e.args : e.args[i] \in Joins!Level[MAX_NODES - 1]
    <2>1. ASSUME NEW i \in DOMAIN e.args PROVE e.args[i] \in Joins!Level[MAX_NODES - 1]
      <3>1. e.args[i] \in Joins!Expressions
        OBVIOUS
      <3>2. Joins!Nodes[e.args[i]] <= MAX_NODES - 1
        BY <1>1, <3>1, NodesTyped
      <3>3. QED BY <1>1, <3>1, <3>2, SmallIsLow
    <2>2. QED BY <2>1
  <1>3. e.args \in Seq(Joins!Level[MAX_NODES - 1])
    <2>1. e.args = [i \in 1..Len(e.args) |-> e.args[i]] /\ DOMAIN e.args = 1..Len(e.args) /\ Len(e.args) \in Nat
      OBVIOUS
    <2>2. QED BY <1>2, <2>1
  <1>4. e \in Joins!Level[MAX_NODES]
    BY <1>1, <1>3, LevelMember
  <1>5. QED BY <1>4 DEF Joins!Expressions

-----------------------------------------------------------------------------
(* Costs.                                                                  *)

\* Measured is a cost.
LEMMA MeasuredIsCost == \A nodes, depth \in Nat : Joins!Measured(nodes, depth) \in Costs
  BY DEF Costs, Joins!Measured

\* An error is a cost.
LEMMA FailedIsCost ==
    Joins!Failed("JoinExpansionLimit") \in Costs /\ Joins!Failed("UnsupportedJoinPoint") \in Costs
  BY DEF Costs, Joins!Failed

\* What a sum of two costs is, by its error: within the limits both are counted in
\* full, and a limit met exactly is within it (Cost::add, Cost::require).
LEMMA AddCases ==
    ASSUME NEW left \in Costs, NEW right \in Costs
    PROVE  /\ Joins!Add(left, right).error = "none" =>
                /\ left.error = "none" /\ right.error = "none"
                /\ Joins!Add(left, right).nodes = left.nodes + right.nodes
                /\ left.nodes + right.nodes <= MAX_NODES
           /\ Joins!Add(left, right).error = "UnsupportedJoinPoint" =>
                left.error = "UnsupportedJoinPoint" \/ right.error = "UnsupportedJoinPoint"
           /\ /\ left.error = "none" /\ right.error = "none"
              /\ left.nodes + right.nodes <= MAX_NODES
              /\ left.depth <= MAX_DEPTH /\ right.depth <= MAX_DEPTH
              => /\ Joins!Add(left, right).error = "none"
                 /\ Joins!Add(left, right).nodes = left.nodes + right.nodes
                 /\ \A d \in Nat : left.depth <= d /\ right.depth <= d => Joins!Add(left, right).depth <= d
  <1>1. MAX_NODES \in Nat /\ MAX_DEPTH \in Nat
    BY LimitsAssumption
  <1>2. CASE left.error # "none"
    BY <1>2 DEF Joins!Add, Costs
  <1>3. CASE left.error = "none" /\ right.error # "none"
    BY <1>3 DEF Joins!Add, Costs
  <1>4. CASE left.error = "none" /\ right.error = "none"
    <2>1. Joins!Add(left, right) =
            IF left.nodes + right.nodes > MAX_NODES \/ Joins!Larger(left.depth, right.depth) > MAX_DEPTH
              THEN Joins!Failed("JoinExpansionLimit")
              ELSE Joins!Measured(left.nodes + right.nodes, Joins!Larger(left.depth, right.depth))
      BY <1>4 DEF Joins!Add
    <2>2. left.nodes \in Nat /\ right.nodes \in Nat /\ left.depth \in Nat /\ right.depth \in Nat
      BY DEF Costs
    <2>3. CASE left.nodes + right.nodes > MAX_NODES \/ Joins!Larger(left.depth, right.depth) > MAX_DEPTH
      <3>1. Joins!Add(left, right).error = "JoinExpansionLimit"
        BY <2>1, <2>3 DEF Joins!Failed
      <3>2. ~(left.nodes + right.nodes <= MAX_NODES /\ left.depth <= MAX_DEPTH /\ right.depth <= MAX_DEPTH)
        BY <1>1, <2>2, <2>3 DEF Joins!Larger
      <3>3. QED BY <3>1, <3>2
    <2>4. CASE ~(left.nodes + right.nodes > MAX_NODES \/ Joins!Larger(left.depth, right.depth) > MAX_DEPTH)
      <3>1. /\ Joins!Add(left, right).error = "none"
            /\ Joins!Add(left, right).nodes = left.nodes + right.nodes
            /\ Joins!Add(left, right).depth = Joins!Larger(left.depth, right.depth)
        BY <2>1, <2>4 DEF Joins!Measured
      <3>2. left.nodes + right.nodes <= MAX_NODES
        BY <1>1, <2>2, <2>4
      <3>3. \A d \in Nat : left.depth <= d /\ right.depth <= d => Joins!Larger(left.depth, right.depth) <= d
        BY <2>2 DEF Joins!Larger
      <3>4. QED BY <1>4, <3>1, <3>2, <3>3
    <2>5. QED BY <2>3, <2>4
  <1>5. QED BY <1>2, <1>3, <1>4

\* The sizes of a start and the first costs together.
CostTotals(N, start, s) ==
    /\ N \in [0..Len(s) -> Nat] /\ N[0] = start.nodes
    /\ \A i \in 1..Len(s) : N[i] = N[i - 1] + s[i].nodes

\* A sum without an error has only summands without one, and counts them all.
LEMMA AddAllNone ==
    ASSUME NEW start \in Costs, NEW s \in Seq(Costs), Joins!AddAll(start, s).error = "none",
           start.error = "none" => start.nodes <= MAX_NODES
    PROVE  /\ start.error = "none" /\ \A i \in 1..Len(s) : s[i].error = "none"
           /\ \E N : /\ CostTotals(N, start, s)
                     /\ Joins!AddAll(start, s).nodes = N[Len(s)] /\ N[Len(s)] <= MAX_NODES
  <1>0. MAX_NODES \in Nat /\ Len(s) \in Nat /\ \A i \in 1..Len(s) : s[i] \in Costs
    BY LimitsAssumption
  <1>1. PICK total \in [0..Len(s) -> Costs] :
              /\ total[0] = start
              /\ \A i \in 1..Len(s) : total[i] = Joins!Add(total[i - 1], s[i])
              /\ Joins!AddAll(start, s) = total[Len(s)]
    BY AddAllUnfold
  <1> DEFINE S == {j \in 0..Len(s) : total[j].error = "none" =>
                      /\ start.error = "none" /\ \A i \in 1..j : s[i].error = "none"
                      /\ \A i \in 1..j : total[i].nodes = total[i - 1].nodes + s[i].nodes
                      /\ total[j].nodes <= MAX_NODES}
  <1>2. 0 \in S
    BY <1>0, <1>1
  <1>3. ASSUME NEW j \in 1..Len(s), j - 1 \in S PROVE j \in S
    <2>1. total[j - 1] \in Costs /\ s[j] \in Costs /\ total[j] = Joins!Add(total[j - 1], s[j]) /\ j \in 0..Len(s)
      BY <1>0, <1>1
    <2>2. total[j].error = "none" =>
            /\ total[j - 1].error = "none" /\ s[j].error = "none"
            /\ total[j].nodes = total[j - 1].nodes + s[j].nodes
            /\ total[j].nodes <= MAX_NODES
      BY <2>1, AddCases
    <2>3. \A i \in 1..j : i = j \/ i \in 1..(j - 1)
      OBVIOUS
    <2>4. QED BY <1>3, <2>1, <2>2, <2>3
  <1>4. Len(s) \in S
    <2> HIDE DEF S
    <2>1. 0..Len(s) \subseteq S
      BY <1>0, <1>2, <1>3, RangeInduction
    <2>2. QED BY <1>0, <2>1
  <1> DEFINE N == [i \in 0..Len(s) |-> total[i].nodes]
  <1>5. CostTotals(N, start, s)
    <2>1. N \in [0..Len(s) -> Nat] /\ N[0] = start.nodes
      BY <1>0, <1>1 DEF Costs
    <2>2. \A i \in 1..Len(s) : i \in 0..Len(s) /\ i - 1 \in 0..Len(s)
      BY <1>0
    <2>3. \A i \in 1..Len(s) : N[i] = N[i - 1] + s[i].nodes
      BY <1>1, <1>4, <2>2
    <2> HIDE DEF N
    <2>4. QED BY <2>1, <2>3 DEF CostTotals
  <1>6. N[Len(s)] = total[Len(s)].nodes
    BY <1>0
  <1> HIDE DEF N
  <1>7. QED BY <1>1, <1>4, <1>5, <1>6

\* A sum is unsupported only if a summand is.
LEMMA AddAllUnsupported ==
    ASSUME NEW start \in Costs, NEW s \in Seq(Costs), start.error # "UnsupportedJoinPoint",
           \A i \in 1..Len(s) : s[i].error # "UnsupportedJoinPoint"
    PROVE  Joins!AddAll(start, s) \in Costs /\ Joins!AddAll(start, s).error # "UnsupportedJoinPoint"
  <1>0. Len(s) \in Nat /\ \A i \in 1..Len(s) : s[i] \in Costs
    OBVIOUS
  <1>1. PICK total \in [0..Len(s) -> Costs] :
              /\ total[0] = start
              /\ \A i \in 1..Len(s) : total[i] = Joins!Add(total[i - 1], s[i])
              /\ Joins!AddAll(start, s) = total[Len(s)]
    BY AddAllUnfold
  <1> DEFINE S == {j \in 0..Len(s) : total[j].error # "UnsupportedJoinPoint"}
  <1>2. 0 \in S
    BY <1>0, <1>1
  <1>3. ASSUME NEW j \in 1..Len(s), j - 1 \in S PROVE j \in S
    <2>1. total[j - 1] \in Costs /\ s[j] \in Costs /\ total[j] = Joins!Add(total[j - 1], s[j]) /\ j \in 0..Len(s)
      BY <1>0, <1>1
    <2>2. QED BY <1>3, <2>1, AddCases
  <1>4. Len(s) \in S
    <2> HIDE DEF S
    <2>1. 0..Len(s) \subseteq S
      BY <1>0, <1>2, <1>3, RangeInduction
    <2>2. QED BY <1>0, <2>1
  <1>5. QED BY <1>0, <1>1, <1>4

\* A sum of costs is a cost.
LEMMA AddAllCost ==
    ASSUME NEW start \in Costs, NEW s \in Seq(Costs)
    PROVE  Joins!AddAll(start, s) \in Costs
  <1>1. PICK total \in [0..Len(s) -> Costs] : Joins!AddAll(start, s) = total[Len(s)]
    BY AddAllUnfold
  <1>2. Len(s) \in 0..Len(s)
    OBVIOUS
  <1>3. QED BY <1>1, <1>2

\* Summands without an error, within the limits together, have a sum without one.
LEMMA AddAllAdmits ==
    ASSUME NEW start \in Costs, NEW s \in Seq(Costs), NEW N, NEW d \in Nat,
           CostTotals(N, start, s), N[Len(s)] <= MAX_NODES, d <= MAX_DEPTH,
           start.error = "none", start.depth <= d,
           \A i \in 1..Len(s) : s[i].error = "none" /\ s[i].depth <= d
    PROVE  /\ Joins!AddAll(start, s).error = "none"
           /\ Joins!AddAll(start, s).depth <= d
  <1>00. Len(s) \in Nat /\ \A i \in 1..Len(s) : s[i] \in Costs
    OBVIOUS
  <1>0. /\ MAX_NODES \in Nat /\ MAX_DEPTH \in Nat /\ Len(s) \in Nat
        /\ \A i \in 1..Len(s) : s[i] \in Costs /\ s[i].nodes \in Nat /\ s[i].depth \in Nat
        /\ start.depth \in Nat
    BY <1>00, LimitsAssumption DEF Costs
  <1>1. PICK total \in [0..Len(s) -> Costs] :
              /\ total[0] = start
              /\ \A i \in 1..Len(s) : total[i] = Joins!Add(total[i - 1], s[i])
              /\ Joins!AddAll(start, s) = total[Len(s)]
    BY AddAllUnfold
  <1>2. \A j \in 0..Len(s) : N[j] \in Nat /\ N[j] <= MAX_NODES
    <2> DEFINE Z == [i \in 0..Len(s) |-> 0]
    <2>1. Z \in [0..Len(s) -> Nat] /\ N \in [0..Len(s) -> Nat]
      BY DEF CostTotals
    <2>2. ASSUME NEW i \in 1..Len(s) PROVE Z[i] - Z[i - 1] <= N[i] - N[i - 1]
      <3>1. i \in 0..Len(s) /\ i - 1 \in 0..Len(s)
        BY <1>0
      <3>2. N[i] = N[i - 1] + s[i].nodes /\ N[i - 1] \in Nat /\ Z[i] = 0 /\ Z[i - 1] = 0 /\ s[i].nodes \in Nat
        BY <1>0, <2>1, <3>1 DEF CostTotals
      <3> HIDE DEF Z
      <3>3. QED BY <3>2
    <2>3. \A j \in 0..Len(s) : \A i \in 0..j : N[i] - Z[i] <= N[j] - Z[j]
      <3> HIDE DEF Z
      <3>1. QED BY <1>0, <2>1, <2>2, SeriesCompare
    <2>4. ASSUME NEW j \in 0..Len(s) PROVE N[j] \in Nat /\ N[j] <= MAX_NODES
      <3>1. Len(s) \in 0..Len(s) /\ j \in 0..Len(s) /\ Z[j] = 0 /\ Z[Len(s)] = 0 /\ N[j] \in Nat /\ N[Len(s)] \in Nat
        BY <1>0, <2>1, SMTT(30)
      <3> HIDE DEF Z
      <3>2. N[j] - Z[j] <= N[Len(s)] - Z[Len(s)]
        BY <2>3, <3>1
      <3>3. QED BY <1>0, <3>1, <3>2
    <2>5. QED BY <2>4
  <1> DEFINE S == {j \in 0..Len(s) : total[j].error = "none" /\ total[j].nodes = N[j] /\ total[j].depth <= d}
  <1>3. 0 \in S
    BY <1>0, <1>1 DEF CostTotals
  <1>4. ASSUME NEW j \in 1..Len(s), j - 1 \in S PROVE j \in S
    <2>1. total[j - 1] \in Costs /\ s[j] \in Costs /\ total[j] = Joins!Add(total[j - 1], s[j]) /\ j \in 0..Len(s)
      BY <1>0, <1>1, SMTT(30)
    <2>2. total[j - 1].nodes + s[j].nodes = N[j] /\ N[j] <= MAX_NODES
      BY <1>2, <1>4, <2>1 DEF CostTotals
    <2>3. total[j - 1].depth \in Nat /\ s[j].depth \in Nat
      BY <2>1 DEF Costs
    <2>4. total[j - 1].depth <= MAX_DEPTH /\ s[j].depth <= MAX_DEPTH
      BY <1>0, <1>4, <2>3
    <2>5. QED BY <1>4, <2>1, <2>2, <2>4, AddCases
  <1>5. Len(s) \in S
    <2> HIDE DEF S
    <2>1. 0..Len(s) \subseteq S
      BY <1>0, <1>3, <1>4, RangeInduction
    <2>2. QED BY <1>0, <2>1
  <1>6. QED BY <1>1, <1>5

\* What a jump adds to the cost of its continuation: a let for each parameter, one
\* level.
LEMMA JumpCases ==
    ASSUME NEW c \in Costs, NEW params, Len(params) \in Nat
    PROVE  /\ Joins!Jump(c, params) \in Costs
           /\ Joins!Jump(c, params).error = "none" =>
                /\ c.error = "none"
                /\ Joins!Jump(c, params).nodes = c.nodes + Len(params)
                /\ c.nodes + Len(params) <= MAX_NODES
           /\ Joins!Jump(c, params).error = "UnsupportedJoinPoint" => c.error = "UnsupportedJoinPoint"
           /\ c.error = "none" /\ c.nodes + Len(params) <= MAX_NODES /\ c.depth + 1 <= MAX_DEPTH =>
                /\ Joins!Jump(c, params).error = "none"
                /\ Joins!Jump(c, params).nodes = c.nodes + Len(params)
                /\ Joins!Jump(c, params).depth <= c.depth + 1
  <1> DEFINE left == [c EXCEPT !.depth = @ + 1]
             right == Joins!Measured(Len(params), 0)
  <1>1. left \in Costs /\ left.error = c.error /\ left.nodes = c.nodes /\ left.depth = c.depth + 1
    BY DEF Costs
  <1>2. right \in Costs /\ right.error = "none" /\ right.nodes = Len(params) /\ right.depth = 0
    BY DEF Costs, Joins!Measured
  <1>3. Joins!Jump(c, params) = Joins!Add(left, right)
    BY DEF Joins!Jump
  <1>4. MAX_DEPTH \in Nat /\ c.depth + 1 \in Nat
    BY LimitsAssumption DEF Costs
  <1> HIDE DEF left, right
  <1>5. Joins!Add(left, right) \in Costs
    BY <1>1, <1>2, AddIsCost
  <1>6. 0 <= c.depth + 1 /\ 0 <= MAX_DEPTH
    BY <1>4
  <1>7. QED BY <1>1, <1>2, <1>3, <1>4, <1>5, <1>6, AddCases

\* A jump has a cost.
LEMMA JumpIsCost ==
    ASSUME NEW c \in Costs, NEW params, Len(params) \in Nat
    PROVE  Joins!Jump(c, params) \in Costs
  BY JumpCases

\* A jump within the limits has a cost without error.
LEMMA JumpAdmits ==
    ASSUME NEW c \in Costs, NEW params, Len(params) \in Nat,
           c.error = "none", c.nodes + Len(params) <= MAX_NODES, c.depth + 1 <= MAX_DEPTH
    PROVE  /\ Joins!Jump(c, params).error = "none"
           /\ Joins!Jump(c, params).nodes = c.nodes + Len(params)
           /\ Joins!Jump(c, params).depth <= c.depth + 1
  BY JumpCases

-----------------------------------------------------------------------------
(* Lets around a body, which expansion puts there.                         *)

\* Arguments have sizes together.
LEMMA TotalsExist ==
    ASSUME NEW args, Len(args) \in Nat, \A i \in 1..Len(args) : Joins!Nodes[args[i]] \in Nat
    PROVE  \E T : Totals(T, args)
  <1> DEFINE G == [p \in (1..Len(args)) \X Nat |-> p[2] + Joins!Nodes[args[p[1]]]]
  <1>1. G \in Steps(Len(args), Nat)
    BY DEF Steps
  <1>2. PICK T : Follows(T, Len(args), Nat, 0, G)
    <2> HIDE DEF G
    <2>1. 0 \in Nat
      OBVIOUS
    <2>2. QED BY <1>1, <2>1, PrefixRecursion
  <1>3. ASSUME NEW i \in 1..Len(args) PROVE T[i] = T[i - 1] + Joins!Nodes[args[i]]
    <2>1. i - 1 \in 0..Len(args)
      OBVIOUS
    <2>2. <<i, T[i - 1]>> \in (1..Len(args)) \X Nat
      BY <1>2, <2>1 DEF Follows
    <2>3. QED BY <1>2, <2>2 DEF Follows
  <1>4. Totals(T, args)
    BY <1>2, <1>3 DEF Totals, Follows
  <1>5. QED BY <1>4

\* The parts of a let.
LEMMA LetFields ==
    ASSUME NEW name, NEW a, NEW b
    PROVE  /\ Joins!Let(name, a, b) = [op |-> "let", name |-> name, names |-> << >>, args |-> <<a, b>>]
           /\ Joins!Let(name, a, b).op = "let" /\ Joins!Let(name, a, b).name = name
           /\ Joins!Let(name, a, b).names = << >> /\ Joins!Let(name, a, b).args = <<a, b>>
  BY DEF Joins!Let, Joins!Node

\* The size, the join points and the jumps of a let are those of its value and its
\* body.
LEMMA LetUnfold ==
    ASSUME NEW name, NEW a, NEW b, Joins!Let(name, a, b) \in Joins!Expressions
    PROVE  /\ a \in Joins!Expressions /\ b \in Joins!Expressions
           /\ Joins!Nodes[Joins!Let(name, a, b)] = 1 + Joins!Nodes[a] + Joins!Nodes[b]
           /\ Joins!declared[Joins!Let(name, a, b)] = Joins!declared[a] \cup Joins!declared[b]
           /\ Joins!jumps[Joins!Let(name, a, b)] = Joins!jumps[a] \cup Joins!jumps[b]
  <1> PICK e : e = Joins!Let(name, a, b)
    OBVIOUS
  <1>1. e.op = "let" /\ e.args = <<a, b>> /\ e \in Joins!Expressions
    BY LetFields
  <1>2. Len(e.args) = 2 /\ DOMAIN e.args = {1, 2} /\ e.args[1] = a /\ e.args[2] = b
    BY <1>1
  <1>3. a \in Joins!Expressions /\ b \in Joins!Expressions
    BY <1>1, <1>2, ExpressionFields
  <1>4. PICK T : Totals(T, e.args) /\ Joins!Nodes[e] = 1 + T[Len(e.args)]
    BY <1>1, NodesUnfold
  <1>5. Joins!Nodes[a] \in Nat /\ Joins!Nodes[b] \in Nat
    BY <1>3, NodesTyped
  <1>6. Joins!Nodes[e] = 1 + Joins!Nodes[a] + Joins!Nodes[b]
    <2>1. T[0] = 0 /\ T[1] = T[1 - 1] + Joins!Nodes[e.args[1]] /\ T[2] = T[2 - 1] + Joins!Nodes[e.args[2]]
      <3>1. 1 \in 1..Len(e.args) /\ 2 \in 1..Len(e.args)
        BY <1>2
      <3>2. QED BY <1>4, <3>1 DEF Totals
    <2>2. 1 - 1 = 0 /\ 2 - 1 = 1
      OBVIOUS
    <2>3. T[2] = Joins!Nodes[a] + Joins!Nodes[b]
      BY <1>2, <1>5, <2>1, <2>2
    <2>4. QED BY <1>2, <1>4, <1>5, <2>3
  <1>7. Joins!declared[e] = Joins!declared[a] \cup Joins!declared[b]
    <2>1. Joins!declared[e] = declaredOf(Joins!declared, e)
      BY <1>1, DeclaredDef
    <2>2. declaredOf(Joins!declared, e) = Joins!declared[a] \cup Joins!declared[b]
      BY <1>1, <1>2 DEF declaredOf
    <2>3. QED BY <2>1, <2>2
  <1>8. Joins!jumps[e] = Joins!jumps[a] \cup Joins!jumps[b]
    <2>1. Joins!jumps[e] = jumpsOf(Joins!jumps, e)
      BY <1>1, JumpsDef
    <2>2. jumpsOf(Joins!jumps, e) = Joins!jumps[a] \cup Joins!jumps[b]
      BY <1>1, <1>2 DEF jumpsOf
    <2>3. QED BY <2>1, <2>2
  <1>9. QED BY <1>3, <1>6, <1>7, <1>8

\* A let that is small enough is an expression.
LEMMA MakeLet ==
    ASSUME NEW name \in Names, NEW a \in Joins!Expressions, NEW b \in Joins!Expressions,
           Joins!Nodes[a] + Joins!Nodes[b] + 1 <= MAX_NODES
    PROVE  Joins!Let(name, a, b) \in Joins!Expressions
  <1> PICK e : e = Joins!Let(name, a, b)
    OBVIOUS
  <1>1. /\ e = [op |-> "let", name |-> name, names |-> << >>, args |-> <<a, b>>]
        /\ e.op = "let" /\ e.name = name /\ e.names = << >> /\ e.args = <<a, b>>
    BY LetFields
  <1>2. Joins!Nodes[a] \in Nat \ {0} /\ Joins!Nodes[b] \in Nat \ {0} /\ MAX_NODES \in Nat
    BY NodesTyped, LimitsAssumption
  <1>3. /\ e.args \in Seq(Joins!Expressions) /\ Len(e.args) = 2 /\ DOMAIN e.args = {1, 2}
        /\ e.args[1] = a /\ e.args[2] = b
    BY <1>1
  <1>4. \A i \in DOMAIN e.args : Joins!Nodes[e.args[i]] < MAX_NODES
    BY <1>2, <1>3
  <1>5. e.op \in Joins!Operators /\ e.name \in Names /\ e.names \in Seq(Names) /\ Joins!Shaped(e)
    BY <1>1, <1>3 DEF Joins!Operators, Joins!Shaped
  <1>6. e = [op |-> e.op, name |-> e.name, names |-> e.names, args |-> e.args]
    BY <1>1
  <1>7. QED BY <1>3, <1>4, <1>5, <1>6, MakeExpression

\* Bindings around a body: their size, and that they add no join point and no jump.
LEMMA BindForward ==
    ASSUME NEW params, NEW args, Len(params) \in Nat, Len(args) = Len(params),
           \A i \in 1..Len(params) : params[i] \in Names /\ args[i] \in Joins!Expressions,
           NEW inner \in Joins!Expressions, NEW T, Totals(T, args),
           Joins!Nodes[inner] + Len(params) + T[Len(params)] <= MAX_NODES,
           Joins!declared[inner] = {}, Joins!jumps[inner] = {},
           \A i \in 1..Len(args) : Joins!declared[args[i]] = {} /\ Joins!jumps[args[i]] = {}
    PROVE  LET X == Joins!Bind(params, args, inner)
           IN  /\ X \in Joins!Expressions
               /\ Joins!Nodes[X] = Joins!Nodes[inner] + Len(params) + T[Len(params)]
               /\ Joins!declared[X] = {} /\ Joins!jumps[X] = {}
  <1> PICK n : n = Len(params)
    OBVIOUS
  <1>1. n \in Nat /\ MAX_NODES \in Nat /\ Joins!Nodes[inner] \in Nat
    BY LimitsAssumption, NodesTyped
  <1>2. PICK bound :
              /\ bound[0] = inner
              /\ \A i \in 1..n : bound[i] = Joins!Let(params[n - i + 1], args[n - i + 1], bound[i - 1])
              /\ Joins!Bind(params, args, inner) = bound[n]
    BY BindUnfold
  <1>3. \A i \in 1..n : args[i] \in Joins!Expressions /\ Joins!Nodes[args[i]] \in Nat /\ params[i] \in Names
    BY NodesTyped
  <1>4. /\ \A j \in 0..n : T[j] \in Nat /\ T[j] <= T[n]
        /\ \A j \in 1..n : T[j] = T[j - 1] + Joins!Nodes[args[j]]
        /\ T[0] = 0
    <2>1. \A j \in 0..n : \A i \in 0..j : T[i] <= T[j]
      BY <1>1, <1>3, TotalsGrow
    <2>2. n \in 0..n /\ \A j \in 0..n : j \in 0..n
      BY <1>1
    <2>3. QED BY <2>1, <2>2 DEF Totals
  <1> DEFINE S == {i \in 0..n :
                     /\ bound[i] \in Joins!Expressions
                     /\ Joins!Nodes[bound[i]] = Joins!Nodes[inner] + i + (T[n] - T[n - i])
                     /\ Joins!declared[bound[i]] = {} /\ Joins!jumps[bound[i]] = {}}
  <1>5. 0 \in S
    BY <1>1, <1>2, <1>4
  <1>6. ASSUME NEW i \in 1..n, i - 1 \in S PROVE i \in S
    <2> PICK k : k = n - i + 1
      OBVIOUS
    <2>1. k \in 1..n /\ n - i = k - 1 /\ n - (i - 1) = k /\ k - 1 \in 0..n /\ k \in 0..n /\ i \in 0..n
      BY <1>1
    <2>2. bound[i] = Joins!Let(params[k], args[k], bound[i - 1])
      BY <1>2
    <2>3. /\ bound[i - 1] \in Joins!Expressions
          /\ Joins!Nodes[bound[i - 1]] = Joins!Nodes[inner] + (i - 1) + (T[n] - T[k])
      BY <1>6, <2>1
    <2>4. T[k] = T[k - 1] + Joins!Nodes[args[k]] /\ T[k] \in Nat /\ T[k - 1] \in Nat /\ T[n] \in Nat
      BY <1>1, <1>4, <2>1, SMTT(30)
    <2>5. /\ Joins!Nodes[args[k]] \in Nat
          /\ Joins!Nodes[args[k]] + Joins!Nodes[bound[i - 1]] + 1 = Joins!Nodes[inner] + i + (T[n] - T[k - 1])
      <3>1. Joins!Nodes[args[k]] \in Nat
        BY <1>3, <2>1
      <3>2. Joins!Nodes[bound[i - 1]] \in Nat /\ i \in Int
        BY <2>3, NodesTyped
      <3> HIDE DEF S
      <3>3. PICK x \in Int, y \in Int, z \in Int : x = T[k] /\ y = T[k - 1] /\ z = T[n]
        BY <2>4
      <3>4. PICK a \in Int, b \in Int, m \in Int :
                a = Joins!Nodes[args[k]] /\ b = Joins!Nodes[bound[i - 1]] /\ m = Joins!Nodes[inner]
        BY <1>1, <3>1, <3>2
      <3>5. b = m + (i - 1) + (z - x)
        BY <2>3, <3>3, <3>4
      <3>6. x = y + a
        BY <2>4, <3>3, <3>4
      <3>7. a + b + 1 = m + i + (z - y)
        BY <3>2, <3>5, <3>6, SMTT(30)
      <3>8. QED BY <3>1, <3>3, <3>4, <3>7
    <2>6. Joins!Nodes[args[k]] + Joins!Nodes[bound[i - 1]] + 1 <= MAX_NODES
      <3>1. Joins!Nodes[inner] + n + T[n] <= MAX_NODES /\ i <= n /\ i \in Nat
        OBVIOUS
      <3> HIDE DEF S
      <3>2. Joins!Nodes[inner] + i + (T[n] - T[k - 1]) <= MAX_NODES
        BY <1>1, <2>4, <3>1, SMTT(30)
      <3>3. QED BY <2>5, <3>2
    <2>7. bound[i] \in Joins!Expressions
      <3>1. params[k] \in Names /\ args[k] \in Joins!Expressions
        BY <1>3, <2>1
      <3> HIDE DEF S
      <3>2. Joins!Let(params[k], args[k], bound[i - 1]) \in Joins!Expressions
        BY <2>3, <2>6, <3>1, MakeLet
      <3>3. QED BY <2>2, <3>2
    <2>8. /\ Joins!Nodes[bound[i]] = 1 + Joins!Nodes[args[k]] + Joins!Nodes[bound[i - 1]]
          /\ Joins!declared[bound[i]] = Joins!declared[args[k]] \cup Joins!declared[bound[i - 1]]
          /\ Joins!jumps[bound[i]] = Joins!jumps[args[k]] \cup Joins!jumps[bound[i - 1]]
      BY <2>2, <2>7, LetUnfold
    <2>9. Joins!Nodes[bound[i]] = Joins!Nodes[inner] + i + (T[n] - T[n - i])
      <3>1. Joins!Nodes[bound[i - 1]] \in Nat
        BY <2>3, NodesTyped
      <3>2. 1 + Joins!Nodes[args[k]] + Joins!Nodes[bound[i - 1]] = Joins!Nodes[args[k]] + Joins!Nodes[bound[i - 1]] + 1
        BY <2>5, <3>1
      <3> HIDE DEF S
      <3>3. QED BY <2>1, <2>5, <2>8, <3>2
    <2>10. Joins!declared[bound[i]] = {} /\ Joins!jumps[bound[i]] = {}
      BY <1>6, <2>1, <2>8
    <2>11. QED BY <2>1, <2>7, <2>9, <2>10
  <1>7. n \in S
    <2> HIDE DEF S
    <2>1. 0..n \subseteq S
      BY <1>1, <1>5, <1>6, RangeInduction
    <2>2. QED BY <1>1, <2>1
  <1>8. T[n - n] = 0
    BY <1>1, <1>4
  <1>9. Joins!Nodes[bound[n]] = Joins!Nodes[inner] + n + T[n]
    BY <1>1, <1>4, <1>7, <1>8
  <1>10. QED BY <1>2, <1>7, <1>9

\* What the lets bind, and around what, are expressions, and the size is that of them
\* all.
LEMMA BindBackward ==
    ASSUME NEW params, NEW args, NEW inner, Len(params) \in Nat, Len(args) = Len(params),
           Joins!Bind(params, args, inner) \in Joins!Expressions
    PROVE  /\ inner \in Joins!Expressions
           /\ \A i \in 1..Len(params) : args[i] \in Joins!Expressions
           /\ \E T : /\ Totals(T, args)
                     /\ Joins!Nodes[Joins!Bind(params, args, inner)]
                          = Joins!Nodes[inner] + Len(params) + T[Len(params)]
  <1> PICK n : n = Len(params)
    OBVIOUS
  <1>1. n \in Nat
    OBVIOUS
  <1>2. PICK bound :
              /\ bound[0] = inner
              /\ \A i \in 1..n : bound[i] = Joins!Let(params[n - i + 1], args[n - i + 1], bound[i - 1])
              /\ Joins!Bind(params, args, inner) = bound[n]
    BY BindUnfold
  <1> DEFINE D == {j \in 0..n : bound[n - j] \in Joins!Expressions}
  <1>3. 0 \in D
    BY <1>1, <1>2
  <1>4. ASSUME NEW i \in 1..n, bound[i] \in Joins!Expressions
        PROVE  bound[i - 1] \in Joins!Expressions /\ args[n - i + 1] \in Joins!Expressions
    BY <1>2, <1>4, LetUnfold
  <1>5. ASSUME NEW j \in 1..n, j - 1 \in D PROVE j \in D
    <2>1. n - (j - 1) \in 1..n /\ (n - (j - 1)) - 1 = n - j
      BY <1>1
    <2>2. bound[n - (j - 1)] \in Joins!Expressions
      BY <1>5
    <2>3. bound[(n - (j - 1)) - 1] \in Joins!Expressions
      BY <1>4, <2>1, <2>2
    <2>4. QED BY <2>1, <2>3
  <1>6. 0..n \subseteq D
    <2> HIDE DEF D
    <2>1. QED BY <1>1, <1>3, <1>5, RangeInduction
  <1>7. \A i \in 0..n : bound[i] \in Joins!Expressions
    <2>1. ASSUME NEW i \in 0..n PROVE bound[i] \in Joins!Expressions
      <3>1. n - i \in 0..n /\ n - (n - i) = i
        BY <1>1
      <3>2. n - i \in D
        BY <1>6, <3>1
      <3>3. QED BY <3>1, <3>2
    <2>2. QED BY <2>1
  <1>8. inner \in Joins!Expressions
    BY <1>1, <1>2, <1>7
  <1>9. ASSUME NEW i \in 1..n PROVE args[i] \in Joins!Expressions
    <2>1. n - i + 1 \in 1..n /\ n - (n - i + 1) + 1 = i
      BY <1>1
    <2>2. bound[n - i + 1] \in Joins!Expressions
      BY <1>7, <2>1
    <2>3. QED BY <1>4, <2>1, <2>2
  <1>10. \A i \in 1..Len(args) : Joins!Nodes[args[i]] \in Nat
    BY <1>9, NodesTyped
  <1>11. PICK T : Totals(T, args)
    BY <1>10, TotalsExist
  <1>12. /\ \A j \in 0..n : T[j] \in Nat
         /\ \A j \in 1..n : T[j] = T[j - 1] + Joins!Nodes[args[j]]
         /\ T[0] = 0 /\ Joins!Nodes[inner] \in Nat
    BY <1>8, <1>11, NodesTyped DEF Totals
  <1> DEFINE S == {i \in 0..n : Joins!Nodes[bound[i]] = Joins!Nodes[inner] + i + (T[n] - T[n - i])}
  <1>13. 0 \in S
    BY <1>1, <1>2, <1>12
  <1>14. ASSUME NEW i \in 1..n, i - 1 \in S PROVE i \in S
    <2> PICK k : k = n - i + 1
      OBVIOUS
    <2>1. k \in 1..n /\ n - i = k - 1 /\ n - (i - 1) = k /\ k - 1 \in 0..n /\ k \in 0..n /\ i \in 0..n /\ i - 1 \in 0..n
      BY <1>1
    <2>2. bound[i] = Joins!Let(params[k], args[k], bound[i - 1]) /\ bound[i] \in Joins!Expressions
      BY <1>2, <1>7, <2>1
    <2>3. Joins!Nodes[bound[i]] = 1 + Joins!Nodes[args[k]] + Joins!Nodes[bound[i - 1]]
      BY <2>2, LetUnfold
    <2>4. Joins!Nodes[bound[i - 1]] = Joins!Nodes[inner] + (i - 1) + (T[n] - T[k])
      BY <1>14, <2>1
    <2>5. T[k] = T[k - 1] + Joins!Nodes[args[k]] /\ T[k] \in Nat /\ T[k - 1] \in Nat /\ T[n] \in Nat
      BY <1>1, <1>12, <2>1
    <2>6. Joins!Nodes[args[k]] \in Nat /\ Joins!Nodes[inner] \in Nat
      BY <1>8, <1>9, <2>1, NodesTyped
    <2>7. Joins!Nodes[bound[i]] = Joins!Nodes[inner] + i + (T[n] - T[k - 1])
      <3>1. i \in Nat
        OBVIOUS
      <3>2. Joins!Nodes[bound[i - 1]] \in Nat /\ i \in Int
        BY <1>7, <2>1, NodesTyped
      <3> HIDE DEF S, D
      <3>3. PICK x \in Int, y \in Int, z \in Int : x = T[k] /\ y = T[k - 1] /\ z = T[n]
        BY <2>5
      <3>4. PICK a \in Int, b \in Int, m \in Int :
                a = Joins!Nodes[args[k]] /\ b = Joins!Nodes[bound[i - 1]] /\ m = Joins!Nodes[inner]
        BY <2>6, <3>2
      <3>5. b = m + (i - 1) + (z - x)
        BY <2>4, <3>3, <3>4
      <3>6. x = y + a
        BY <2>5, <3>3, <3>4
      <3>7. 1 + a + b = m + i + (z - y)
        BY <3>2, <3>5, <3>6
      <3>8. QED BY <2>3, <3>3, <3>4, <3>7
    <2>8. QED BY <2>1, <2>7
  <1>15. n \in S
    <2> HIDE DEF S
    <2>1. 0..n \subseteq S
      BY <1>1, <1>13, <1>14, RangeInduction
    <2>2. QED BY <1>1, <2>1
  <1>16. T[n - n] = 0 /\ n \in 0..n
    BY <1>1, <1>12
  <1>17. Joins!Nodes[bound[n]] = Joins!Nodes[inner] + n + T[n]
    BY <1>1, <1>12, <1>15, <1>16
  <1>18. QED BY <1>2, <1>8, <1>9, <1>11, <1>17

-----------------------------------------------------------------------------
(* Cost, expansion and nesting, case by case.                              *)

\* What a function of the active continuations has for the arguments of e.
ArgsAt(h, e, active) == [i \in DOMAIN e.args |-> h[active][e.args[i]]]

\* They are as many as the arguments.
LEMMA ArgsEvaluated ==
    ASSUME NEW e \in Joins!Expressions, NEW h, NEW active
    PROVE  /\ Joins!Evaluated(ArgsAt(h, e, active)) = ArgsAt(h, e, active)
           /\ DOMAIN ArgsAt(h, e, active) = 1..Len(e.args)
           /\ Len(ArgsAt(h, e, active)) = Len(e.args)
           /\ \A i \in 1..Len(e.args) : ArgsAt(h, e, active)[i] = h[active][e.args[i]]
  <1> PICK f : f = ArgsAt(h, e, active)
    OBVIOUS
  <1>1. Len(e.args) \in Nat /\ DOMAIN e.args = 1..Len(e.args)
    BY ExpressionFields
  <1>2. f = [i \in 1..Len(e.args) |-> h[active][e.args[i]]]
    BY <1>1 DEF ArgsAt
  <1>3. f = [i \in 1..Len(e.args) |-> f[i]] /\ \A i \in 1..Len(e.args) : f[i] = h[active][e.args[i]]
    BY <1>2
  <1>4. Joins!Evaluated(f) = f
    BY <1>1, <1>3, EvaluatedIs
  <1>5. DOMAIN f = 1..Len(e.args)
    BY <1>2
  <1>6. Len(f) = Len(e.args)
    BY <1>1, <1>2
  <1>7. QED BY <1>3, <1>4, <1>5, <1>6

\* They are a sequence over the values of the function.
LEMMA ArgsTyped ==
    ASSUME NEW e \in Joins!Expressions, NEW h, NEW active, NEW V,
           \A i \in 1..Len(e.args) : h[active][e.args[i]] \in V
    PROVE  ArgsAt(h, e, active) \in Seq(V)
  <1>1. Len(e.args) \in Nat /\ DOMAIN e.args = 1..Len(e.args)
    BY ExpressionFields
  <1>2. ArgsAt(h, e, active) \in [1..Len(e.args) -> V]
    BY <1>1 DEF ArgsAt
  <1>3. QED BY <1>1, <1>2

\* A join point has one child, its body.
LEMMA JpChild ==
    ASSUME NEW e \in Joins!Expressions, e.op = "jp"
    PROVE  1 \in 1..Len(e.args) /\ 1 \in DOMAIN e.args /\ e.args[1] \in Joins!Expressions
  <1>1. Joins!Shaped(e) /\ DOMAIN e.args = 1..Len(e.args) /\ Len(e.args) \in Nat
    BY ExpressionFields
  <1>2. Len(e.args) = 1
    BY <1>1 DEF Joins!Shaped
  <1>3. QED BY <1>1, <1>2, ExpressionFields

\* A jump that expansion follows.
Followed(whole, e, active) ==
    /\ e.op = "jmp" /\ e.name \in Joins!declared[whole]
    /\ Len(Joins!Params(whole, e.name)) = Len(e.args) /\ e.name \notin active

\* A jump to a continuation of the body.
IsJump(whole, e) == e.op = "jmp" /\ e.name \in Joins!declared[whole]

\* The cost, case by case.
LEMMA CostIs ==
    ASSUME NEW whole \in Joins!Expressions, NEW e \in Joins!Expressions,
           NEW active \in SUBSET Joins!declared[whole], NEW C, C = Joins!cost(whole)
    PROVE  /\ IsJump(whole, e) /\ ~Followed(whole, e, active) =>
                C[active][e] = Joins!Failed("UnsupportedJoinPoint")
           /\ Followed(whole, e, active) /\ Cardinality(active) >= MAX_DEPTH =>
                C[active][e] = Joins!Failed("JoinExpansionLimit")
           /\ Followed(whole, e, active) /\ ~(Cardinality(active) >= MAX_DEPTH) =>
                C[active][e] =
                  Joins!AddAll(Joins!Jump(C[active \cup {e.name}][Joins!Continuation(whole, e.name)],
                                          Joins!Params(whole, e.name)), ArgsAt(C, e, active))
           /\ e.op = "jp" /\ Joins!HasJumps(whole, e.name) => C[active][e] = Joins!Measured(1, 0)
           /\ e.op = "jp" /\ ~Joins!HasJumps(whole, e.name) => C[active][e] = C[active][e.args[1]]
           /\ ~IsJump(whole, e) /\ e.op # "jp" =>
                C[active][e] = Joins!AddAll(Joins!Measured(1, 0), ArgsAt(C, e, active))
  <1>1. C[active][e] = measuredOf(whole, C, e, active)
    BY CostDef
  <1>2. Joins!Evaluated([i \in DOMAIN e.args |-> C[active][e.args[i]]]) = ArgsAt(C, e, active)
    <2>1. Joins!Evaluated(ArgsAt(C, e, active)) = ArgsAt(C, e, active)
      BY ArgsEvaluated
    <2>2. QED BY <2>1 DEF ArgsAt
  <1>3. ASSUME e.op = "jp" PROVE ArgsAt(C, e, active)[1] = C[active][e.args[1]]
    <2>1. 1 \in DOMAIN e.args
      BY <1>3, JpChild
    <2>2. QED BY <2>1 DEF ArgsAt
  <1>4. Joins!Cardinality(active) = Cardinality(active)
    BY SameCardinality
  <1>5. C[active][e] = 
            IF IsJump(whole, e)
              THEN IF Len(Joins!Params(whole, e.name)) # Len(e.args) \/ e.name \in active
                     THEN Joins!Failed("UnsupportedJoinPoint")
                   ELSE IF Cardinality(active) >= MAX_DEPTH
                     THEN Joins!Failed("JoinExpansionLimit")
                     ELSE Joins!AddAll(Joins!Jump(C[active \cup {e.name}][Joins!Continuation(whole, e.name)],
                                                  Joins!Params(whole, e.name)), ArgsAt(C, e, active))
            ELSE IF e.op = "jp"
              THEN IF Joins!HasJumps(whole, e.name) THEN Joins!Measured(1, 0) ELSE ArgsAt(C, e, active)[1]
              ELSE Joins!AddAll(Joins!Measured(1, 0), ArgsAt(C, e, active))
    BY <1>1, <1>2, <1>4 DEF measuredOf, IsJump
  <1>6. "jp" # "jmp"
    OBVIOUS
  <1>7. QED BY <1>3, <1>5, <1>6 DEF Followed, IsJump

\* e with other arguments.
WithArgs(e, args) == [e EXCEPT !.args = args]

\* The expansion, case by case.
LEMMA ExpandedIs ==
    ASSUME NEW whole \in Joins!Expressions, NEW e \in Joins!Expressions,
           NEW active \in SUBSET Joins!declared[whole], NEW X, X = Joins!expression(whole)
    PROVE  /\ Followed(whole, e, active) =>
                X[active][e] =
                  Joins!Bind(Joins!Params(whole, e.name), ArgsAt(X, e, active),
                             X[active \cup {e.name}][Joins!Continuation(whole, e.name)])
           /\ e.op = "jp" /\ Joins!HasJumps(whole, e.name) => X[active][e] = Joins!Unit
           /\ e.op = "jp" /\ ~Joins!HasJumps(whole, e.name) => X[active][e] = X[active][e.args[1]]
           /\ ~IsJump(whole, e) /\ e.op # "jp" => X[active][e] = WithArgs(e, ArgsAt(X, e, active))
  <1>1. X[active][e] = expandedOf(whole, X, e, active)
    BY ExpandedDef
  <1>2. Joins!Evaluated([i \in DOMAIN e.args |-> X[active][e.args[i]]]) = ArgsAt(X, e, active)
    <2>1. Joins!Evaluated(ArgsAt(X, e, active)) = ArgsAt(X, e, active)
      BY ArgsEvaluated
    <2>2. QED BY <2>1 DEF ArgsAt
  <1>3. ASSUME e.op = "jp" PROVE ArgsAt(X, e, active)[1] = X[active][e.args[1]]
    <2>1. 1 \in DOMAIN e.args
      BY <1>3, JpChild
    <2>2. QED BY <2>1 DEF ArgsAt
  <1>4. Joins!Cardinality(active) = Cardinality(active)
    BY SameCardinality
  <1>5. X[active][e] = 
            IF IsJump(whole, e)
              THEN IF Len(Joins!Params(whole, e.name)) # Len(e.args) \/ e.name \in active
                     THEN e
                     ELSE Joins!Bind(Joins!Params(whole, e.name), ArgsAt(X, e, active),
                                     X[active \cup {e.name}][Joins!Continuation(whole, e.name)])
            ELSE IF e.op = "jp"
              THEN IF Joins!HasJumps(whole, e.name) THEN Joins!Unit ELSE ArgsAt(X, e, active)[1]
              ELSE WithArgs(e, ArgsAt(X, e, active))
    BY <1>1, <1>2, <1>4 DEF expandedOf, IsJump, WithArgs
  <1>6. "jp" # "jmp"
    OBVIOUS
  <1>7. QED BY <1>3, <1>5, <1>6 DEF Followed, IsJump

\* The nesting, case by case.
LEMMA NestingIs ==
    ASSUME NEW whole \in Joins!Expressions, NEW e \in Joins!Expressions,
           NEW active \in SUBSET Joins!declared[whole], NEW N, N = Joins!Nesting(whole)
    PROVE  /\ Followed(whole, e, active) =>
                N[active][e] = Joins!Larger(1 + N[active \cup {e.name}][Joins!Continuation(whole, e.name)],
                                            Joins!Highest(ArgsAt(N, e, active)))
           /\ e.op = "jp" /\ Joins!HasJumps(whole, e.name) => N[active][e] = 0
           /\ ~IsJump(whole, e) /\ ~(e.op = "jp" /\ Joins!HasJumps(whole, e.name)) =>
                N[active][e] = Joins!Highest(ArgsAt(N, e, active))
           /\ e.op = "jmp" /\ e.name \in Joins!declared[whole] \ active =>
                N[active][e] = Joins!Larger(1 + N[active \cup {e.name}][Joins!Continuation(whole, e.name)],
                                            Joins!Highest(ArgsAt(N, e, active)))
           /\ e.op = "jmp" /\ e.name \notin Joins!declared[whole] \ active =>
                N[active][e] = Joins!Highest(ArgsAt(N, e, active))
  <1>1. N[active][e] = nestingOf(whole, N, e, active)
    BY NestingDef
  <1>2. Joins!Evaluated([i \in DOMAIN e.args |-> N[active][e.args[i]]]) = ArgsAt(N, e, active)
    <2>1. Joins!Evaluated(ArgsAt(N, e, active)) = ArgsAt(N, e, active)
      BY ArgsEvaluated
    <2>2. QED BY <2>1 DEF ArgsAt
  <1>4. Joins!Cardinality(active) = Cardinality(active)
    BY SameCardinality
  <1>5. N[active][e] = 
            IF e.op = "jmp" /\ e.name \in Joins!declared[whole] \ active
              THEN Joins!Larger(1 + N[active \cup {e.name}][Joins!Continuation(whole, e.name)],
                                Joins!Highest(ArgsAt(N, e, active)))
            ELSE IF e.op = "jp" /\ Joins!HasJumps(whole, e.name) THEN 0
            ELSE Joins!Highest(ArgsAt(N, e, active))
    BY <1>1, <1>2, <1>4 DEF nestingOf, IsJump
  <1>6. "jp" # "jmp"
    OBVIOUS
  <1>7. QED BY <1>5, <1>6 DEF Followed, IsJump

\* A maximum is a number, and no number of the list is higher.
LEMMA HighestBounds ==
    ASSUME NEW s \in Seq(Nat)
    PROVE  Joins!Highest(s) \in Nat /\ \A i \in 1..Len(s) : s[i] <= Joins!Highest(s)
  <1>0. PICK n \in Nat : n = Len(s) /\ \A i \in 1..n : s[i] \in Nat
    OBVIOUS
  <1>1. PICK top \in [0..n -> Nat] :
              /\ top[0] = 0
              /\ \A i \in 1..n : top[i] = Joins!Larger(top[i - 1], s[i])
              /\ Joins!Highest(s) = top[n]
    BY <1>0, HighestUnfold
  <1> DEFINE S == {j \in 0..n : \A i \in 1..j : s[i] <= top[j]}
  <1>2. 0 \in S
    BY <1>0
  <1>3. ASSUME NEW j \in 1..n, j - 1 \in S PROVE j \in S
    <2>1. j \in 0..n /\ j - 1 \in 0..n
      OBVIOUS
    <2>2. top[j - 1] \in Nat /\ s[j] \in Nat /\ top[j] = Joins!Larger(top[j - 1], s[j]) /\ top[j] \in Nat
      BY <1>0, <1>1, <2>1
    <2>3. top[j - 1] <= top[j] /\ s[j] <= top[j]
      BY <2>2 DEF Joins!Larger
    <2>4. ASSUME NEW i \in 1..j PROVE s[i] <= top[j]
      <3>1. i = j \/ i \in 1..(j - 1)
        OBVIOUS
      <3>2. i \in 1..(j - 1) => s[i] <= top[j - 1] /\ s[i] \in Nat
        BY <1>0, <1>3
      <3>3. QED BY <2>2, <2>3, <3>1, <3>2
    <2>5. QED BY <2>1, <2>4
  <1>4. n \in S /\ n \in 0..n
    <2> HIDE DEF S
    <2>1. 0..n \subseteq S
      BY <1>0, <1>2, <1>3, RangeInduction
    <2>2. QED BY <1>0, <2>1
  <1>5. QED BY <1>0, <1>1, <1>4

\* The unit that stands for a join point is an expression of size 1 with nothing to
\* expand.
LEMMA UnitIs ==
    /\ Joins!Unit \in Joins!Expressions /\ Joins!Nodes[Joins!Unit] = 1
    /\ Joins!declared[Joins!Unit] = {} /\ Joins!jumps[Joins!Unit] = {}
  <1> PICK u : u = Joins!Unit
    OBVIOUS
  <1>1. /\ u = [op |-> "operation", name |-> "Prod.mk", names |-> << >>, args |-> << >>]
        /\ u.op = "operation" /\ u.args = << >>
    BY DEF Joins!Unit, Joins!Operation, Joins!Node
  <1>2. DOMAIN u.args = {} /\ Len(u.args) = 0 /\ u.args \in Seq(Joins!Expressions)
    BY <1>1
  <1>3. u \in Joins!Expressions
    <2>1. u.op \in Joins!Operators /\ u.name \in Names /\ u.names \in Seq(Names) /\ Joins!Shaped(u)
      <3>1. u.name = "Prod.mk" /\ u.names = << >> /\ << >> \in Seq(Names)
        BY <1>1
      <3>2. u.op \in Joins!Operators
        BY <1>1 DEF Joins!Operators
      <3>3. Joins!Shaped(u)
        BY <1>1 DEF Joins!Shaped
      <3>4. QED BY <3>1, <3>2, <3>3, NamesAssumption
    <2>2. u = [op |-> u.op, name |-> u.name, names |-> u.names, args |-> u.args]
      BY <1>1
    <2>3. QED BY <1>2, <2>1, <2>2, MakeExpression
  <1>4. Joins!Nodes[u] = 1
    <2>1. PICK T : Totals(T, u.args) /\ Joins!Nodes[u] = 1 + T[Len(u.args)]
      BY <1>3, NodesUnfold
    <2>2. T[0] = 0
      BY <2>1 DEF Totals
    <2>3. QED BY <1>2, <2>1, <2>2
  <1>5. Joins!declared[u] = {}
    <2>1. Joins!declared[u] = declaredOf(Joins!declared, u)
      BY <1>3, DeclaredDef
    <2>2. QED BY <1>1, <1>2, <2>1 DEF declaredOf
  <1>6. Joins!jumps[u] = {}
    <2>1. Joins!jumps[u] = jumpsOf(Joins!jumps, u)
      BY <1>3, JumpsDef
    <2>2. QED BY <1>1, <1>2, <2>1 DEF jumpsOf
  <1>7. QED BY <1>3, <1>4, <1>5, <1>6

\* The costs add up to the sizes.
LEMMA TotalsMatch ==
    ASSUME NEW n \in Nat, NEW args, Len(args) = n, NEW T, Totals(T, args),
           NEW start, start.nodes \in Nat, NEW s, Len(s) = n, NEW N, CostTotals(N, start, s),
           \A i \in 1..n : s[i].nodes = Joins!Nodes[args[i]] /\ Joins!Nodes[args[i]] \in Nat
    PROVE  \A i \in 0..n : N[i] = start.nodes + T[i]
  <1> DEFINE S == {i \in 0..n : N[i] = start.nodes + T[i]}
  <1>1. /\ \A i \in 0..n : T[i] \in Nat /\ N[i] \in Nat
        /\ T[0] = 0 /\ N[0] = start.nodes
        /\ \A i \in 1..n : T[i] = T[i - 1] + Joins!Nodes[args[i]] /\ N[i] = N[i - 1] + s[i].nodes
    BY DEF Totals, CostTotals
  <1>2. 0 \in S
    BY <1>1
  <1>3. ASSUME NEW i \in 1..n, i - 1 \in S PROVE i \in S
    <2>1. i \in 0..n /\ i - 1 \in 0..n
      OBVIOUS
    <2>2. PICK t \in Int, u \in Int, v \in Int, w \in Int :
              t = T[i] /\ u = T[i - 1] /\ v = N[i] /\ w = N[i - 1]
      BY <1>1, <2>1, SMTT(30)
    <2>3. w = start.nodes + u /\ v - w = t - u
      <3>1. t = u + Joins!Nodes[args[i]] /\ v = w + Joins!Nodes[args[i]]
        BY <1>1, <2>2
      <3>2. w = start.nodes + u
        BY <1>3, <2>2
      <3>3. Joins!Nodes[args[i]] \in Nat
        OBVIOUS
      <3>4. QED BY <3>1, <3>2, <3>3, SMTT(30)
    <2>4. v = start.nodes + t
      <3>1. PICK x \in Int : x = start.nodes
        OBVIOUS
      <3>2. w = x + u /\ v - w = t - u
        BY <2>3, <3>1
      <3>3. v = x + t
        BY <3>2
      <3>4. QED BY <3>1, <3>3
    <2>5. QED BY <2>1, <2>2, <2>4
  <1>4. 0..n \subseteq S
    <2> HIDE DEF S
    <2>1. QED BY <1>2, <1>3, RangeInduction
  <1>5. QED BY <1>4

\* The cost of every expression, inside any continuations, is a cost.
LEMMA CostTyped ==
    ASSUME NEW whole \in Joins!Expressions
    PROVE  \A e \in Joins!Expressions, active \in SUBSET Joins!declared[whole] :
              Joins!cost(whole)[active][e] \in Costs
  <1> PICK C : C = Joins!cost(whole)
    OBVIOUS
  <1> DEFINE S == {p \in Joins!Expressions \X SUBSET Joins!declared[whole] : C[p[2]][p[1]] \in Costs}
  <1>1. ASSUME NEW e \in Joins!Expressions, NEW active \in SUBSET Joins!declared[whole],
               \A i \in DOMAIN e.args : <<e.args[i], active>> \in S,
               \A m \in Joins!declared[whole] \ active, c \in Joins!Expressions : <<c, active \cup {m}>> \in S
        PROVE  <<e, active>> \in S
    <2>1. Len(e.args) \in Nat /\ DOMAIN e.args = 1..Len(e.args)
      BY ExpressionFields
    <2>2. \A i \in 1..Len(e.args) : C[active][e.args[i]] \in Costs
      BY <1>1, <2>1
    <2>3. ArgsAt(C, e, active) \in Seq(Costs)
      BY <2>2, ArgsTyped
    <2>4. CASE Followed(whole, e, active)
      <3> DEFINE c == Joins!Continuation(whole, e.name)
      <3>1. c \in Joins!Expressions /\ Len(Joins!Params(whole, e.name)) \in Nat
        BY <2>4, Continuations DEF Followed
      <3>2. C[active \cup {e.name}][c] \in Costs
        BY <1>1, <2>4, <3>1 DEF Followed
      <3>3. Joins!Jump(C[active \cup {e.name}][c], Joins!Params(whole, e.name)) \in Costs
        BY <3>1, <3>2, JumpCases
      <3>4. Joins!AddAll(Joins!Jump(C[active \cup {e.name}][c], Joins!Params(whole, e.name)), ArgsAt(C, e, active)) \in Costs
        BY <2>3, <3>3, AddAllCost
      <3>5. C[active][e] \in Costs
        BY <2>4, <3>4, CostIs, FailedIsCost
      <3>6. QED BY <3>5
    <2>5. CASE IsJump(whole, e) /\ ~Followed(whole, e, active)
      <3>1. C[active][e] \in Costs
        BY <2>5, CostIs, FailedIsCost
      <3>2. QED BY <3>1
    <2>6. CASE e.op = "jp"
      <3>1. C[active][e.args[1]] \in Costs
        BY <2>2, <2>6, JpChild
      <3>2. C[active][e] \in Costs
        <4>1. Joins!Measured(1, 0) \in Costs
          BY MeasuredIsCost
        <4>2. C[active][e] = Joins!Measured(1, 0) \/ C[active][e] = C[active][e.args[1]]
          BY <2>6, CostIs, ZenonT(60)
        <4>3. QED BY <3>1, <4>1, <4>2
      <3>3. QED BY <3>2
    <2>7. CASE ~IsJump(whole, e) /\ e.op # "jp"
      <3>1. Joins!Measured(1, 0) \in Costs
        BY MeasuredIsCost
      <3>2. Joins!AddAll(Joins!Measured(1, 0), ArgsAt(C, e, active)) \in Costs
        BY <2>3, <3>1, AddAllCost
      <3>3. C[active][e] \in Costs
        BY <2>7, <3>2, CostIs
      <3>4. QED BY <3>3
    <2>8. QED BY <2>4, <2>5, <2>6, <2>7
  <1>2. \A e \in Joins!Expressions, active \in SUBSET Joins!declared[whole] : <<e, active>> \in S
    <2> HIDE DEF S
    <2>1. QED BY <1>1, PairInduction
  <1>3. QED BY <1>2

\* The nesting is a number.
LEMMA NestingTyped ==
    ASSUME NEW whole \in Joins!Expressions
    PROVE  \A e \in Joins!Expressions, active \in SUBSET Joins!declared[whole] :
              Joins!Nesting(whole)[active][e] \in Nat
  <1> PICK N : N = Joins!Nesting(whole)
    OBVIOUS
  <1> DEFINE S == {p \in Joins!Expressions \X SUBSET Joins!declared[whole] : N[p[2]][p[1]] \in Nat}
  <1>1. ASSUME NEW e \in Joins!Expressions, NEW active \in SUBSET Joins!declared[whole],
               \A i \in DOMAIN e.args : <<e.args[i], active>> \in S,
               \A m \in Joins!declared[whole] \ active, c \in Joins!Expressions : <<c, active \cup {m}>> \in S
        PROVE  <<e, active>> \in S
    <2>1. Len(e.args) \in Nat /\ DOMAIN e.args = 1..Len(e.args)
      BY ExpressionFields
    <2>2. \A i \in 1..Len(e.args) : N[active][e.args[i]] \in Nat
      BY <1>1, <2>1
    <2>3. Joins!Highest(ArgsAt(N, e, active)) \in Nat
      BY <2>2, ArgsTyped, HighestBounds
    <2>4. CASE e.op = "jmp" /\ e.name \in Joins!declared[whole] \ active
      <3> DEFINE c == Joins!Continuation(whole, e.name)
      <3>1. c \in Joins!Expressions
        BY <2>4, Continuations
      <3>2. N[active \cup {e.name}][c] \in Nat
        BY <1>1, <2>4, <3>1
      <3>3. Joins!Larger(1 + N[active \cup {e.name}][c], Joins!Highest(ArgsAt(N, e, active))) \in Nat
        BY <2>3, <3>2 DEF Joins!Larger
      <3>4. N[active][e] \in Nat
        BY <2>4, <3>3, NestingIs
      <3>5. QED BY <3>4
    <2>5. CASE ~(e.op = "jmp" /\ e.name \in Joins!declared[whole] \ active)
      <3>1. CASE e.op = "jmp"
        <4>1. N[active][e] \in Nat
          BY <2>3, <2>5, <3>1, NestingIs
        <4>2. QED BY <4>1
      <3>2. CASE e.op # "jmp"
        <4>1. ~IsJump(whole, e)
          BY <3>2 DEF IsJump
        <4>2. N[active][e] = 0 \/ N[active][e] = Joins!Highest(ArgsAt(N, e, active))
          BY <4>1, NestingIs
        <4>3. N[active][e] \in Nat
          BY <2>3, <4>2
        <4>4. QED BY <4>3
      <3>3. QED BY <3>1, <3>2
    <2>6. QED BY <2>4, <2>5
  <1>2. \A e \in Joins!Expressions, active \in SUBSET Joins!declared[whole] : <<e, active>> \in S
    <2> HIDE DEF S
    <2>1. QED BY <1>1, PairInduction
  <1>3. QED BY <1>2

-----------------------------------------------------------------------------
(* What is admitted fits: cost counts what expansion makes.                *)

\* What some arguments declare.
DeclaredIn(args) == UNION {Joins!declared[args[i]] : i \in 1..Len(args)}
\* The jumps of some arguments.
JumpsIn(args) == UNION {Joins!jumps[args[i]] : i \in 1..Len(args)}

\* An expression with other arguments, as many as it had.
LEMMA Rebuilt ==
    ASSUME NEW e \in Joins!Expressions, NEW args \in Seq(Joins!Expressions), Len(args) = Len(e.args),
           NEW T, Totals(T, args), 1 + T[Len(args)] <= MAX_NODES,
           NEW x, x = WithArgs(e, args)
    PROVE  /\ x \in Joins!Expressions /\ Joins!Nodes[x] = 1 + T[Len(args)]
           /\ x.op = e.op /\ x.name = e.name /\ x.names = e.names /\ x.args = args
           /\ e.op = "jp" => Joins!declared[x] = {e.name} \cup DeclaredIn(args)
           /\ e.op # "jp" => Joins!declared[x] = DeclaredIn(args)
           /\ e.op = "jmp" => Joins!jumps[x] = {<<e.name, Len(args)>>} \cup JumpsIn(args)
           /\ e.op # "jmp" => Joins!jumps[x] = JumpsIn(args)
  <1>1. /\ e.op \in Joins!Operators /\ e.name \in Names /\ e.names \in Seq(Names) /\ Joins!Shaped(e)
        /\ e = [op |-> e.op, name |-> e.name, names |-> e.names, args |-> e.args]
    BY ExpressionFields
  <1>2. /\ x = [op |-> e.op, name |-> e.name, names |-> e.names, args |-> args]
        /\ x.op = e.op /\ x.name = e.name /\ x.names = e.names /\ x.args = args
    BY <1>1 DEF WithArgs
  <1>3. Joins!Shaped(x)
    BY <1>1, <1>2 DEF Joins!Shaped
  <1>4. PICK n \in Nat : n = Len(args) /\ DOMAIN args = 1..n
    OBVIOUS
  <1>5. \A i \in 1..n : args[i] \in Joins!Expressions /\ Joins!Nodes[args[i]] \in Nat
    BY <1>4, NodesTyped
  <1>6. T[n] \in Nat /\ MAX_NODES \in Nat
    BY <1>4, LimitsAssumption DEF Totals
  <1>7. \A i \in DOMAIN x.args : Joins!Nodes[x.args[i]] < MAX_NODES
    <2>1. \A i \in 1..n : Joins!Nodes[args[i]] <= T[n]
      BY <1>4, <1>5, TotalsGrow
    <2>2. PICK t \in Nat : t = T[n] /\ 1 + t <= MAX_NODES
      BY <1>4, <1>6
    <2>3. \A i \in 1..n : Joins!Nodes[args[i]] < MAX_NODES
      BY <1>5, <1>6, <2>1, <2>2
    <2>4. QED BY <1>2, <1>4, <2>3
  <1>8. x \in Joins!Expressions
    BY <1>1, <1>2, <1>3, <1>7, MakeExpression
  <1>9. Joins!Nodes[x] = 1 + T[n]
    <2>1. PICK U : Totals(U, args) /\ Joins!Nodes[x] = 1 + U[n]
      BY <1>2, <1>4, <1>8, NodesUnfold
    <2>2. U[n] = T[n]
      BY <1>4, <2>1, TotalsUnique
    <2>3. QED BY <2>1, <2>2
  <1>10. /\ e.op = "jp" => Joins!declared[x] = {e.name} \cup DeclaredIn(args)
         /\ e.op # "jp" => Joins!declared[x] = DeclaredIn(args)
    <2>1. Joins!declared[x] = declaredOf(Joins!declared, x)
      BY <1>8, DeclaredDef
    <2>2. DeclaredIn(args) = UNION {Joins!declared[x.args[i]] : i \in DOMAIN x.args}
      BY <1>2, <1>4 DEF DeclaredIn
    <2>3. QED BY <1>2, <2>1, <2>2 DEF declaredOf
  <1>11. /\ e.op = "jmp" => Joins!jumps[x] = {<<e.name, Len(args)>>} \cup JumpsIn(args)
         /\ e.op # "jmp" => Joins!jumps[x] = JumpsIn(args)
    <2>1. Joins!jumps[x] = jumpsOf(Joins!jumps, x)
      BY <1>8, JumpsDef
    <2>2. JumpsIn(args) = UNION {Joins!jumps[x.args[i]] : i \in DOMAIN x.args}
      BY <1>2, <1>4 DEF JumpsIn
    <2>3. QED BY <1>2, <2>1, <2>2 DEF jumpsOf
  <1>12. QED BY <1>2, <1>4, <1>8, <1>9, <1>10, <1>11

\* An expression that is rendered as it is.
Expandable(x) == x \in Joins!Expressions /\ Joins!declared[x] = {} /\ Joins!jumps[x] = {}

\* The cost of an expression is the size of its expansion.
Admitted(c, x) == Expandable(x) /\ Joins!Nodes[x] = c.nodes /\ c.nodes <= MAX_NODES

\* Lets around expanded parts are expanded, and their size is that of the parts.
LEMMA BindExpandable ==
    ASSUME NEW n \in Nat, NEW params, Len(params) = n, NEW args, Len(args) = n,
           \A i \in 1..n : params[i] \in Names /\ Expandable(args[i]),
           NEW inner, Expandable(inner), NEW T, Totals(T, args),
           Joins!Nodes[inner] + n + T[n] <= MAX_NODES,
           NEW x, x = Joins!Bind(params, args, inner)
    PROVE  Expandable(x) /\ Joins!Nodes[x] = Joins!Nodes[inner] + n + T[n]
  <1>1. /\ inner \in Joins!Expressions /\ Joins!declared[inner] = {} /\ Joins!jumps[inner] = {}
        /\ \A i \in 1..Len(params) : params[i] \in Names /\ args[i] \in Joins!Expressions
        /\ \A i \in 1..Len(args) : Joins!declared[args[i]] = {} /\ Joins!jumps[args[i]] = {}
        /\ Joins!Nodes[inner] + Len(params) + T[Len(params)] <= MAX_NODES
        /\ Len(params) \in Nat /\ Len(args) = Len(params)
    BY DEF Expandable
  <1>2. QED BY <1>1, BindForward, SMTT(30) DEF Expandable

\* A jump is one of its own jumps.
LEMMA JumpNames ==
    ASSUME NEW e \in Joins!Expressions, e.op = "jmp"
    PROVE  <<e.name, Len(e.args)>> \in Joins!jumps[e]
  BY JumpsDef DEF jumpsOf

\* What cost counts is the size of the expansion: whatever it admits of a body with
\* valid jumps expands to an expression of that size, within the limit, with no join
\* point and no jump left (cost, expression).
THEOREM AdmittedFits ==
    ASSUME NEW whole \in Joins!Expressions, Joins!validate_jumps(whole), NEW C, C = Joins!cost(whole),
           NEW X, X = Joins!expression(whole)
    PROVE  \A e \in Joins!Expressions, active \in SUBSET Joins!declared[whole] :
              Joins!jumps[e] \subseteq Joins!jumps[whole] /\ C[active][e].error = "none"
                => Admitted(C[active][e], X[active][e])
  <1> DEFINE Fine(e, active) ==
                 Joins!jumps[e] \subseteq Joins!jumps[whole] /\ C[active][e].error = "none"
                   => Admitted(C[active][e], X[active][e])
             S == {p \in Joins!Expressions \X SUBSET Joins!declared[whole] : Fine(p[1], p[2])}
  <1>1. ASSUME NEW e \in Joins!Expressions, NEW active \in SUBSET Joins!declared[whole],
               \A i \in DOMAIN e.args : <<e.args[i], active>> \in S,
               \A m \in Joins!declared[whole] \ active, c \in Joins!Expressions : <<c, active \cup {m}>> \in S,
               Joins!jumps[e] \subseteq Joins!jumps[whole], C[active][e].error = "none"
        PROVE  Admitted(C[active][e], X[active][e])
    <2>1. PICK n \in Nat : n = Len(e.args) /\ DOMAIN e.args = 1..n
      BY ExpressionFields
    <2>2. ASSUME NEW i \in 1..n, C[active][e.args[i]].error = "none"
          PROVE  Admitted(C[active][e.args[i]], X[active][e.args[i]])
      <3>1. Joins!jumps[e.args[i]] \subseteq Joins!jumps[whole]
        BY <1>1, <2>1, ChildNames
      <3>2. Fine(e.args[i], active)
        BY <1>1, <2>1
      <3>3. QED BY <2>2, <3>1, <3>2
    <2>3. \A i \in 1..n : e.args[i] \in Joins!Expressions /\ C[active][e.args[i]] \in Costs
      BY <2>1, ExpressionFields, CostTyped
    <2> DEFINE s == ArgsAt(C, e, active)
               args == ArgsAt(X, e, active)
    <2>4. /\ s \in Seq(Costs) /\ Len(s) = n /\ Len(args) = n
          /\ \A i \in 1..n : s[i] = C[active][e.args[i]] /\ args[i] = X[active][e.args[i]]
      <3>1. s \in Seq(Costs)
        <4>1. \A i \in 1..Len(e.args) : C[active][e.args[i]] \in Costs
          BY <2>1, <2>3
        <4>2. QED BY <4>1, ArgsTyped
      <3>2. ASSUME NEW h
            PROVE  /\ Len(ArgsAt(h, e, active)) = Len(e.args)
                   /\ \A i \in 1..Len(e.args) : ArgsAt(h, e, active)[i] = h[active][e.args[i]]
        <4> HIDE DEF S
        <4>1. Len(ArgsAt(h, e, active)) = Len(e.args)
          BY ArgsEvaluated
        <4>2. ASSUME NEW i \in 1..Len(e.args) PROVE ArgsAt(h, e, active)[i] = h[active][e.args[i]]
          BY ArgsEvaluated
        <4>3. QED BY <4>1, <4>2
      <3> HIDE DEF S
      <3>3. /\ Len(s) = n /\ \A i \in 1..n : s[i] = C[active][e.args[i]]
            /\ Len(args) = n /\ \A i \in 1..n : args[i] = X[active][e.args[i]]
        BY <2>1, <3>2
      <3>4. QED BY <3>1, <3>3
    <2>5. MAX_NODES \in Nat /\ 1 <= MAX_NODES
      BY LimitsAssumption
    <2> HIDE DEF s, args, S
    <2>6. e.op = "jmp" => IsJump(whole, e)
      <3>1. e.op = "jmp" => <<e.name, Len(e.args)>> \in Joins!jumps[whole]
        BY <1>1, JumpNames
      <3>2. QED BY <3>1 DEF Joins!validate_jumps, IsJump
    <2>7. ASSUME NEW start \in Costs, start.error = "none" => start.nodes <= MAX_NODES,
                 C[active][e] = Joins!AddAll(start, s)
          PROVE  /\ start.error = "none" /\ args \in Seq(Joins!Expressions)
                 /\ \A i \in 1..n : Expandable(args[i])
                 /\ \E T : /\ Totals(T, args) /\ T[n] \in Nat
                           /\ C[active][e].nodes = start.nodes + T[n] /\ start.nodes + T[n] <= MAX_NODES
      <3>1. /\ start.error = "none" /\ \A i \in 1..n : s[i].error = "none"
            /\ \E N : /\ CostTotals(N, start, s)
                      /\ C[active][e].nodes = N[n] /\ N[n] <= MAX_NODES
        BY <1>1, <2>4, <2>7, AddAllNone
      <3>2. PICK N : CostTotals(N, start, s) /\ C[active][e].nodes = N[n] /\ N[n] <= MAX_NODES
        BY <3>1
      <3>3. \A i \in 1..n : Admitted(s[i], args[i])
        BY <2>2, <2>4, <3>1
      <3>4. \A i \in 1..n : /\ Expandable(args[i]) /\ args[i] \in Joins!Expressions
                            /\ s[i].nodes = Joins!Nodes[args[i]] /\ Joins!Nodes[args[i]] \in Nat
        BY <3>3, NodesTyped DEF Admitted, Expandable
      <3>5. PICK T : Totals(T, args)
        BY <2>4, <3>4, TotalsExist
      <3>6. start.nodes \in Nat
        BY DEF Costs
      <3>7. \A i \in 0..n : N[i] = start.nodes + T[i]
        BY <2>4, <3>2, <3>4, <3>5, <3>6, TotalsMatch
      <3>8. T[n] \in Nat /\ n \in 0..n
        BY <2>4, <3>5 DEF Totals
      <3>9. args \in Seq(Joins!Expressions)
        BY <2>1, <2>4, <3>4, ArgsTyped DEF args
      <3>10. QED BY <3>1, <3>2, <3>4, <3>5, <3>7, <3>8, <3>9
    <2>14. /\ Followed(whole, e, active) /\ Cardinality(active) >= MAX_DEPTH =>
                C[active][e] = Joins!Failed("JoinExpansionLimit")
           /\ Followed(whole, e, active) /\ ~(Cardinality(active) >= MAX_DEPTH) =>
                C[active][e] =
                  Joins!AddAll(Joins!Jump(C[active \cup {e.name}][Joins!Continuation(whole, e.name)],
                                          Joins!Params(whole, e.name)), s)
           /\ IsJump(whole, e) /\ ~Followed(whole, e, active) =>
                C[active][e] = Joins!Failed("UnsupportedJoinPoint")
           /\ e.op = "jp" /\ Joins!HasJumps(whole, e.name) => C[active][e] = Joins!Measured(1, 0)
           /\ e.op = "jp" /\ ~Joins!HasJumps(whole, e.name) => C[active][e] = C[active][e.args[1]]
           /\ ~IsJump(whole, e) /\ e.op # "jp" =>
                C[active][e] = Joins!AddAll(Joins!Measured(1, 0), s)
      BY CostIs, ZenonT(60) DEF s
    <2>15. /\ Followed(whole, e, active) =>
                X[active][e] = Joins!Bind(Joins!Params(whole, e.name), args,
                                          X[active \cup {e.name}][Joins!Continuation(whole, e.name)])
           /\ e.op = "jp" /\ Joins!HasJumps(whole, e.name) => X[active][e] = Joins!Unit
           /\ e.op = "jp" /\ ~Joins!HasJumps(whole, e.name) => X[active][e] = X[active][e.args[1]]
           /\ ~IsJump(whole, e) /\ e.op # "jp" => X[active][e] = WithArgs(e, args)
      BY ExpandedIs DEF args
    <2>8. CASE Followed(whole, e, active)
      <3> PICK c : c = Joins!Continuation(whole, e.name)
        OBVIOUS
      <3> PICK params : params = Joins!Params(whole, e.name)
        OBVIOUS
      <3> PICK inside : inside = active \cup {e.name}
        OBVIOUS
      <3>1. e.name \in Joins!declared[whole] \ active
        BY <2>8 DEF Followed
      <3>2. /\ c \in Joins!Expressions /\ Joins!jumps[c] \subseteq Joins!jumps[whole]
            /\ params \in Seq(Names) /\ Len(params) = n
        BY <2>1, <2>8, <3>1, Continuations DEF Followed
      <3>3. inside \in SUBSET Joins!declared[whole] /\ Fine(c, inside)
        BY <1>1, <3>1, <3>2 DEF S
      <3>4. C[inside][c] \in Costs
        BY <3>2, <3>3, CostTyped
      <3> PICK start : start = Joins!Jump(C[inside][c], params)
        OBVIOUS
      <3>5. C[active][e] = Joins!AddAll(start, s)
        <4>1. ~(Cardinality(active) >= MAX_DEPTH)
          BY <1>1, <2>8, <2>14 DEF Joins!Failed
        <4>2. QED BY <2>8, <2>14, <4>1
      <3>6. /\ start \in Costs
            /\ start.error = "none" => C[inside][c].error = "none" /\ start.nodes = C[inside][c].nodes + n
            /\ start.error = "none" => start.nodes <= MAX_NODES
        BY <2>1, <3>2, <3>4, JumpCases
      <3>7. PICK T : /\ Totals(T, args) /\ T[n] \in Nat
                     /\ C[active][e].nodes = start.nodes + T[n] /\ start.nodes + T[n] <= MAX_NODES
        BY <2>7, <3>5, <3>6
      <3>8. /\ start.error = "none" /\ args \in Seq(Joins!Expressions)
            /\ \A i \in 1..n : Expandable(args[i])
        BY <2>7, <3>5, <3>6
      <3>9. Admitted(C[inside][c], X[inside][c])
        BY <3>2, <3>3, <3>6, <3>8
      <3> PICK inner : inner = X[inside][c]
        OBVIOUS
      <3>10. /\ inner \in Joins!Expressions /\ Joins!declared[inner] = {} /\ Joins!jumps[inner] = {}
             /\ start.nodes = Joins!Nodes[inner] + n
        BY <3>6, <3>8, <3>9 DEF Admitted, Expandable
      <3>11. \A i \in 1..n : params[i] \in Names
        BY <3>2
      <3>12. X[active][e] = Joins!Bind(params, args, inner)
        BY <2>8, <2>15
      <3>13. Joins!Nodes[inner] + n + T[n] <= MAX_NODES
        BY <3>7, <3>10
      <3>14. Expandable(X[active][e]) /\ Joins!Nodes[X[active][e]] = Joins!Nodes[inner] + n + T[n]
        <4>1. Expandable(inner) /\ \A i \in 1..n : params[i] \in Names /\ Expandable(args[i])
          BY <3>8, <3>10, <3>11 DEF Expandable
        <4>2. QED BY <2>4, <3>2, <3>7, <3>12, <3>13, <4>1, BindExpandable, SMTT(30)
      <3>15. QED BY <3>7, <3>10, <3>12, <3>13, <3>14 DEF Admitted, Expandable
    <2>9. CASE IsJump(whole, e) /\ ~Followed(whole, e, active)
      BY <1>1, <2>9, <2>14 DEF Joins!Failed
    <2>10. CASE e.op = "jp" /\ Joins!HasJumps(whole, e.name)
      <3>1. C[active][e] = Joins!Measured(1, 0) /\ X[active][e] = Joins!Unit
        BY <2>10, <2>14, <2>15
      <3>2. C[active][e].nodes = 1
        BY <3>1 DEF Joins!Measured
      <3>3. QED BY <2>5, <3>1, <3>2, UnitIs DEF Admitted, Expandable
    <2>11. CASE e.op = "jp" /\ ~Joins!HasJumps(whole, e.name)
      <3>1. C[active][e] = C[active][e.args[1]] /\ X[active][e] = X[active][e.args[1]]
        BY <2>11, <2>14, <2>15
      <3>2. 1 \in 1..n
        BY <2>1, <2>11, JpChild
      <3>3. QED BY <1>1, <2>2, <3>1, <3>2
    <2>12. CASE ~IsJump(whole, e) /\ e.op # "jp"
      <3>1. C[active][e] = Joins!AddAll(Joins!Measured(1, 0), s) /\ X[active][e] = WithArgs(e, args)
        BY <2>12, <2>14, <2>15
      <3>2. Joins!Measured(1, 0) \in Costs
        BY MeasuredIsCost
      <3>3. Joins!Measured(1, 0).nodes = 1
        BY DEF Joins!Measured
      <3>4. PICK T : /\ Totals(T, args) /\ T[n] \in Nat
                     /\ C[active][e].nodes = 1 + T[n] /\ 1 + T[n] <= MAX_NODES
        BY <2>5, <2>7, <3>1, <3>2, <3>3
      <3>5. args \in Seq(Joins!Expressions) /\ \A i \in 1..n : Expandable(args[i])
        BY <2>5, <2>7, <3>1, <3>2, <3>3
      <3> PICK x : x = X[active][e]
        OBVIOUS
      <3>6. e.op # "jmp" /\ e.op # "jp"
        BY <2>6, <2>12
      <3>7. /\ x \in Joins!Expressions /\ Joins!Nodes[x] = 1 + T[n]
            /\ Joins!declared[x] = {} /\ Joins!jumps[x] = {}
        <4>1. x = WithArgs(e, args)
          BY <3>1
        <4>2. Len(args) = n /\ Len(args) = Len(e.args) /\ 1 + T[Len(args)] <= MAX_NODES
          BY <2>1, <2>4, <3>4
        <4>3. /\ x \in Joins!Expressions /\ Joins!Nodes[x] = 1 + T[Len(args)]
              /\ e.op # "jp" => Joins!declared[x] = DeclaredIn(args)
              /\ e.op # "jmp" => Joins!jumps[x] = JumpsIn(args)
          BY <3>4, <3>5, <4>1, <4>2, Rebuilt
        <4>4. \A i \in 1..n : Joins!declared[args[i]] = {} /\ Joins!jumps[args[i]] = {}
          BY <3>5 DEF Expandable
        <4>5. DeclaredIn(args) = {} /\ JumpsIn(args) = {}
          BY <4>2, <4>4 DEF DeclaredIn, JumpsIn
        <4>6. QED BY <3>6, <4>2, <4>3, <4>5
      <3>8. QED BY <3>4, <3>7 DEF Admitted, Expandable
    <2>13. QED BY <2>8, <2>9, <2>10, <2>11, <2>12
  <1>2. \A e \in Joins!Expressions, active \in SUBSET Joins!declared[whole] : <<e, active>> \in S
    <2>1. ASSUME NEW e \in Joins!Expressions, NEW active \in SUBSET Joins!declared[whole],
                 \A i \in DOMAIN e.args : <<e.args[i], active>> \in S,
                 \A m \in Joins!declared[whole] \ active, c \in Joins!Expressions : <<c, active \cup {m}>> \in S
          PROVE  <<e, active>> \in S
      <3>1. Fine(e, active)
        BY <1>1, <2>1
      <3>2. QED BY <3>1
    <2> HIDE DEF S
    <2>2. QED BY <2>1, PairInduction
  <1>3. QED BY <1>2

-----------------------------------------------------------------------------
(* What is sound is admitted: no error without a reason.                   *)

\* What a continuation leads to is closed under what continuations jump to.
LEMMA LeadsOn ==
    ASSUME NEW e \in Joins!Expressions, NEW a \in Joins!declared[e]
    PROVE  /\ Joins!Targets(e, a) \subseteq Joins!LeadsTo(e, a)
           /\ \A m \in Joins!LeadsTo(e, a) :
                 m \in Joins!declared[e] /\ Joins!Targets(e, m) \subseteq Joins!LeadsTo(e, a)
  <1>1. \A k : Joins!Targets(e, k) \subseteq Joins!declared[e]
    BY DEF Joins!Targets
  <1>2. QED BY <1>1 DEF Joins!LeadsTo

\* Costs with the sizes of expressions, all within a depth and together within the
\* limit.
FitTogether(n, start, s, args, T, d) ==
    /\ n \in Nat /\ start \in Costs /\ start.error = "none"
    /\ s \in Seq(Costs) /\ Len(s) = n /\ Len(args) = n /\ Totals(T, args)
    /\ d \in Nat /\ d <= MAX_DEPTH /\ start.depth <= d /\ start.nodes + T[n] <= MAX_NODES
    /\ \A i \in 1..n : /\ s[i].error = "none" /\ s[i].depth <= d
                       /\ s[i].nodes = Joins!Nodes[args[i]] /\ Joins!Nodes[args[i]] \in Nat

\* They add up without an error.
LEMMA AddAllFits ==
    ASSUME NEW n, NEW start, NEW s, NEW args, NEW T, NEW d, FitTogether(n, start, s, args, T, d)
    PROVE  Joins!AddAll(start, s).error = "none" /\ Joins!AddAll(start, s).depth <= d
  <1>0. /\ n \in Nat /\ start \in Costs /\ start.error = "none"
        /\ s \in Seq(Costs) /\ Len(s) = n /\ Len(args) = n /\ Totals(T, args)
        /\ d \in Nat /\ d <= MAX_DEPTH /\ start.depth <= d /\ start.nodes + T[n] <= MAX_NODES
        /\ \A i \in 1..n : /\ s[i].error = "none" /\ s[i].depth <= d
                           /\ s[i].nodes = Joins!Nodes[args[i]] /\ Joins!Nodes[args[i]] \in Nat
    BY DEF FitTogether
  <1> PICK b \in Nat : b = start.nodes
    BY <1>0 DEF Costs
  <1> DEFINE N == [i \in 0..n |-> b + T[i]]
  <1>1. /\ T \in [0..n -> Nat] /\ T[0] = 0
        /\ \A i \in 1..n : T[i] = T[i - 1] + Joins!Nodes[args[i]]
    BY <1>0 DEF Totals
  <1>2. N \in [0..n -> Nat] /\ N[0] = b /\ N[n] = b + T[n]
    <2>1. 0 \in 0..n /\ n \in 0..n /\ b + 0 = b
      BY <1>0
    <2>2. QED BY <1>1, <2>1
  <1>3. ASSUME NEW i \in 1..n PROVE N[i] = N[i - 1] + s[i].nodes
    <2>1. i \in 0..n /\ i - 1 \in 0..n
      BY <1>0
    <2>2. PICK x \in Nat, y \in Nat, z \in Nat : x = T[i] /\ y = T[i - 1] /\ z = s[i].nodes
      BY <1>0, <1>1, <2>1
    <2>3. N[i] = b + x /\ N[i - 1] = b + y
      BY <2>1, <2>2
    <2>4. x = y + z
      BY <1>0, <1>1, <2>2
    <2> HIDE DEF N
    <2>5. b + x = (b + y) + z
      BY <2>4
    <2>6. QED BY <2>2, <2>3, <2>5
  <1> HIDE DEF N
  <1>4. CostTotals(N, start, s)
    BY <1>0, <1>2, <1>3 DEF CostTotals
  <1>5. N[Len(s)] <= MAX_NODES
    BY <1>0, <1>2
  <1>6. \A i \in 1..Len(s) : s[i].error = "none" /\ s[i].depth <= d
    BY <1>0
  <1>7. QED BY <1>0, <1>4, <1>5, <1>6, AddAllAdmits

\* An expression of a body, inside continuations that lead to all it jumps to.
Inside(whole, e, active) ==
    /\ Joins!jumps[e] \subseteq Joins!jumps[whole]
    /\ \A a \in active : \A j \in Joins!jumps[e] : j[1] \in Joins!LeadsTo(whole, a)

\* A child is inside where its parent is.
LEMMA InsideChild ==
    ASSUME NEW whole, NEW e \in Joins!Expressions, NEW active, Inside(whole, e, active)
    PROVE  \A i \in DOMAIN e.args : Inside(whole, e.args[i], active)
  <1>1. \A i \in DOMAIN e.args : Joins!jumps[e.args[i]] \subseteq Joins!jumps[e]
    BY ChildNames
  <1>2. QED BY <1>1 DEF Inside

\* In a sound body every jump is followed, and what it leads to stays inside.
LEMMA InsideJump ==
    ASSUME NEW whole \in Joins!Expressions, Joins!Sound(whole), NEW e \in Joins!Expressions,
           NEW active \in SUBSET Joins!declared[whole], Inside(whole, e, active), e.op = "jmp"
    PROVE  /\ Followed(whole, e, active)
           /\ Inside(whole, Joins!Continuation(whole, e.name), active \cup {e.name})
  <1>1. <<e.name, Len(e.args)>> \in Joins!jumps[e] /\ <<e.name, Len(e.args)>> \in Joins!jumps[whole]
    BY JumpNames DEF Inside
  <1>2. e.name \in Joins!declared[whole] /\ Len(Joins!Params(whole, e.name)) = Len(e.args)
    <2>1. \A j \in Joins!jumps[whole] :
             j[1] \in Joins!declared[whole] /\ Len(Joins!Params(whole, j[1])) = j[2]
      BY DEF Joins!Sound, Joins!validate_jumps
    <2>2. <<e.name, Len(e.args)>>[1] = e.name /\ <<e.name, Len(e.args)>>[2] = Len(e.args)
      OBVIOUS
    <2>3. QED BY <1>1, <2>1, <2>2
  <1>3. \A a \in active : e.name \in Joins!LeadsTo(whole, a)
    BY <1>1 DEF Inside
  <1>4. e.name \notin active
    BY <1>2, <1>3 DEF Joins!Sound
  <1> PICK c : c = Joins!Continuation(whole, e.name)
    OBVIOUS
  <1>5. Joins!jumps[c] \subseteq Joins!jumps[whole]
    BY <1>2, Continuations
  <1>6. ASSUME NEW j \in Joins!jumps[c] PROVE j[1] \in Joins!Targets(whole, e.name)
    <2>1. j[1] \in Joins!declared[whole]
      BY <1>5 DEF Joins!Sound, Joins!validate_jumps
    <2>2. QED BY <2>1 DEF Joins!Targets
  <1>7. \A a \in active \cup {e.name} : Joins!Targets(whole, e.name) \subseteq Joins!LeadsTo(whole, a)
    BY <1>2, <1>3, LeadsOn
  <1>8. Inside(whole, c, active \cup {e.name})
    BY <1>5, <1>6, <1>7 DEF Inside
  <1>9. QED BY <1>2, <1>4, <1>8 DEF Followed

\* The promise for one expression, with its cost, its expansion and how deep the
\* continuations are nested, the active ones included.
Exact(c, x, nesting, count) ==
    /\ c.error # "UnsupportedJoinPoint"
    /\ x \in Joins!Expressions /\ Joins!Nodes[x] <= MAX_NODES /\ count + nesting <= MAX_DEPTH
         => c.error = "none" /\ c.depth <= nesting

\* In a sound body no cost is unsupported, and an expansion within the limits is
\* admitted (cost).
THEOREM SoundAdmits ==
    ASSUME NEW whole \in Joins!Expressions, Joins!Sound(whole), NEW C, C = Joins!cost(whole),
           NEW X, X = Joins!expression(whole), NEW N, N = Joins!Nesting(whole)
    PROVE  \A e \in Joins!Expressions, active \in SUBSET Joins!declared[whole] :
              Inside(whole, e, active)
                => Exact(C[active][e], X[active][e], N[active][e], Cardinality(active))
  <1> DEFINE Fine(e, active) ==
                 Inside(whole, e, active)
                   => Exact(C[active][e], X[active][e], N[active][e], Cardinality(active))
             S == {p \in Joins!Expressions \X SUBSET Joins!declared[whole] : Fine(p[1], p[2])}
  <1>1. ASSUME NEW e \in Joins!Expressions, NEW active \in SUBSET Joins!declared[whole],
               \A i \in DOMAIN e.args : <<e.args[i], active>> \in S,
               \A m \in Joins!declared[whole] \ active, c \in Joins!Expressions : <<c, active \cup {m}>> \in S,
               Inside(whole, e, active)
        PROVE  Exact(C[active][e], X[active][e], N[active][e], Cardinality(active))
    <2>1. PICK n \in Nat : n = Len(e.args) /\ DOMAIN e.args = 1..n
      BY ExpressionFields
    <2> PICK d : d = N[active][e]
      OBVIOUS
    <2> PICK k : k = Cardinality(active)
      OBVIOUS
    <2>2. \A i \in 1..n : /\ e.args[i] \in Joins!Expressions /\ C[active][e.args[i]] \in Costs
                          /\ N[active][e.args[i]] \in Nat
                          /\ Exact(C[active][e.args[i]], X[active][e.args[i]], N[active][e.args[i]], k)
      <3>1. \A i \in 1..n : Inside(whole, e.args[i], active) /\ Fine(e.args[i], active)
        BY <1>1, <2>1, InsideChild
      <3>2. \A i \in 1..n : e.args[i] \in Joins!Expressions
        BY <2>1, ExpressionFields
      <3>3. \A i \in 1..n : C[active][e.args[i]] \in Costs /\ N[active][e.args[i]] \in Nat
        BY <3>2, CostTyped, NestingTyped
      <3>4. QED BY <3>1, <3>2, <3>3
    <2>3. d \in Nat /\ k \in Nat /\ MAX_DEPTH \in Nat /\ MAX_NODES \in Nat
      BY NestingTyped, ActiveCounts, LimitsAssumption
    <2>4. Joins!validate_jumps(whole) /\ Joins!jumps[e] \subseteq Joins!jumps[whole]
      BY <1>1 DEF Joins!Sound, Inside
    <2>5. \A i \in 1..n : C[active][e.args[i]].error = "none"
                            => Admitted(C[active][e.args[i]], X[active][e.args[i]])
      <3>1. \A i \in 1..n : Joins!jumps[e.args[i]] \subseteq Joins!jumps[whole]
        BY <2>1, <2>4, ChildNames
      <3>2. QED BY <2>2, <2>4, <3>1, AdmittedFits
    <2> DEFINE s == ArgsAt(C, e, active)
               args == ArgsAt(X, e, active)
               below == Joins!Highest(ArgsAt(N, e, active))
    <2>6. /\ s \in Seq(Costs) /\ Len(s) = n /\ Len(args) = n /\ DOMAIN args = 1..n
          /\ \A i \in 1..n : s[i] = C[active][e.args[i]] /\ args[i] = X[active][e.args[i]]
          /\ below \in Nat /\ \A i \in 1..n : N[active][e.args[i]] <= below
      <3> HIDE DEF S
      <3>1. ASSUME NEW h
            PROVE  /\ Len(ArgsAt(h, e, active)) = Len(e.args)
                   /\ DOMAIN ArgsAt(h, e, active) = 1..Len(e.args)
                   /\ \A i \in 1..Len(e.args) : ArgsAt(h, e, active)[i] = h[active][e.args[i]]
        <4>1. Len(ArgsAt(h, e, active)) = Len(e.args)
          BY ArgsEvaluated
        <4>2. ASSUME NEW i \in 1..Len(e.args) PROVE ArgsAt(h, e, active)[i] = h[active][e.args[i]]
          BY ArgsEvaluated
        <4>3. DOMAIN ArgsAt(h, e, active) = 1..Len(e.args)
          BY ArgsEvaluated
        <4>4. QED BY <4>1, <4>2, <4>3
      <3>2. s \in Seq(Costs)
        <4>1. \A i \in 1..Len(e.args) : C[active][e.args[i]] \in Costs
          BY <2>1, <2>2
        <4>2. QED BY <4>1, ArgsTyped
      <3>3. below \in Nat /\ \A i \in 1..n : N[active][e.args[i]] <= below
        <4>1. ArgsAt(N, e, active) \in Seq(Nat)
          <5>1. \A i \in 1..Len(e.args) : N[active][e.args[i]] \in Nat
            BY <2>1, <2>2
          <5>2. QED BY <5>1, ArgsTyped
        <4>2. \A i \in 1..Len(ArgsAt(N, e, active)) : ArgsAt(N, e, active)[i] <= below
          BY <4>1, HighestBounds
        <4>3. QED BY <2>1, <3>1, <4>1, <4>2, HighestBounds
      <3> HIDE DEF below
      <3>4. QED BY <2>1, <3>1, <3>2, <3>3
    <2> HIDE DEF s, args, below, S
    <2>7. /\ Followed(whole, e, active) /\ Cardinality(active) >= MAX_DEPTH =>
                C[active][e] = Joins!Failed("JoinExpansionLimit")
          /\ Followed(whole, e, active) /\ ~(Cardinality(active) >= MAX_DEPTH) =>
                C[active][e] =
                  Joins!AddAll(Joins!Jump(C[active \cup {e.name}][Joins!Continuation(whole, e.name)],
                                          Joins!Params(whole, e.name)), s)
          /\ e.op = "jp" /\ Joins!HasJumps(whole, e.name) => C[active][e] = Joins!Measured(1, 0)
          /\ e.op = "jp" /\ ~Joins!HasJumps(whole, e.name) => C[active][e] = C[active][e.args[1]]
          /\ ~IsJump(whole, e) /\ e.op # "jp" =>
                C[active][e] = Joins!AddAll(Joins!Measured(1, 0), s)
      BY CostIs DEF s
    <2>8. /\ Followed(whole, e, active) =>
                X[active][e] = Joins!Bind(Joins!Params(whole, e.name), args,
                                          X[active \cup {e.name}][Joins!Continuation(whole, e.name)])
          /\ e.op = "jp" /\ ~Joins!HasJumps(whole, e.name) => X[active][e] = X[active][e.args[1]]
          /\ ~IsJump(whole, e) /\ e.op # "jp" => X[active][e] = WithArgs(e, args)
      <3>1. Followed(whole, e, active) =>
                X[active][e] = Joins!Bind(Joins!Params(whole, e.name), ArgsAt(X, e, active),
                                          X[active \cup {e.name}][Joins!Continuation(whole, e.name)])
        BY ExpandedIs
      <3>2. e.op = "jp" /\ ~Joins!HasJumps(whole, e.name) => X[active][e] = X[active][e.args[1]]
        BY ExpandedIs, ZenonT(60)
      <3>3. ~IsJump(whole, e) /\ e.op # "jp" => X[active][e] = WithArgs(e, ArgsAt(X, e, active))
        BY ExpandedIs, ZenonT(60)
      <3>4. QED BY <3>1, <3>2, <3>3 DEF args
    <2>9. /\ Followed(whole, e, active) =>
                d = Joins!Larger(1 + N[active \cup {e.name}][Joins!Continuation(whole, e.name)], below)
          /\ ~IsJump(whole, e) /\ ~(e.op = "jp" /\ Joins!HasJumps(whole, e.name)) => d = below
      BY NestingIs DEF below
    <2>10. e.op = "jmp" => Followed(whole, e, active)
      BY <1>1, InsideJump
    <2>11. ASSUME NEW start \in Costs, start.error # "UnsupportedJoinPoint",
                  C[active][e] = Joins!AddAll(start, s)
           PROVE  C[active][e].error # "UnsupportedJoinPoint"
      <3>1. \A i \in 1..Len(s) : s[i].error # "UnsupportedJoinPoint"
        BY <2>2, <2>6 DEF Exact
      <3>2. QED BY <2>6, <2>11, <3>1, AddAllUnsupported
    <2>12. ASSUME NEW start \in Costs, start.error = "none", start.depth <= d,
                  C[active][e] = Joins!AddAll(start, s), k + d <= MAX_DEPTH, below <= d,
                  NEW T, Totals(T, args), start.nodes + T[n] <= MAX_NODES,
                  \A i \in 1..n : args[i] \in Joins!Expressions
           PROVE  C[active][e].error = "none" /\ C[active][e].depth <= d
      <3>1. \A i \in 1..n : Joins!Nodes[args[i]] \in Nat
        BY <2>12, NodesTyped
      <3>2. \A i \in 1..n : Joins!Nodes[args[i]] <= MAX_NODES
        <4>1. \A i \in 1..n : Joins!Nodes[args[i]] <= T[n]
          BY <2>6, <2>12, <3>1, TotalsGrow
        <4>2. T[n] \in Nat /\ start.nodes \in Nat
          BY <2>6, <2>12 DEF Totals, Costs
        <4>3. T[n] <= MAX_NODES
          BY <2>3, <2>12, <4>2
        <4>4. QED BY <2>3, <3>1, <4>1, <4>2, <4>3
      <3>3. \A i \in 1..n : N[active][e.args[i]] \in Nat /\ N[active][e.args[i]] <= d /\ k + N[active][e.args[i]] <= MAX_DEPTH
        BY <2>2, <2>3, <2>6, <2>12, SMTT(30)
      <3>4. ASSUME NEW i \in 1..n
            PROVE  /\ s[i].error = "none" /\ s[i].depth <= d
                   /\ s[i].nodes = Joins!Nodes[args[i]] /\ Joins!Nodes[args[i]] \in Nat
        <4>1. s[i] = C[active][e.args[i]] /\ args[i] = X[active][e.args[i]]
          BY <2>6
        <4>2. Exact(s[i], args[i], N[active][e.args[i]], k)
          BY <2>2, <4>1
        <4>3. s[i].error = "none" /\ s[i].depth <= N[active][e.args[i]]
          BY <2>12, <3>2, <3>3, <4>2 DEF Exact
        <4>4. s[i].nodes = Joins!Nodes[args[i]]
          BY <2>5, <4>1, <4>3 DEF Admitted
        <4>5. s[i].depth \in Nat
          BY <2>2, <4>1 DEF Costs
        <4>6. s[i].depth <= d
          BY <2>3, <3>3, <4>3, <4>5
        <4>7. QED BY <3>1, <4>3, <4>4, <4>6
      <3>5. d <= MAX_DEPTH
        BY <2>3, <2>12
      <3>6. FitTogether(n, start, s, args, T, d)
        BY <2>3, <2>6, <2>12, <3>4, <3>5 DEF FitTogether
      <3>7. Joins!AddAll(start, s).error = "none"
        BY <3>6, AddAllFits
      <3>8. Joins!AddAll(start, s).depth <= d
        BY <3>6, AddAllFits
      <3>9. QED BY <2>12, <3>7, <3>8
    <2>13. CASE e.op = "jmp"
      <3> PICK c : c = Joins!Continuation(whole, e.name)
        OBVIOUS
      <3> PICK params : params = Joins!Params(whole, e.name)
        OBVIOUS
      <3> PICK inside : inside = active \cup {e.name}
        OBVIOUS
      <3>1. Followed(whole, e, active) /\ Inside(whole, c, inside)
        BY <1>1, <2>13, InsideJump
      <3>2. e.name \in Joins!declared[whole] \ active
        BY <3>1 DEF Followed
      <3>3. /\ c \in Joins!Expressions /\ Joins!jumps[c] \subseteq Joins!jumps[whole] /\ Len(params) = n
        BY <2>1, <3>1, <3>2, Continuations DEF Followed
      <3>4. /\ inside \in SUBSET Joins!declared[whole] /\ Cardinality(inside) = k + 1
        BY <3>2, ActiveCounts
      <3>5. Fine(c, inside)
        BY <1>1, <3>2, <3>3 DEF S
      <3>6. /\ C[inside][c] \in Costs /\ N[inside][c] \in Nat
            /\ Exact(C[inside][c], X[inside][c], N[inside][c], k + 1)
            /\ C[inside][c].error = "none" => Admitted(C[inside][c], X[inside][c])
        <4>1. C[inside][c] \in Costs /\ N[inside][c] \in Nat
          BY <3>3, <3>4, CostTyped, NestingTyped
        <4>2. Exact(C[inside][c], X[inside][c], N[inside][c], k + 1)
          BY <3>1, <3>4, <3>5
        <4>3. C[inside][c].error = "none" => Admitted(C[inside][c], X[inside][c])
          BY <2>4, <3>3, <3>4, AdmittedFits
        <4>4. QED BY <4>1, <4>2, <4>3
      <3> PICK start : start = Joins!Jump(C[inside][c], params)
        OBVIOUS
      <3>7. /\ start \in Costs
            /\ start.error = "UnsupportedJoinPoint" => C[inside][c].error = "UnsupportedJoinPoint"
        <4>1. Len(params) \in Nat
          BY <2>1, <3>3
        <4>2. start \in Costs
          BY <3>6, <4>1, JumpIsCost
        <4>3. start.error = "UnsupportedJoinPoint" => C[inside][c].error = "UnsupportedJoinPoint"
          BY <3>6, <4>1, JumpCases
        <4>4. QED BY <4>2, <4>3
      <3>8. k < MAX_DEPTH => C[active][e] = Joins!AddAll(start, s)
        BY <2>3, <2>7, <3>1
      <3>9. C[active][e].error # "UnsupportedJoinPoint"
        <4>1. CASE k < MAX_DEPTH
          <5>1. start.error # "UnsupportedJoinPoint"
            BY <3>6, <3>7 DEF Exact
          <5>2. QED BY <2>11, <3>7, <3>8, <4>1, <5>1
        <4>2. CASE ~(k < MAX_DEPTH)
          <5>1. Cardinality(active) >= MAX_DEPTH
            BY <2>3, <4>2
          <5>2. C[active][e] = Joins!Failed("JoinExpansionLimit")
            BY <2>7, <3>1, <5>1
          <5>3. QED BY <5>2 DEF Joins!Failed
        <4>3. QED BY <4>1, <4>2
      <3>10. ASSUME X[active][e] \in Joins!Expressions, Joins!Nodes[X[active][e]] <= MAX_NODES,
                    k + d <= MAX_DEPTH
             PROVE  C[active][e].error = "none" /\ C[active][e].depth <= d
        <4> PICK inner : inner = X[inside][c]
          OBVIOUS
        <4> PICK x : x = X[active][e]
          OBVIOUS
        <4>1. x = Joins!Bind(params, args, inner)
          BY <2>8, <3>1
        <4>2. d = Joins!Larger(1 + N[inside][c], below)
          BY <2>9, <3>1
        <4>3. 1 + N[inside][c] <= d /\ below <= d
          BY <2>6, <3>6, <4>2 DEF Joins!Larger
        <4>4. /\ inner \in Joins!Expressions /\ \A i \in 1..n : args[i] \in Joins!Expressions
              /\ \E T : Totals(T, args) /\ Joins!Nodes[x] = Joins!Nodes[inner] + n + T[n]
          <5>1. Len(params) \in Nat /\ Len(args) = Len(params) /\ Joins!Bind(params, args, inner) \in Joins!Expressions
            BY <2>1, <2>6, <3>3, <3>10, <4>1
          <5>2. inner \in Joins!Expressions
            BY <5>1, BindBackward
          <5>3. \A i \in 1..Len(params) : args[i] \in Joins!Expressions
            BY <5>1, BindBackward
          <5>4. \E T : /\ Totals(T, args)
                       /\ Joins!Nodes[Joins!Bind(params, args, inner)]
                            = Joins!Nodes[inner] + Len(params) + T[Len(params)]
            BY <5>1, BindBackward
          <5>5. QED BY <3>3, <4>1, <5>2, <5>3, <5>4
        <4>5. PICK T : Totals(T, args) /\ Joins!Nodes[x] = Joins!Nodes[inner] + n + T[n]
          BY <4>4
        <4>6. Joins!Nodes[inner] \in Nat /\ T[n] \in Nat
          BY <2>6, <4>4, <4>5, NodesTyped DEF Totals
        <4>7. Joins!Nodes[inner] + n + T[n] <= MAX_NODES /\ Joins!Nodes[inner] + n <= MAX_NODES /\ Joins!Nodes[inner] <= MAX_NODES
          BY <2>3, <3>10, <4>5, <4>6
        <4>8. (k + 1) + N[inside][c] <= MAX_DEPTH
          BY <2>3, <3>6, <3>10, <4>3
        <4>9. C[inside][c].error = "none" /\ C[inside][c].depth <= N[inside][c] /\ C[inside][c].depth \in Nat
          BY <3>6, <4>4, <4>7, <4>8 DEF Exact, Costs
        <4>10. C[inside][c].nodes = Joins!Nodes[inner]
          BY <3>6, <4>9 DEF Admitted
        <4>11. C[inside][c].depth + 1 <= d /\ C[inside][c].depth + 1 <= MAX_DEPTH /\ k < MAX_DEPTH
          BY <2>3, <3>6, <3>10, <4>3, <4>9
        <4>12. start.error = "none" /\ start.nodes = Joins!Nodes[inner] + n /\ start.depth <= C[inside][c].depth + 1
          <5>1. Len(params) \in Nat /\ C[inside][c].nodes + Len(params) <= MAX_NODES
            BY <2>1, <3>3, <4>7, <4>10
          <5>2. /\ start.error = "none" /\ start.nodes = C[inside][c].nodes + Len(params)
                /\ start.depth <= C[inside][c].depth + 1
            BY <3>6, <4>9, <4>11, <5>1, JumpAdmits
          <5>3. QED BY <3>3, <4>10, <5>2
        <4>13. start.depth <= d
          <5>1. start.depth \in Nat
            BY <3>7 DEF Costs
          <5>2. QED BY <2>3, <4>9, <4>11, <4>12, <5>1
        <4>14. QED BY <2>12, <3>7, <3>8, <3>10, <4>3, <4>4, <4>5, <4>7, <4>11, <4>12, <4>13
      <3>11. QED BY <3>9, <3>10 DEF Exact
    <2>14. CASE e.op = "jp" /\ Joins!HasJumps(whole, e.name)
      <3>1. C[active][e].error = "none" /\ C[active][e].depth = 0
        BY <2>7, <2>14 DEF Joins!Measured
      <3>2. QED BY <2>3, <3>1 DEF Exact
    <2>15. CASE e.op = "jp" /\ ~Joins!HasJumps(whole, e.name)
      <3>1. 1 \in 1..n
        BY <2>1, <2>15, JpChild
      <3> PICK f : f = e.args[1]
        OBVIOUS
      <3>2. C[active][e] = C[active][f] /\ X[active][e] = X[active][f]
        BY <2>7, <2>8, <2>15
      <3>3. ~IsJump(whole, e)
        BY <2>15 DEF IsJump
      <3>4. d = below
        BY <2>9, <2>15, <3>3
      <3>5. /\ N[active][f] \in Nat /\ N[active][f] <= d
            /\ C[active][f] \in Costs /\ Exact(C[active][f], X[active][f], N[active][f], k)
        BY <2>2, <2>6, <3>1, <3>4
      <3>6. C[active][f].depth \in Nat
        BY <3>5 DEF Costs
      <3>7. k + d <= MAX_DEPTH => k + N[active][f] <= MAX_DEPTH
        BY <2>3, <3>5
      <3>8. C[active][f].depth <= N[active][f] => C[active][f].depth <= d
        BY <2>3, <3>5, <3>6
      <3>9. QED BY <3>2, <3>5, <3>7, <3>8 DEF Exact
    <2>16. CASE e.op # "jmp" /\ e.op # "jp"
      <3> PICK start : start = Joins!Measured(1, 0)
        OBVIOUS
      <3>0. start \in Costs
        BY MeasuredIsCost
      <3>1. start.error = "none" /\ start.nodes = 1 /\ start.depth = 0
        BY DEF Joins!Measured
      <3>2. ~IsJump(whole, e)
        BY <2>16 DEF IsJump
      <3>3. /\ C[active][e] = Joins!AddAll(start, s) /\ X[active][e] = WithArgs(e, args)
            /\ d = below
        BY <2>7, <2>8, <2>9, <2>16, <3>2
      <3>4. C[active][e].error # "UnsupportedJoinPoint"
        BY <2>11, <3>0, <3>1, <3>3
      <3>5. ASSUME X[active][e] \in Joins!Expressions, Joins!Nodes[X[active][e]] <= MAX_NODES,
                   k + d <= MAX_DEPTH
            PROVE  C[active][e].error = "none" /\ C[active][e].depth <= d
        <4> PICK x : x = X[active][e]
          OBVIOUS
        <4>1. x.args = args
          BY <3>3, ExpressionFields DEF WithArgs
        <4>2. \A i \in 1..n : args[i] \in Joins!Expressions
          BY <2>6, <3>5, <4>1, ExpressionFields
        <4>3. PICK T : Totals(T, args) /\ Joins!Nodes[x] = 1 + T[n]
          BY <2>6, <3>5, <4>1, NodesUnfold
        <4>4. start.nodes + T[n] <= MAX_NODES /\ start.depth <= d /\ below <= d
          BY <2>3, <3>1, <3>3, <3>5, <4>3
        <4>5. QED BY <2>12, <3>0, <3>1, <3>3, <3>5, <4>2, <4>3, <4>4
      <3>6. QED BY <3>4, <3>5 DEF Exact
    <2>17. QED BY <2>13, <2>14, <2>15, <2>16
  <1>2. \A e \in Joins!Expressions, active \in SUBSET Joins!declared[whole] : <<e, active>> \in S
    <2>1. ASSUME NEW e \in Joins!Expressions, NEW active \in SUBSET Joins!declared[whole],
                 \A i \in DOMAIN e.args : <<e.args[i], active>> \in S,
                 \A m \in Joins!declared[whole] \ active, c \in Joins!Expressions : <<c, active \cup {m}>> \in S
          PROVE  <<e, active>> \in S
      <3>1. Fine(e, active)
        BY <1>1, <2>1
      <3>2. QED BY <3>1
    <2> HIDE DEF S
    <2>2. QED BY <2>1, PairInduction
  <1>3. QED BY <1>2

-----------------------------------------------------------------------------
(* Compaction keeps what admission asks of a body.                         *)

\* The continuations available in the i-th child, and whether it is at the tail
\* (factor_tail_diamonds).
availableAt(e, i, available) ==
    IF e.op = "let" /\ i = 2 /\ e.args[1].op = "jp" THEN available \cup {e.args[1].name} ELSE available
\* Whether the i-th child is at the tail.
tailAt(e, i, tail) == e.op = "jp" \/ (e.op \in {"let", "branch"} /\ i > 1 /\ tail)
\* The children as compaction leaves them.
factoredArgs(h, e, available, tail) ==
    [i \in DOMAIN e.args |-> h[e.args[i]][availableAt(e, i, available)][tailAt(e, i, tail)]]
\* The equation of factor_tail_diamonds.
factorOf(h, e) ==
    [available \in SUBSET Names |-> [tail \in BOOLEAN |->
        IF tail THEN Joins!Factor(WithArgs(e, factoredArgs(h, e, available, tail)), available)
                ELSE WithArgs(e, factoredArgs(h, e, available, tail))]]

\* It looks at the children only.
LEMMA FactorLocal ==
    ASSUME NEW e \in Joins!Expressions, NEW g, NEW h,
           \A i \in DOMAIN e.args : g[e.args[i]] = h[e.args[i]]
    PROVE  factorOf(g, e) = factorOf(h, e)
  <1>1. ASSUME NEW available, NEW tail
        PROVE  factoredArgs(g, e, available, tail) = factoredArgs(h, e, available, tail)
    BY DEF factoredArgs
  <1>2. QED BY <1>1 DEF factorOf

\* factor_tail_diamonds is what its equation says.
LEMMA FactorDef == \A e \in Joins!Expressions : Joins!factor_tail_diamonds[e] = factorOf(Joins!factor_tail_diamonds, e)
  <1> DEFINE Round(h) == [e \in Joins!Expressions |-> factorOf(h, e)]
             S == {n \in 0..(MAX_NODES + 1) : \E h : \A e \in Lower(n) : h[e] = factorOf(h, e)}
  <1>1. ASSUME NEW n \in 1..(MAX_NODES + 1), n - 1 \in S PROVE n \in S
    <2>1. PICK h : \A e \in Lower(n - 1) : h[e] = factorOf(h, e)
      BY <1>1
    <2>2. ASSUME NEW e \in Lower(n) PROVE Round(h)[e] = factorOf(Round(h), e)
      <3>1. e \in Joins!Expressions /\ \A i \in DOMAIN e.args : e.args[i] \in Lower(n - 1) /\ e.args[i] \in Joins!Expressions
        BY LowerFields
      <3>2. \A i \in DOMAIN e.args : Round(h)[e.args[i]] = h[e.args[i]]
        BY <2>1, <3>1
      <3> HIDE DEF Round
      <3>3. factorOf(Round(h), e) = factorOf(h, e)
        BY <3>1, <3>2, FactorLocal
      <3> USE DEF Round
      <3>4. QED BY <3>1, <3>3
    <2> HIDE DEF Round
    <2>3. QED BY <2>2
  <1>2. 0 \in S
    BY LimitsAssumption DEF Lower
  <1>3. MAX_NODES + 1 \in S
    <2> HIDE DEF S
    <2>1. MAX_NODES + 1 \in Nat /\ MAX_NODES + 1 \in 0..(MAX_NODES + 1)
      BY LimitsAssumption
    <2>2. 0..(MAX_NODES + 1) \subseteq S
      BY <1>1, <1>2, <2>1, RangeInduction
    <2>3. QED BY <2>1, <2>2
  <1>4. PICK h : \A e \in Joins!Expressions : h[e] = factorOf(h, e)
    BY <1>3, LowerAll
  <1>5. Round(h) = Round(Round(h))
    <2>1. \A e \in Joins!Expressions : Round(h)[e] = h[e]
      BY <1>4
    <2> HIDE DEF Round
    <2>2. ASSUME NEW e \in Joins!Expressions PROVE factorOf(h, e) = factorOf(Round(h), e)
      <3>1. \A i \in DOMAIN e.args : Round(h)[e.args[i]] = h[e.args[i]]
        BY <2>1, ExpressionFields
      <3>2. QED BY <3>1, FactorLocal
    <2> USE DEF Round
    <2>3. QED BY <2>2
  <1>6. Joins!factor_tail_diamonds = Round(Joins!factor_tail_diamonds)
    <2>1. \E f : f = Round(f)
      BY <1>5
    <2>2. Joins!factor_tail_diamonds = CHOOSE f : f = Round(f)
      BY DEF Joins!factor_tail_diamonds, factorOf, factoredArgs, availableAt, tailAt, WithArgs
    <2> HIDE DEF Round
    <2>3. QED BY <2>1, <2>2
  <1>7. QED BY <1>6

\* Two expressions with the same join points: parameters and jumps of their bodies.
SameJoins(x, e) ==
    /\ x \in Joins!Expressions /\ Joins!declared[x] = Joins!declared[e]
    /\ \A name \in Joins!declared[e] :
          /\ Joins!Params(x, name) = Joins!Params(e, name)
          /\ Joins!jumps[Joins!Continuation(x, name)] = Joins!jumps[Joins!Continuation(e, name)]

\* An expression has its own join points.
LEMMA SameJoinsItself == \A e \in Joins!Expressions : SameJoins(e, e)
  BY DEF SameJoins

\* Having the same join points is transitive.
LEMMA SameJoinsTransitive ==
    ASSUME NEW x, NEW y, NEW z, SameJoins(x, y), SameJoins(y, z)
    PROVE  SameJoins(x, z)
  BY DEF SameJoins

\* The declaration of a name is the expression itself or that of a child.
LEMMA DeclarationIs ==
    ASSUME NEW e \in Joins!Expressions, NEW name \in Names,
           NEW found, found = {i \in DOMAIN e.args : name \in Joins!declared[e.args[i]]}
    PROVE  /\ found = {} => Joins!declaration[e][name] = e
           /\ found # {} => /\ Joins!Latest(found) \in found
                            /\ Joins!declaration[e][name]
                                 = Joins!declaration[e.args[Joins!Latest(found)]][name]
  <1>1. Joins!declaration[e] = declarationOf(Joins!declaration, e)
    BY DeclarationDef
  <1>2. Joins!declaration[e][name]
          = IF found = {} THEN e ELSE Joins!declaration[e.args[Joins!Latest(found)]][name]
    BY <1>1 DEF declarationOf
  <1>3. found = {i \in DOMAIN e.args : i \in found}
    OBVIOUS
  <1>4. found # {} => Joins!Latest(found) \in found
    BY <1>3, LatestChild
  <1>5. QED BY <1>2, <1>4

\* What no child declares is declared by the expression itself.
LEMMA DeclarationHere ==
    ASSUME NEW e \in Joins!Expressions, NEW name \in Names,
           \A i \in DOMAIN e.args : name \notin Joins!declared[e.args[i]]
    PROVE  Joins!declaration[e][name] = e
  <1> PICK found : found = {i \in DOMAIN e.args : name \in Joins!declared[e.args[i]]}
    OBVIOUS
  <1>1. found = {}
    OBVIOUS
  <1>2. QED BY <1>1, DeclarationIs

\* What is declared by e is declared by a child, or e is the declaration.
LEMMA DeclaredWhere ==
    ASSUME NEW e \in Joins!Expressions, NEW name \in Joins!declared[e],
           \A i \in DOMAIN e.args : name \notin Joins!declared[e.args[i]]
    PROVE  e.op = "jp" /\ e.name = name
  <1>1. name \in (IF e.op = "jp" THEN {e.name} ELSE {}) \cup UNION {Joins!declared[e.args[i]] : i \in DOMAIN e.args}
    BY DeclaredDef DEF declaredOf
  <1>2. QED BY <1>1

\* Arguments with the same join points, in the same expression.
LEMMA SameJoinsRebuilt ==
    ASSUME NEW e \in Joins!Expressions, NEW args \in Seq(Joins!Expressions), Len(args) = Len(e.args),
           NEW x, x = WithArgs(e, args), x \in Joins!Expressions,
           \A i \in 1..Len(args) : SameJoins(args[i], e.args[i]),
           e.op = "jp" => Joins!jumps[args[1]] = Joins!jumps[e.args[1]]
    PROVE  SameJoins(x, e)
  <1>1. PICK n \in Nat : n = Len(args) /\ DOMAIN args = 1..n /\ DOMAIN e.args = 1..n
    <2>1. DOMAIN e.args = 1..Len(e.args)
      BY ExpressionFields
    <2>2. DOMAIN args = 1..Len(args) /\ Len(args) \in Nat
      OBVIOUS
    <2>3. QED BY <2>1, <2>2
  <1>2. x.op = e.op /\ x.name = e.name /\ x.names = e.names /\ x.args = args
    BY ExpressionFields DEF WithArgs
  <1>3. \A i \in 1..n : Joins!declared[args[i]] = Joins!declared[e.args[i]]
    BY <1>1 DEF SameJoins
  <1>4. Joins!declared[x] = Joins!declared[e]
    <2>1. /\ Joins!declared[x] = declaredOf(Joins!declared, x)
          /\ Joins!declared[e] = declaredOf(Joins!declared, e)
      BY DeclaredDef
    <2>2. UNION {Joins!declared[x.args[i]] : i \in DOMAIN x.args}
            = UNION {Joins!declared[e.args[i]] : i \in DOMAIN e.args}
      BY <1>1, <1>2, <1>3
    <2>3. QED BY <1>2, <2>1, <2>2 DEF declaredOf
  <1>5. ASSUME NEW name \in Joins!declared[e]
        PROVE  /\ Joins!Params(x, name) = Joins!Params(e, name)
               /\ Joins!jumps[Joins!Continuation(x, name)] = Joins!jumps[Joins!Continuation(e, name)]
    <2>0. name \in Names
      BY NamesTyped
    <2> PICK found : found = {i \in DOMAIN e.args : name \in Joins!declared[e.args[i]]}
      OBVIOUS
    <2>1. found = {i \in DOMAIN x.args : name \in Joins!declared[x.args[i]]}
      BY <1>1, <1>2, <1>3
    <2>2. CASE found = {}
      <3>1. Joins!declaration[x][name] = x /\ Joins!declaration[e][name] = e
        <4>1. /\ \A i \in DOMAIN x.args : name \notin Joins!declared[x.args[i]]
              /\ \A i \in DOMAIN e.args : name \notin Joins!declared[e.args[i]]
          BY <2>1, <2>2
        <4>2. QED BY <2>0, <4>1, DeclarationHere
      <3>2. e.op = "jp"
        BY <2>2, DeclaredWhere, SMTT(60)
      <3>3. QED BY <1>2, <3>1, <3>2 DEF Joins!Params, Joins!Continuation
    <2>3. CASE found # {}
      <3> PICK k : k = Joins!Latest(found)
        OBVIOUS
      <3>1. /\ k \in found
            /\ Joins!declaration[e][name] = Joins!declaration[e.args[k]][name]
        BY <2>0, <2>3, DeclarationIs
      <3>2. Joins!declaration[x][name] = Joins!declaration[x.args[k]][name]
        BY <2>0, <2>1, <2>3, DeclarationIs, ZenonT(60)
      <3>3. k \in 1..n /\ name \in Joins!declared[e.args[k]] /\ SameJoins(args[k], e.args[k]) /\ x.args[k] = args[k]
        BY <1>1, <1>2, <3>1
      <3>4. /\ Joins!Params(args[k], name) = Joins!Params(e.args[k], name)
            /\ Joins!jumps[Joins!Continuation(args[k], name)] = Joins!jumps[Joins!Continuation(e.args[k], name)]
        BY <3>3 DEF SameJoins
      <3>5. QED BY <3>1, <3>2, <3>3, <3>4, ZenonT(30) DEF Joins!Params, Joins!Continuation
    <2>4. QED BY <2>2, <2>3
  <1>6. QED BY <1>4, <1>5 DEF SameJoins

\* A jump declares what its one argument declares.
LEMMA SameJoinsJump ==
    ASSUME NEW x \in Joins!Expressions, NEW a \in Joins!Expressions, x.op = "jmp", x.args = <<a>>
    PROVE  SameJoins(a, x) /\ SameJoins(x, a)
  <1>1. DOMAIN x.args = {1} /\ x.args[1] = a
    OBVIOUS
  <1>2. Joins!declared[x] = Joins!declared[a]
    <2>1. Joins!declared[x] = declaredOf(Joins!declared, x)
      BY DeclaredDef
    <2>2. QED BY <1>1, <2>1 DEF declaredOf
  <1>3. ASSUME NEW name \in Joins!declared[a]
        PROVE  Joins!declaration[x][name] = Joins!declaration[a][name]
    <2>0. name \in Names
      BY NamesTyped
    <2> PICK found : found = {i \in DOMAIN x.args : name \in Joins!declared[x.args[i]]}
      OBVIOUS
    <2>1. found # {} /\ \A i \in found : i = 1
      BY <1>1
    <2>2. /\ Joins!Latest(found) \in found
          /\ Joins!declaration[x][name] = Joins!declaration[x.args[Joins!Latest(found)]][name]
      BY <2>0, <2>1, DeclarationIs
    <2>3. Joins!Latest(found) = 1
      BY <2>1, <2>2
    <2>4. QED BY <1>1, <2>2, <2>3
  <1>4. QED BY <1>2, <1>3 DEF SameJoins, Joins!Params, Joins!Continuation

\* Arguments that are no larger are no larger together.
LEMMA TotalsBelow ==
    ASSUME NEW n \in Nat, NEW args, Len(args) = n, NEW T, Totals(T, args),
           NEW xs, Len(xs) = n, NEW U, Totals(U, xs),
           \A i \in 1..n : /\ Joins!Nodes[args[i]] \in Nat /\ Joins!Nodes[xs[i]] \in Nat
                           /\ Joins!Nodes[xs[i]] <= Joins!Nodes[args[i]]
    PROVE  /\ U[n] \in Nat /\ T[n] \in Nat /\ U[n] <= T[n]
           /\ \A k \in 1..n : Joins!Nodes[xs[k]] < Joins!Nodes[args[k]] => U[n] < T[n]
  <1>1. /\ T \in [0..n -> Nat] /\ T[0] = 0 /\ U \in [0..n -> Nat] /\ U[0] = 0
        /\ \A i \in 1..n : T[i] = T[i - 1] + Joins!Nodes[args[i]] /\ U[i] = U[i - 1] + Joins!Nodes[xs[i]]
    BY DEF Totals
  <1>2. ASSUME NEW i \in 1..n
        PROVE  /\ T[i] \in Nat /\ T[i - 1] \in Nat /\ U[i] \in Nat /\ U[i - 1] \in Nat
               /\ U[i] - U[i - 1] <= T[i] - T[i - 1]
               /\ Joins!Nodes[xs[i]] < Joins!Nodes[args[i]] => U[i] - U[i - 1] < T[i] - T[i - 1]
    <2>1. i \in 0..n /\ i - 1 \in 0..n
      OBVIOUS
    <2>2. PICK a \in Nat, b \in Nat, t \in Nat, u \in Nat :
              a = Joins!Nodes[args[i]] /\ b = Joins!Nodes[xs[i]] /\ t = T[i - 1] /\ u = U[i - 1]
      BY <1>1, <2>1
    <2>3. T[i] = t + a /\ U[i] = u + b /\ b <= a
      BY <1>1, <2>2
    <2>4. /\ t + a \in Nat /\ u + b \in Nat /\ (u + b) - u <= (t + a) - t
          /\ b < a => (u + b) - u < (t + a) - t
      BY <2>3
    <2>5. QED BY <2>2, <2>3, <2>4
  <1>3. \A j \in 0..n : \A i \in 0..j : T[i] - U[i] <= T[j] - U[j]
    BY <1>1, <1>2, SeriesCompare
  <1>4. n \in 0..n /\ 0 \in 0..n /\ T[n] \in Nat /\ U[n] \in Nat
    BY <1>1
  <1>5. T[0] - U[0] <= T[n] - U[n]
    BY <1>3, <1>4
  <1>6. U[n] <= T[n]
    BY <1>1, <1>4, <1>5
  <1>7. ASSUME NEW k \in 1..n, Joins!Nodes[xs[k]] < Joins!Nodes[args[k]] PROVE U[n] < T[n]
    <2>1. k \in 0..n /\ k - 1 \in 0..n /\ 0 \in 0..(k - 1) /\ k \in 0..n /\ n \in Nat
      OBVIOUS
    <2>2. T[0] - U[0] <= T[k - 1] - U[k - 1]
      BY <1>3, <2>1
    <2>3. T[k] - U[k] <= T[n] - U[n]
      BY <1>3, <1>4, <2>1
    <2>4. /\ T[k] \in Nat /\ T[k - 1] \in Nat /\ U[k] \in Nat /\ U[k - 1] \in Nat
          /\ U[k] - U[k - 1] < T[k] - T[k - 1]
      BY <1>2, <1>7
    <2>5. QED BY <1>1, <1>4, <2>2, <2>3, <2>4
  <1>8. QED BY <1>4, <1>6, <1>7

\* An expression with arguments that are no larger is no larger.
LEMMA RebuiltSmaller ==
    ASSUME NEW e \in Joins!Expressions, Joins!Nodes[e] <= MAX_NODES,
           NEW args \in Seq(Joins!Expressions), Len(args) = Len(e.args),
           \A i \in 1..Len(args) : Joins!Nodes[args[i]] <= Joins!Nodes[e.args[i]],
           NEW x, x = WithArgs(e, args)
    PROVE  /\ x \in Joins!Expressions /\ Joins!Nodes[x] <= Joins!Nodes[e]
           /\ \A k \in 1..Len(args) : Joins!Nodes[args[k]] < Joins!Nodes[e.args[k]]
                                        => Joins!Nodes[x] < Joins!Nodes[e]
  <1>1. PICK n \in Nat : n = Len(args) /\ n = Len(e.args) /\ DOMAIN e.args = 1..n
    BY ExpressionFields
  <1>2. /\ \A i \in 1..n : args[i] \in Joins!Expressions /\ e.args[i] \in Joins!Expressions
        /\ \A i \in 1..n : Joins!Nodes[args[i]] \in Nat /\ Joins!Nodes[e.args[i]] \in Nat
    <2>1. \A i \in 1..n : args[i] \in Joins!Expressions
      BY <1>1
    <2>2. \A i \in 1..n : e.args[i] \in Joins!Expressions
      BY <1>1, ExpressionFields
    <2>3. QED BY <2>1, <2>2, NodesTyped
  <1>3. PICK T : Totals(T, e.args) /\ Joins!Nodes[e] = 1 + T[n]
    BY <1>1, NodesUnfold
  <1>4. PICK U : Totals(U, args)
    BY <1>1, <1>2, TotalsExist
  <1>5. /\ U[n] \in Nat /\ T[n] \in Nat /\ U[n] <= T[n]
        /\ \A k \in 1..n : Joins!Nodes[args[k]] < Joins!Nodes[e.args[k]] => U[n] < T[n]
    BY <1>1, <1>2, <1>3, <1>4, TotalsBelow
  <1>6. 1 + U[n] <= MAX_NODES
    BY <1>3, <1>5, LimitsAssumption
  <1>7. x \in Joins!Expressions /\ Joins!Nodes[x] = 1 + U[n]
    <2>1. 1 + U[Len(args)] <= MAX_NODES
      BY <1>1, <1>6
    <2>2. x \in Joins!Expressions /\ Joins!Nodes[x] = 1 + U[Len(args)]
      BY <1>4, <2>1, Rebuilt
    <2>3. QED BY <1>1, <2>2
  <1>8. QED BY <1>1, <1>3, <1>5, <1>7

\* The one tail destination.
LEMMA OneDestination ==
    ASSUME NEW e \in Joins!Expressions, e.op = "branch", Joins!tail_destination[e] # {}
    PROVE  \E name : Joins!tail_destination[e] = {name}
  <1>1. Joins!tail_destination[e] = destinationOf(Joins!tail_destination, e)
    BY DestinationDef
  <1>2. Joins!tail_destination[e] =
          {name \in UNION {Joins!tail_destination[e.args[i]] : i \in Joins!Alternatives(e)} :
               \A i \in Joins!Alternatives(e) : Joins!tail_destination[e.args[i]] = {name}}
    BY <1>1 DEF destinationOf
  <1>3. PICK name : name \in Joins!tail_destination[e]
    OBVIOUS
  <1>4. PICK i \in Joins!Alternatives(e) : name \in Joins!tail_destination[e.args[i]]
    BY <1>2, <1>3
  <1>5. \A other \in Joins!tail_destination[e] : Joins!tail_destination[e.args[i]] = {other}
    BY <1>2, <1>4
  <1>6. \A other \in Joins!tail_destination[e] : other = name
    <2>1. Joins!tail_destination[e.args[i]] = {name}
      BY <1>3, <1>5
    <2>2. QED BY <1>5, <2>1
  <1>7. Joins!tail_destination[e] = {name}
    BY <1>3, <1>6
  <1>8. QED BY <1>7

\* The cases of a tail destination.
LEMMA DestinationCases ==
    ASSUME NEW e \in Joins!Expressions, NEW name, Joins!tail_destination[e] = {name}
    PROVE  \/ e.op = "jmp" /\ Len(e.args) = 1 /\ e.name = name
           \/ /\ e.op \in {"let", "branch"}
              /\ \E k \in DOMAIN e.args : k > 1
              /\ \A i \in DOMAIN e.args : i > 1 => Joins!tail_destination[e.args[i]] = {name}
  <1>1. Joins!tail_destination[e] = destinationOf(Joins!tail_destination, e)
    BY DestinationDef
  <1>2. Joins!Shaped(e) /\ DOMAIN e.args = 1..Len(e.args) /\ Len(e.args) \in Nat
    BY ExpressionFields
  <1>3. CASE e.op = "jmp" /\ Len(e.args) = 1
    BY <1>1, <1>3 DEF destinationOf
  <1>4. CASE e.op = "let"
    <2>1. Joins!tail_destination[e.args[2]] = {name}
      BY <1>1, <1>4 DEF destinationOf
    <2>2. DOMAIN e.args = 1..2
      BY <1>2, <1>4 DEF Joins!Shaped
    <2>3. QED BY <1>4, <2>1, <2>2
  <1>5. CASE e.op = "branch"
    <2>1. {name} = {m \in UNION {Joins!tail_destination[e.args[i]] : i \in Joins!Alternatives(e)} :
               \A i \in Joins!Alternatives(e) : Joins!tail_destination[e.args[i]] = {m}}
      BY <1>1, <1>5 DEF destinationOf
    <2>2. /\ \E i \in Joins!Alternatives(e) : TRUE
          /\ \A i \in Joins!Alternatives(e) : Joins!tail_destination[e.args[i]] = {name}
      BY <2>1
    <2>3. Joins!Alternatives(e) = {i \in DOMAIN e.args : i > 1}
      BY <1>2 DEF Joins!Alternatives
    <2>4. QED BY <1>5, <2>2, <2>3
  <1>6. CASE ~(e.op = "jmp" /\ Len(e.args) = 1) /\ e.op # "let" /\ e.op # "branch"
    <2>1. Joins!tail_destination[e] = {}
      BY <1>1, <1>6 DEF destinationOf
    <2>2. QED BY <2>1
  <1>7. QED BY <1>3, <1>4, <1>5, <1>6

\* What take_tail_arguments leaves of an expression: its join points, less size, and
\* where every tail jumps to one destination, all jumps but that.
Taken(x, e) ==
    /\ SameJoins(x, e) /\ Joins!Nodes[x] <= Joins!Nodes[e]
    /\ \A name : Joins!tail_destination[e] = {name} =>
          /\ Joins!Nodes[x] < Joins!Nodes[e]
          /\ Joins!jumps[e] = Joins!jumps[x] \cup {<<name, 1>>}

\* The arguments of take_tail_arguments below a let or a branch.
takenArgs(e) ==
    [i \in DOMAIN e.args |-> IF i = 1 THEN e.args[i] ELSE Joins!take_tail_arguments[e.args[i]]]

\* take_tail_arguments, case by case.
LEMMA TakenIs ==
    ASSUME NEW e \in Joins!Expressions, NEW x, x = Joins!take_tail_arguments[e]
    PROVE  /\ e.op = "jmp" /\ Len(e.args) = 1 => x = e.args[1]
           /\ e.op \in {"let", "branch"} => x = WithArgs(e, takenArgs(e))
           /\ ~(e.op = "jmp" /\ Len(e.args) = 1) /\ e.op \notin {"let", "branch"} => x = e
  <1>1. x = takenOf(Joins!take_tail_arguments, e)
    BY TakenDef
  <1>2. x = IF e.op = "jmp" /\ Len(e.args) = 1 THEN e.args[1]
            ELSE IF e.op \in {"let", "branch"} THEN WithArgs(e, takenArgs(e))
            ELSE e
    BY <1>1 DEF takenOf, WithArgs, takenArgs
  <1>3. e.op = "jmp" => e.op \notin {"let", "branch"}
    OBVIOUS
  <1>4. QED BY <1>2, <1>3

\* The jumps of a jump with one argument.
LEMMA JumpsOfJump ==
    ASSUME NEW e \in Joins!Expressions, e.op = "jmp", Len(e.args) = 1
    PROVE  /\ e.args[1] \in Joins!Expressions /\ e.args = <<e.args[1]>> /\ 1 \in DOMAIN e.args
           /\ Joins!jumps[e] = Joins!jumps[e.args[1]] \cup {<<e.name, 1>>}
  <1>1. e.args \in Seq(Joins!Expressions) /\ DOMAIN e.args = 1..1
    BY ExpressionFields
  <1>2. e.args[1] \in Joins!Expressions /\ e.args = <<e.args[1]>> /\ 1 \in DOMAIN e.args
    BY <1>1
  <1>3. Joins!jumps[e] = jumpsOf(Joins!jumps, e)
    BY JumpsDef
  <1>4. UNION {Joins!jumps[e.args[i]] : i \in DOMAIN e.args} = Joins!jumps[e.args[1]]
    BY <1>1
  <1>5. jumpsOf(Joins!jumps, e) = {<<e.name, Len(e.args)>>} \cup UNION {Joins!jumps[e.args[i]] : i \in DOMAIN e.args}
    BY DEF jumpsOf
  <1>6. QED BY <1>2, <1>3, <1>4, <1>5

\* What is no jump has the jumps of its arguments.
LEMMA JumpsOfOther ==
    ASSUME NEW e \in Joins!Expressions, e.op # "jmp"
    PROVE  Joins!jumps[e] = JumpsIn(e.args)
  <1>1. Joins!jumps[e] = jumpsOf(Joins!jumps, e) /\ DOMAIN e.args = 1..Len(e.args)
    BY JumpsDef, ExpressionFields
  <1>2. QED BY <1>1 DEF jumpsOf, JumpsIn

\* take_tail_arguments keeps the join points and removes the jumps to the destination.
LEMMA TakeTail ==
    \A e \in Joins!Expressions :
        Joins!Nodes[e] <= MAX_NODES => Taken(Joins!take_tail_arguments[e], e)
  <1> DEFINE S == {e \in Joins!Expressions :
                     Joins!Nodes[e] <= MAX_NODES => Taken(Joins!take_tail_arguments[e], e)}
  <1>1. ASSUME NEW e \in Joins!Expressions, \A i \in DOMAIN e.args : e.args[i] \in S,
               Joins!Nodes[e] <= MAX_NODES
        PROVE  Taken(Joins!take_tail_arguments[e], e)
    <2>1. PICK n \in Nat : n = Len(e.args) /\ DOMAIN e.args = 1..n
      BY ExpressionFields
    <2> PICK x : x = Joins!take_tail_arguments[e]
      OBVIOUS
    <2>2. \A i \in 1..n : e.args[i] \in Joins!Expressions /\ Joins!Nodes[e.args[i]] \in Nat
                            /\ Joins!Nodes[e.args[i]] < Joins!Nodes[e]
      <3>1. \A i \in 1..n : e.args[i] \in Joins!Expressions
        BY <2>1, ExpressionFields
      <3>2. \A i \in 1..n : Joins!Nodes[e.args[i]] < Joins!Nodes[e]
        BY <2>1, ChildSmaller
      <3>3. QED BY <3>1, <3>2, NodesTyped
    <2>3. Joins!Nodes[e] \in Nat /\ MAX_NODES \in Nat
      BY NodesTyped, LimitsAssumption
    <2>4. \A i \in 1..n : Taken(Joins!take_tail_arguments[e.args[i]], e.args[i])
      <3>1. \A i \in 1..n : Joins!Nodes[e.args[i]] <= MAX_NODES
        BY <1>1, <2>2, <2>3
      <3>2. QED BY <1>1, <2>1, <3>1
    <2> HIDE DEF S
    <2>5. CASE e.op = "jmp" /\ Len(e.args) = 1
      <3> PICK a : a = e.args[1]
        OBVIOUS
      <3>1. x = a
        BY <2>5, TakenIs
      <3>2. /\ a \in Joins!Expressions /\ e.args = <<a>> /\ 1 \in 1..n
            /\ Joins!jumps[e] = Joins!jumps[a] \cup {<<e.name, 1>>}
        BY <2>1, <2>5, JumpsOfJump
      <3>3. SameJoins(a, e)
        BY <2>5, <3>2, SameJoinsJump
      <3>4. Joins!Nodes[a] < Joins!Nodes[e] /\ Joins!Nodes[a] <= Joins!Nodes[e]
        BY <2>2, <2>3, <3>2
      <3>5. \A name : Joins!tail_destination[e] = {name} => e.name = name
        BY <2>5, DestinationCases
      <3>6. QED BY <3>1, <3>2, <3>3, <3>4, <3>5 DEF Taken
    <2>6. CASE e.op \in {"let", "branch"}
      <3> PICK args : args = takenArgs(e)
        OBVIOUS
      <3>1. x = WithArgs(e, args)
        BY <2>6, TakenIs
      <3>2. /\ DOMAIN args = 1..n
            /\ args = [i \in 1..n |-> args[i]]
            /\ \A i \in 1..n : i = 1 => args[i] = e.args[i]
            /\ \A i \in 1..n : i # 1 => args[i] = Joins!take_tail_arguments[e.args[i]]
        BY <2>1 DEF takenArgs
      <3>3. ASSUME NEW i \in 1..n
            PROVE  /\ SameJoins(args[i], e.args[i]) /\ args[i] \in Joins!Expressions
                   /\ Joins!Nodes[args[i]] <= Joins!Nodes[e.args[i]]
        <4>1. CASE i = 1
          BY <2>2, <3>2, <4>1, SameJoinsItself
        <4>2. CASE i # 1
          <5>1. Taken(args[i], e.args[i])
            BY <2>4, <3>2, <4>2
          <5>2. QED BY <5>1 DEF Taken, SameJoins
        <4>3. QED BY <4>1, <4>2
      <3>4. args \in Seq(Joins!Expressions) /\ Len(args) = n
        <4>1. args \in [1..n -> Joins!Expressions]
          BY <3>2, <3>3
        <4>2. QED BY <4>1
      <3>5. /\ x \in Joins!Expressions /\ Joins!Nodes[x] <= Joins!Nodes[e]
            /\ \A k \in 1..n : Joins!Nodes[args[k]] < Joins!Nodes[e.args[k]]
                                        => Joins!Nodes[x] < Joins!Nodes[e]
        <4>1. Len(args) = Len(e.args) /\ \A i \in 1..Len(args) : Joins!Nodes[args[i]] <= Joins!Nodes[e.args[i]]
          BY <2>1, <3>3, <3>4
        <4>2. /\ x \in Joins!Expressions /\ Joins!Nodes[x] <= Joins!Nodes[e]
              /\ \A k \in 1..Len(args) : Joins!Nodes[args[k]] < Joins!Nodes[e.args[k]]
                                        => Joins!Nodes[x] < Joins!Nodes[e]
          BY <1>1, <3>1, <3>4, <4>1, RebuiltSmaller
        <4>3. QED BY <3>4, <4>2
      <3>6. e.op # "jp" /\ e.op # "jmp"
        BY <2>6
      <3>7. SameJoins(x, e)
        <4>1. Len(args) = Len(e.args) /\ \A i \in 1..Len(args) : SameJoins(args[i], e.args[i])
          BY <2>1, <3>3, <3>4
        <4>2. QED BY <3>1, <3>4, <3>5, <3>6, <4>1, SameJoinsRebuilt
      <3>8. ASSUME NEW name, Joins!tail_destination[e] = {name}
            PROVE  /\ Joins!Nodes[x] < Joins!Nodes[e]
                   /\ Joins!jumps[e] = Joins!jumps[x] \cup {<<name, 1>>}
        <4>1. /\ \E k \in 1..n : k > 1
              /\ \A i \in 1..n : i > 1 => Joins!tail_destination[e.args[i]] = {name}
          BY <2>1, <3>6, <3>8, DestinationCases
        <4>2. ASSUME NEW i \in 1..n, i # 1
              PROVE  /\ Joins!Nodes[args[i]] < Joins!Nodes[e.args[i]]
                     /\ Joins!jumps[e.args[i]] = Joins!jumps[args[i]] \cup {<<name, 1>>}
          <5>1. Taken(args[i], e.args[i]) /\ Joins!tail_destination[e.args[i]] = {name}
            BY <2>4, <3>2, <4>1, <4>2
          <5>2. QED BY <5>1 DEF Taken
        <4>3. Joins!jumps[e] = JumpsIn(e.args) /\ Joins!jumps[x] = JumpsIn(args)
          <5>1. x.op = e.op /\ x.args = args
            BY <3>1, ExpressionFields DEF WithArgs
          <5>2. QED BY <3>5, <3>6, <5>1, JumpsOfOther
        <4>4. PICK k \in 1..n : k # 1
          BY <4>1
        <4>5. Joins!jumps[e] = Joins!jumps[x] \cup {<<name, 1>>}
          <5>1. ASSUME NEW j PROVE j \in JumpsIn(e.args) <=> j \in JumpsIn(args) \cup {<<name, 1>>}
            <6>1. j \in JumpsIn(e.args) <=> \E i \in 1..n : j \in Joins!jumps[e.args[i]]
              BY <2>1 DEF JumpsIn
            <6>2. j \in JumpsIn(args) <=> \E i \in 1..n : j \in Joins!jumps[args[i]]
              BY <3>4 DEF JumpsIn
            <6>3. \A i \in 1..n : i = 1 => Joins!jumps[e.args[i]] = Joins!jumps[args[i]]
              BY <3>2
            <6>4. QED BY <4>2, <4>4, <6>1, <6>2, <6>3
          <5>2. QED BY <4>3, <5>1
        <4>6. QED BY <3>5, <4>2, <4>4, <4>5
      <3>9. QED BY <3>5, <3>7, <3>8 DEF Taken
    <2>7. CASE ~(e.op = "jmp" /\ Len(e.args) = 1) /\ e.op \notin {"let", "branch"}
      <3>1. x = e
        BY <2>7, TakenIs
      <3>2. \A name : Joins!tail_destination[e] # {name}
        BY <2>7, DestinationCases
      <3>3. QED BY <2>3, <3>1, <3>2, SameJoinsItself DEF Taken
    <2>8. QED BY <2>5, <2>6, <2>7
  <1>2. Joins!Expressions \subseteq S
    <2>1. ASSUME NEW e \in Joins!Expressions, \A i \in DOMAIN e.args : e.args[i] \in S PROVE e \in S
      <3>1. Joins!Nodes[e] <= MAX_NODES => Taken(Joins!take_tail_arguments[e], e)
        BY <1>1, <2>1
      <3>2. QED BY <3>1
    <2> HIDE DEF S
    <2>2. QED BY <2>1, ExpressionInduction
  <1>3. QED BY <1>2

\* What compaction keeps: the join points and the jumps, and the size as a bound.
Factored(x, e) ==
    SameJoins(x, e) /\ Joins!Nodes[x] <= Joins!Nodes[e] /\ Joins!jumps[x] = Joins!jumps[e]

\* One branch that becomes a jump keeps the join points and the jumps, and is no
\* larger: of the jumps removed there are at least as many as the one added.
LEMMA FactorBranch ==
    ASSUME NEW e \in Joins!Expressions, Joins!Nodes[e] <= MAX_NODES, NEW available
    PROVE  Factored(Joins!Factor(e, available), e)
  <1>0. Factored(e, e)
    BY SameJoinsItself, NodesTyped DEF Factored
  <1>1. CASE ~(e.op = "branch" /\ Joins!tail_destination[e] \cap available # {})
    BY <1>0, <1>1 DEF Joins!Factor
  <1>2. CASE e.op = "branch" /\ Joins!tail_destination[e] \cap available # {}
    <2>1. PICK name : Joins!tail_destination[e] = {name}
      BY <1>2, OneDestination
    <2>2. (CHOOSE m \in Joins!tail_destination[e] : TRUE) = name
      BY <2>1
    <2> PICK a : a = Joins!take_tail_arguments[e]
      OBVIOUS
    <2> PICK x : x = Joins!Factor(e, available)
      OBVIOUS
    <2>3. x = Joins!Jmp(name, <<a>>)
      BY <1>2, <2>2 DEF Joins!Factor
    <2>4. /\ x = [op |-> "jmp", name |-> name, names |-> << >>, args |-> <<a>>]
          /\ x.op = "jmp" /\ x.name = name /\ x.names = << >> /\ x.args = <<a>>
      BY <2>3 DEF Joins!Jmp, Joins!Node
    <2>5. /\ SameJoins(a, e) /\ Joins!Nodes[a] < Joins!Nodes[e]
          /\ Joins!jumps[e] = Joins!jumps[a] \cup {<<name, 1>>}
      BY <2>1, TakeTail DEF Taken
    <2>6. a \in Joins!Expressions /\ Joins!Nodes[a] \in Nat /\ Joins!Nodes[e] \in Nat /\ MAX_NODES \in Nat
      BY <2>5, NodesTyped, LimitsAssumption DEF SameJoins
    <2>7. name \in Names
      <3>1. <<name, 1>> \in Names \X Nat
        BY <2>5, NamesTyped
      <3>2. QED BY <3>1
    <2>8. Len(x.args) = 1 /\ x.args[1] = a /\ DOMAIN x.args = {1} /\ x.args \in Seq(Joins!Expressions)
      BY <2>4, <2>6
    <2>9. x \in Joins!Expressions
      <3>1. x.op \in Joins!Operators /\ x.name \in Names /\ x.names \in Seq(Names) /\ Joins!Shaped(x)
        BY <2>4, <2>7 DEF Joins!Operators, Joins!Shaped
      <3>2. x = [op |-> x.op, name |-> x.name, names |-> x.names, args |-> x.args]
        BY <2>4
      <3>3. \A i \in DOMAIN x.args : Joins!Nodes[x.args[i]] < MAX_NODES
        BY <2>5, <2>6, <2>8
      <3>4. QED BY <2>8, <3>1, <3>2, <3>3, MakeExpression
    <2>10. Joins!Nodes[x] = 1 + Joins!Nodes[a]
      <3>1. PICK T : Totals(T, x.args) /\ Joins!Nodes[x] = 1 + T[1]
        BY <2>8, <2>9, NodesUnfold
      <3>2. T[0] = 0 /\ T[1] = T[1 - 1] + Joins!Nodes[x.args[1]]
        BY <2>8, <3>1 DEF Totals
      <3>3. QED BY <2>6, <2>8, <3>1, <3>2
    <2>11. Joins!jumps[x] = Joins!jumps[a] \cup {<<name, 1>>}
      BY <2>4, <2>8, <2>9, JumpsOfJump
    <2>12. SameJoins(x, a)
      BY <2>4, <2>6, <2>9, SameJoinsJump
    <2>13. SameJoins(x, e)
      BY <2>5, <2>12, SameJoinsTransitive
    <2>14. Joins!Nodes[x] <= Joins!Nodes[e]
      BY <2>5, <2>6, <2>10
    <2>15. QED BY <2>5, <2>11, <2>13, <2>14 DEF Factored
  <1>3. QED BY <1>1, <1>2

\* Compaction keeps every join point and every jump and makes no body larger, for every
\* body within the limit (factor_tail_diamonds).
THEOREM FactorKeeps ==
    \A e \in Joins!Expressions :
        Joins!Nodes[e] <= MAX_NODES =>
            \A available \in SUBSET Names, tail \in BOOLEAN :
                Factored(Joins!factor_tail_diamonds[e][available][tail], e)
  <1> PICK F : F = Joins!factor_tail_diamonds
    OBVIOUS
  <1> DEFINE S == {e \in Joins!Expressions :
                     Joins!Nodes[e] <= MAX_NODES =>
                        \A available \in SUBSET Names, tail \in BOOLEAN : Factored(F[e][available][tail], e)}
  <1>1. ASSUME NEW e \in Joins!Expressions, \A i \in DOMAIN e.args : e.args[i] \in S,
               Joins!Nodes[e] <= MAX_NODES, NEW available \in SUBSET Names, NEW tail \in BOOLEAN
        PROVE  Factored(F[e][available][tail], e)
    <2>1. PICK n \in Nat : n = Len(e.args) /\ DOMAIN e.args = 1..n
      BY ExpressionFields
    <2>2. \A i \in 1..n : e.args[i] \in Joins!Expressions /\ Joins!Nodes[e.args[i]] \in Nat
                            /\ Joins!Nodes[e.args[i]] < Joins!Nodes[e]
      <3>1. \A i \in 1..n : e.args[i] \in Joins!Expressions
        BY <2>1, ExpressionFields
      <3>2. \A i \in 1..n : Joins!Nodes[e.args[i]] < Joins!Nodes[e]
        BY <2>1, ChildSmaller
      <3>3. QED BY <3>1, <3>2, NodesTyped
    <2>3. Joins!Nodes[e] \in Nat /\ MAX_NODES \in Nat
      BY NodesTyped, LimitsAssumption
    <2>4. \A i \in 1..n : availableAt(e, i, available) \in SUBSET Names /\ tailAt(e, i, tail) \in BOOLEAN
      <3>1. ASSUME e.op = "let" PROVE e.args[1].name \in Names
        <4>1. 1 \in DOMAIN e.args
          <5>1. Len(e.args) = 2 /\ DOMAIN e.args = 1..Len(e.args)
            BY <3>1, ExpressionFields DEF Joins!Shaped
          <5>2. QED BY <5>1
        <4>2. QED BY <4>1, ExpressionFields
      <3>2. \A i : availableAt(e, i, available) \in SUBSET Names
        BY <3>1 DEF availableAt
      <3>3. \A i : tailAt(e, i, tail) \in BOOLEAN
        BY DEF tailAt
      <3>4. QED BY <3>2, <3>3
    <2> PICK args : args = factoredArgs(F, e, available, tail)
      OBVIOUS
    <2> PICK f : f = WithArgs(e, args)
      OBVIOUS
    <2>5. /\ args = [i \in 1..n |-> args[i]]
          /\ \A i \in 1..n : args[i] = F[e.args[i]][availableAt(e, i, available)][tailAt(e, i, tail)]
      BY <2>1 DEF factoredArgs
    <2>6. \A i \in 1..n : Factored(args[i], e.args[i])
      <3>1. ASSUME NEW i \in 1..n PROVE Factored(args[i], e.args[i])
        <4>1. e.args[i] \in S /\ Joins!Nodes[e.args[i]] <= MAX_NODES
          BY <1>1, <2>1, <2>2, <2>3
        <4>2. QED BY <2>4, <2>5, <4>1
      <3>2. QED BY <3>1
    <2> HIDE DEF S
    <2>7. args \in Seq(Joins!Expressions) /\ Len(args) = n
      <3>1. \A i \in 1..n : args[i] \in Joins!Expressions
        BY <2>6 DEF Factored, SameJoins
      <3>2. args \in [1..n -> Joins!Expressions]
        BY <2>5, <3>1
      <3>3. QED BY <3>2
    <2>8. f \in Joins!Expressions /\ Joins!Nodes[f] <= Joins!Nodes[e]
      <3>1. Len(args) = Len(e.args) /\ \A i \in 1..Len(args) : Joins!Nodes[args[i]] <= Joins!Nodes[e.args[i]]
        BY <2>1, <2>6, <2>7 DEF Factored
      <3>2. QED BY <1>1, <2>7, <3>1, RebuiltSmaller
    <2>9. \A i \in 1..n : SameJoins(args[i], e.args[i]) /\ Joins!jumps[args[i]] = Joins!jumps[e.args[i]]
      BY <2>6 DEF Factored
    <2>10. SameJoins(f, e)
      <3>1. Len(args) = Len(e.args) /\ \A i \in 1..Len(args) : SameJoins(args[i], e.args[i])
        BY <2>1, <2>7, <2>9
      <3>2. e.op = "jp" => Joins!jumps[args[1]] = Joins!jumps[e.args[1]]
        BY <2>1, <2>9, JpChild
      <3>3. QED BY <2>7, <2>8, <3>1, <3>2, SameJoinsRebuilt
    <2>11. Joins!jumps[f] = Joins!jumps[e]
      <3>1. f.op = e.op /\ f.name = e.name /\ f.args = args
        BY ExpressionFields DEF WithArgs
      <3>2. Joins!jumps[f] = jumpsOf(Joins!jumps, f) /\ Joins!jumps[e] = jumpsOf(Joins!jumps, e)
        BY <2>8, JumpsDef
      <3>3. DOMAIN f.args = 1..n /\ Len(f.args) = n /\ Len(e.args) = n
        BY <2>1, <2>7, <3>1
      <3>4. UNION {Joins!jumps[f.args[i]] : i \in DOMAIN f.args} = UNION {Joins!jumps[e.args[i]] : i \in DOMAIN e.args}
        BY <2>1, <2>9, <3>1, <3>3
      <3>5. QED BY <3>1, <3>2, <3>3, <3>4, ZenonT(60) DEF jumpsOf
    <2>12. Factored(f, e)
      BY <2>8, <2>10, <2>11 DEF Factored
    <2>13. F[e][available][tail] = IF tail THEN Joins!Factor(f, available) ELSE f
      <3>1. F[e] = factorOf(F, e)
        BY FactorDef
      <3>2. QED BY <3>1 DEF factorOf
    <2>14. Factored(Joins!Factor(f, available), f)
      <3>1. Joins!Nodes[f] <= MAX_NODES
        <4>1. Joins!Nodes[f] \in Nat
          BY <2>8, NodesTyped
        <4>2. QED BY <1>1, <2>3, <2>8, <4>1
      <3>2. QED BY <2>8, <3>1, FactorBranch
    <2>15. Factored(Joins!Factor(f, available), e)
      <3> PICK x : x = Joins!Factor(f, available)
        OBVIOUS
      <3>1. SameJoins(x, e) /\ x \in Joins!Expressions
        BY <2>10, <2>14, SameJoinsTransitive DEF Factored, SameJoins
      <3>2. Joins!Nodes[x] \in Nat /\ Joins!Nodes[f] \in Nat
        BY <2>8, <3>1, NodesTyped
      <3>3. Joins!Nodes[x] <= Joins!Nodes[e]
        BY <2>3, <2>8, <2>14, <3>2 DEF Factored
      <3>4. QED BY <2>11, <2>14, <3>1, <3>3 DEF Factored
    <2>16. QED BY <2>12, <2>13, <2>15
  <1>2. Joins!Expressions \subseteq S
    <2>1. ASSUME NEW e \in Joins!Expressions, \A i \in DOMAIN e.args : e.args[i] \in S PROVE e \in S
      <3>1. Joins!Nodes[e] <= MAX_NODES =>
              \A available \in SUBSET Names, tail \in BOOLEAN : Factored(F[e][available][tail], e)
        BY <1>1, <2>1
      <3>2. QED BY <3>1
    <2> HIDE DEF S
    <2>2. QED BY <2>1, ExpressionInduction
  <1>3. QED BY <1>2

\* Compaction neither makes a body sound nor unsound.
THEOREM FactoredSound ==
    ASSUME NEW e \in Joins!Expressions, NEW x, Factored(x, e)
    PROVE  /\ Joins!validate_jumps(x) <=> Joins!validate_jumps(e)
           /\ Joins!Sound(x) <=> Joins!Sound(e)
  <1>1. /\ Joins!declared[x] = Joins!declared[e] /\ Joins!jumps[x] = Joins!jumps[e]
        /\ \A name \in Joins!declared[e] :
              /\ Joins!Params(x, name) = Joins!Params(e, name)
              /\ Joins!Targets(x, name) = Joins!Targets(e, name)
    BY DEF Factored, SameJoins, Joins!Targets
  <1>2. Joins!validate_jumps(x) <=> Joins!validate_jumps(e)
    BY <1>1 DEF Joins!validate_jumps
  <1>3. ASSUME NEW name \in Joins!declared[e] PROVE Joins!LeadsTo(x, name) = Joins!LeadsTo(e, name)
    <2>1. \A T \in SUBSET Joins!declared[e] :
             (\A k \in T : Joins!Targets(x, k) \subseteq T) <=> (\A k \in T : Joins!Targets(e, k) \subseteq T)
      BY <1>1
    <2>2. QED BY <1>1, <2>1 DEF Joins!LeadsTo
  <1>4. QED BY <1>1, <1>2, <1>3 DEF Joins!Sound

\* A sound body passes the first check.
LEMMA SoundIsValid ==
    ASSUME NEW e \in Joins!Expressions, Joins!Sound(e)
    PROVE  ~Joins!IsCyclic(e) /\ Joins!validate_jumps(e)
  <1>1. ASSUME NEW name \in Joins!declared[e], Joins!HasJumps(Joins!Continuation(e, name), name) PROVE FALSE
    <2>1. name \in Joins!Targets(e, name)
      BY <1>1 DEF Joins!HasJumps, Joins!Targets
    <2>2. name \in Joins!LeadsTo(e, name)
      BY <2>1, LeadsOn
    <2>3. QED BY <2>2 DEF Joins!Sound
  <1>2. QED BY <1>1 DEF Joins!IsCyclic, Joins!Sound

-----------------------------------------------------------------------------
(* The expansion of a definition.                                          *)

\* The promise, and what the expansion relies on before its outcome.
Promised(src, bod, ph) ==
    /\ ph = "Some" => Joins!Fits(bod) /\ Joins!declared[bod] = {} /\ Joins!jumps[bod] = {}
    /\ ph = "UnsupportedJoinPoint" => ~Joins!Sound(src)
    /\ ph = "JoinExpansionLimit" /\ Joins!Sound(src) =>
          \/ ~Joins!Fits(Joins!expression(bod)[{}][bod]) \/ Joins!Nodes[src] > MAX_NODES
          \/ Joins!Nesting(bod)[{}][bod] > MAX_DEPTH

\* The inductive invariant: the working copy is the source, compacted or not; what is
\* measured has valid jumps, what is expanded an admitted cost.
Expanding(src, bod, ph) ==
    /\ src \in Joins!Expressions
    /\ ph # "Some" => Factored(bod, src)
    /\ ph \in {"measuring", "expanding"} => Joins!validate_jumps(bod)
    /\ ph = "expanding" => Joins!cost(bod)[{}][bod].error = "none"
    /\ Promised(src, bod, ph)

\* The inductive invariant of the variables.
JoinInv == Expanding(source, body, expansion)

\* Before the expansion, the working copy is an expression and has a cost.
LEMMA ExpandingUnfold ==
    ASSUME NEW src, NEW bod, NEW ph, Expanding(src, bod, ph), ph # "Some"
    PROVE  /\ src \in Joins!Expressions /\ bod \in Joins!Expressions /\ Factored(bod, src)
           /\ {} \in SUBSET Joins!declared[bod]
           /\ Joins!cost(bod)[{}][bod] \in Costs
  <1>1. src \in Joins!Expressions /\ bod \in Joins!Expressions /\ Factored(bod, src)
    BY DEF Expanding, Factored, SameJoins
  <1>2. {} \in SUBSET Joins!declared[bod]
    OBVIOUS
  <1>3. Joins!cost(bod)[{}][bod] \in Costs
    BY <1>1, <1>2, CostTyped
  <1>4. QED BY <1>1, <1>2, <1>3

\* What the cost of a whole sound body tells.
LEMMA SoundCost ==
    ASSUME NEW bod \in Joins!Expressions, Joins!Sound(bod)
    PROVE  /\ Joins!cost(bod)[{}][bod].error # "UnsupportedJoinPoint"
           /\ Joins!cost(bod)[{}][bod].error # "none" =>
                \/ ~Joins!Fits(Joins!expression(bod)[{}][bod])
                \/ Joins!Nesting(bod)[{}][bod] > MAX_DEPTH
  <1> PICK none : none = {}
    OBVIOUS
  <1>1. none \in SUBSET Joins!declared[bod] /\ Inside(bod, bod, none)
    BY DEF Inside
  <1>2. Exact(Joins!cost(bod)[none][bod], Joins!expression(bod)[none][bod],
              Joins!Nesting(bod)[none][bod], Cardinality(none))
    BY <1>1, SoundAdmits
  <1>3. Cardinality(none) = 0
    BY FS_EmptySet
  <1>4. Joins!Nesting(bod)[none][bod] \in Nat /\ MAX_DEPTH \in Nat
    BY <1>1, NestingTyped, LimitsAssumption
  <1>5. ~(Joins!Nesting(bod)[none][bod] > MAX_DEPTH) => 0 + Joins!Nesting(bod)[none][bod] <= MAX_DEPTH
    BY <1>4
  <1>6. QED BY <1>2, <1>3, <1>5 DEF Exact, Joins!Fits

\* JoinInv holds of every definition before its expansion (expand).
LEMMA JoinInitially == DefinitionInit => JoinInv
  <1>1. SUFFICES ASSUME DefinitionInit PROVE JoinInv
    OBVIOUS
  <1>2. PICK d \in Definitions : Joins!Init(d.body)
    BY <1>1 DEF DefinitionInit
  <1>3. source = d.body /\ body = source /\ expansion = "checking"
    BY <1>2 DEF Joins!Init
  <1>4. source \in Joins!Expressions
    BY <1>3, DefinitionsAssumption
  <1>5. Factored(body, source)
    BY <1>3, <1>4, SameJoinsItself, NodesTyped DEF Factored
  <1>6. QED BY <1>3, <1>4, <1>5 DEF JoinInv, Expanding, Promised

\* Every step of the expansion keeps JoinInv.
LEMMA JoinStep == JoinInv /\ Joins!Next => JoinInv'
  <1>1. SUFFICES ASSUME JoinInv, Joins!Next
                 PROVE  Expanding(source', body', expansion')
    BY DEF JoinInv
  <1>2. Expanding(source, body, expansion)
    BY <1>1 DEF JoinInv
  <1> PICK c : c = Joins!cost(body)[{}][body]
    OBVIOUS
  <1>3. CASE Joins!NoJoins
    <2>1. expansion = "checking" /\ expansion' = "None" /\ source' = source /\ body' = body
      BY <1>3 DEF Joins!NoJoins
    <2>2. QED BY <1>2, <2>1 DEF Expanding, Promised
  <1>4. CASE Joins!CheckPasses
    <2>1. /\ expansion = "checking" /\ expansion' = "measuring" /\ source' = source /\ body' = body
          /\ Joins!validate_jumps(body)
      BY <1>4 DEF Joins!CheckPasses, Joins!Valid
    <2>2. QED BY <1>2, <2>1 DEF Expanding, Promised
  <1>5. CASE Joins!CheckFails
    <2>1. /\ expansion = "checking" /\ expansion' = "UnsupportedJoinPoint" /\ source' = source /\ body' = body
          /\ ~(~Joins!IsCyclic(body) /\ Joins!validate_jumps(body))
      BY <1>5 DEF Joins!CheckFails, Joins!Valid
    <2>2. source \in Joins!Expressions /\ body \in Joins!Expressions /\ Factored(body, source)
      BY <1>2, <2>1, ExpandingUnfold
    <2>3. ~Joins!Sound(source)
      BY <2>1, <2>2, FactoredSound, SoundIsValid
    <2>4. QED BY <2>1, <2>2, <2>3 DEF Expanding, Promised
  <1>6. CASE Joins!Measure
    <2>1. /\ expansion = "measuring" /\ source' = source /\ body' = body
          /\ expansion' = IF c.error = "none" THEN "expanding" ELSE c.error
      BY <1>6 DEF Joins!Measure, Joins!Cost
    <2>2. source \in Joins!Expressions /\ body \in Joins!Expressions /\ Factored(body, source) /\ c \in Costs
      BY <1>2, <2>1, ExpandingUnfold
    <2>3. Joins!validate_jumps(body)
      BY <1>2, <2>1 DEF Expanding
    <2>4. c.error \in {"none", "UnsupportedJoinPoint", "JoinExpansionLimit"}
      BY <2>2 DEF Costs
    <2>5. CASE c.error = "none"
      <3>1. expansion' = "expanding"
        BY <2>1, <2>5
      <3>2. QED BY <2>1, <2>2, <2>3, <2>5, <3>1 DEF Expanding, Promised
    <2>6. CASE c.error = "UnsupportedJoinPoint"
      <3>1. expansion' = "UnsupportedJoinPoint"
        BY <2>1, <2>6
      <3>2. ~Joins!Sound(source)
        BY <2>2, <2>6, SoundCost, FactoredSound
      <3>3. QED BY <2>1, <2>2, <3>1, <3>2 DEF Expanding, Promised
    <2>7. CASE c.error = "JoinExpansionLimit"
      <3>1. expansion' = "JoinExpansionLimit"
        BY <2>1, <2>7
      <3>2. Joins!Sound(source) =>
              \/ ~Joins!Fits(Joins!expression(body)[{}][body])
              \/ Joins!Nesting(body)[{}][body] > MAX_DEPTH
        BY <2>2, <2>7, SoundCost, FactoredSound
      <3>3. QED BY <2>1, <2>2, <3>1, <3>2 DEF Expanding, Promised
    <2>8. QED BY <2>4, <2>5, <2>6, <2>7
  <1>7. CASE Joins!Compact
    <2>1. /\ expansion = "measuring" /\ expansion' = "checking" /\ source' = source
          /\ body' = Joins!factor_tail_diamonds[body][{}][TRUE] /\ Joins!Nodes[body] <= MAX_NODES
      BY <1>7 DEF Joins!Compact
    <2>2. source \in Joins!Expressions /\ body \in Joins!Expressions /\ Factored(body, source)
      BY <1>2, <2>1, ExpandingUnfold
    <2>3. Factored(body', body)
      <3>1. {} \in SUBSET Names /\ TRUE \in BOOLEAN
        OBVIOUS
      <3>2. QED BY <2>1, <2>2, <3>1, FactorKeeps
    <2>4. Factored(body', source)
      <3> PICK x : x = body'
        OBVIOUS
      <3>1. SameJoins(x, source) /\ x \in Joins!Expressions /\ Joins!jumps[x] = Joins!jumps[source]
        BY <2>2, <2>3, SameJoinsTransitive DEF Factored, SameJoins
      <3>2. Joins!Nodes[x] \in Nat /\ Joins!Nodes[body] \in Nat /\ Joins!Nodes[source] \in Nat
        BY <2>2, <3>1, NodesTyped
      <3>3. Joins!Nodes[x] <= Joins!Nodes[body] /\ Joins!Nodes[body] <= Joins!Nodes[source]
        BY <2>2, <2>3 DEF Factored
      <3>4. Joins!Nodes[x] <= Joins!Nodes[source]
        BY <3>2, <3>3
      <3>5. QED BY <3>1, <3>4 DEF Factored
    <2>5. QED BY <2>1, <2>2, <2>4 DEF Expanding, Promised
  <1>8. CASE Joins!CompactRefused
    <2>1. /\ expansion = "measuring" /\ expansion' = "JoinExpansionLimit" /\ source' = source /\ body' = body
          /\ Joins!Nodes[body] > MAX_NODES
      BY <1>8 DEF Joins!CompactRefused
    <2>2. source \in Joins!Expressions /\ body \in Joins!Expressions /\ Factored(body, source)
      BY <1>2, <2>1, ExpandingUnfold
    <2>3. Joins!Nodes[source] > MAX_NODES
      BY <2>1, <2>2, NodesTyped, LimitsAssumption DEF Factored
    <2>4. QED BY <2>1, <2>2, <2>3 DEF Expanding, Promised
  <1>9. CASE Joins!Expand
    <2>1. /\ expansion = "expanding" /\ expansion' = "Some" /\ source' = source
          /\ body' = Joins!expression(body)[{}][body]
      BY <1>9 DEF Joins!Expand
    <2>2. /\ source \in Joins!Expressions /\ body \in Joins!Expressions
          /\ {} \in SUBSET Joins!declared[body]
      BY <1>2, <2>1, ExpandingUnfold
    <2>3. Joins!validate_jumps(body) /\ c.error = "none"
      BY <1>2, <2>1 DEF Expanding
    <2>4. Admitted(c, body')
      <3>1. Joins!jumps[body] \subseteq Joins!jumps[body]
        OBVIOUS
      <3>2. QED BY <2>1, <2>2, <2>3, <3>1, AdmittedFits
    <2>5. Joins!Fits(body') /\ Joins!declared[body'] = {} /\ Joins!jumps[body'] = {}
      BY <2>4 DEF Admitted, Expandable, Joins!Fits
    <2>6. QED BY <2>1, <2>2, <2>5 DEF Expanding, Promised
  <1>10. QED BY <1>1, <1>3, <1>4, <1>5, <1>6, <1>7, <1>8, <1>9 DEF Joins!Next

\* JoinInv holds throughout the lowering, which leaves the body alone afterwards.
LEMMA JoinInvariant == DefinitionSpec => []JoinInv
  <1>1. JoinInv /\ [DefinitionNext]_definitionVars => JoinInv'
    <2>1. SUFFICES ASSUME JoinInv, [DefinitionNext]_definitionVars PROVE JoinInv'
      OBVIOUS
    <2>2. CASE ExpandJoins
      BY <2>1, <2>2, JoinStep DEF ExpandJoins
    <2>3. CASE PlanNothing \/ PlanAndRun \/ UNCHANGED definitionVars
      <3>1. source' = source /\ body' = body /\ expansion' = expansion
        BY <2>3 DEF PlanNothing, PlanAndRun, definitionVars, joinVars
      <3>2. QED BY <2>1, <3>1 DEF JoinInv
    <2>4. QED BY <2>1, <2>2, <2>3 DEF DefinitionNext
  <1>2. QED BY JoinInitially, <1>1, PTL DEF DefinitionSpec

\* A definition is refused only for a jump that goes nowhere or has the wrong number of
\* arguments, for a cycle, or for an expansion that really is too large or too deep,
\* and what is admitted is within the limits once expanded (expand), for every body and
\* every limit.
THEOREM AdmissionIsExact == DefinitionSpec => []JoinAdmissionIsExact
  <1>1. JoinInv => JoinAdmissionIsExact
    BY DEF JoinInv, Expanding, Promised, JoinAdmissionIsExact, Joins!AdmissionIsExact
  <1>2. QED BY <1>1, JoinInvariant, PTL

-----------------------------------------------------------------------------
(* The loop. It is the recursion, for any number of parameters, self       *)
(* calls and iterations and whatever the arguments compute.                *)

\* What the calls visited so far left in the plan.
Covered(n) ==
    \A c \in 1..n : Acceptable(calls[c])
                    /\ \A i \in Params : ~Unchanged(calls[c], i) => changed[i]

\* The inductive invariant: the plan covers every call visited, it never marks a
\* borrowed formal, and from then on loop and recursion agree.
PlanInv ==
    /\ phase = "planning" => Covered(at - 1)
    /\ phase \in {"looping", "returned"} => calls # << >> /\ Covered(Len(calls))
    /\ \A i \in Params : changed[i] => ~borrowed[i]

\* What gives a plan up, of a definition that can have one.
GivenUp == phase = "recursive" => calls = << >> \/ \E c \in DOMAIN calls : ~Acceptable(calls[c])

\* The inductive invariant of the lowering.
LoopInv == TypeOK /\ PlanInv /\ LoopIsRecursion /\ SameOutcome

USE DEF Params, Argument, Computed

\* LoopInv holds before a plan is made.
LEMMA LoopInitially == Init => LoopInv
<1> SUFFICES ASSUME Init PROVE LoopInv
  OBVIOUS
<1> USE ConstantsAssumption, InitialAssumption DEF Init
<1>1. PICK n \in 0..MaxSelfCalls : calls \in [1..n -> SelfCall]
  OBVIOUS
<1>2. calls \in Seq(SelfCall) /\ Len(calls) = n
  BY <1>1
<1>3. TypeOK
  BY <1>2 DEF TypeOK
<1>4. PlanInv
  BY DEF PlanInv, Covered
<1> QED
  BY <1>3, <1>4 DEF LoopInv, LoopIsRecursion, SameOutcome

\* What a back edge assigns is what the recursion passes, when the plan covers the
\* call.
LEMMA AssignedIsPassed ==
    ASSUME LoopInv, phase = "looping", NEW c \in DOMAIN calls
    PROVE  Assigned(c) = Passed(c, actuals)
<1>1. c \in 1..Len(calls) /\ calls[c] \in SelfCall
  BY DEF LoopInv, TypeOK
<1>2. \A i \in Params : ~changed[i] => calls[c].args[i] = i
  BY <1>1 DEF LoopInv, PlanInv, Covered, Unchanged
<1>3. \A i \in Params : ~changed[i] => Passed(c, formals)[i] = formals[i]
  BY <1>2 DEF Passed
<1> QED
  BY <1>3 DEF LoopInv, LoopIsRecursion, Assigned, Passed

\* Every step of planner and loop keeps LoopInv.
LEMMA LoopStep == LoopInv /\ [Next]_vars => LoopInv'
<1> SUFFICES ASSUME LoopInv, [Next]_vars PROVE LoopInv'
  OBVIOUS
<1> USE ConstantsAssumption DEF LoopInv
<1>1. CASE Visit
  <2>1. calls[at] \in SelfCall /\ at \in 1..Len(calls)
    BY <1>1 DEF Visit, Visiting, TypeOK
  <2>2. TypeOK'
    BY <1>1, <2>1 DEF Visit, Visiting, TypeOK, definition, run
  <2>3. Covered(at - 1)
    BY <1>1 DEF Visit, Visiting, PlanInv
  <2>4. Covered(at - 1)'
    <3>0. at' - 1 = at
      BY <1>1, <2>1 DEF Visit
    <3> SUFFICES ASSUME NEW c \in 1..at
                 PROVE  /\ Acceptable(calls[c])'
                        /\ (\A i \in Params : ~Unchanged(calls[c], i) => changed[i])'
      BY <3>0 DEF Covered
    <3>1. CASE c = at
      BY <1>1, <3>1 DEF Visit, definition, Acceptable, Unchanged
    <3>2. CASE c # at
      <4>1. c \in 1..(at - 1)
        BY <2>1, <3>2
      <4> QED
        BY <1>1, <2>3, <4>1 DEF Visit, definition, Acceptable, Unchanged, Covered
    <3> QED
      BY <3>1, <3>2
  <2>5. \A i \in Params : changed'[i] => ~borrowed[i]
    BY <1>1 DEF Visit, Acceptable, PlanInv
  <2>6. PlanInv'
    BY <1>1, <2>4, <2>5 DEF PlanInv, Visit, Visiting, definition
  <2> QED
    BY <1>1, <2>2, <2>6 DEF Visit, definition, run, LoopIsRecursion, SameOutcome
<1>2. CASE VisitFails
  <2>1. at \in DOMAIN calls
    BY <1>2 DEF VisitFails, Visiting, TypeOK
  <2>2. TypeOK'
    BY <1>2 DEF VisitFails, TypeOK, definition, run
  <2>3. PlanInv'
    BY <1>2, <2>1 DEF VisitFails, Visiting, PlanInv, definition, Acceptable, Unchanged
  <2> QED
    BY <1>2, <2>2, <2>3 DEF VisitFails, definition, run, LoopIsRecursion, SameOutcome
<1>3. CASE Plan
  <2>1. TypeOK'
    BY <1>3 DEF Plan, TypeOK, definition, run
  <2>2. at - 1 = Len(calls) /\ Covered(at - 1)
    BY <1>3 DEF Plan, TypeOK, PlanInv
  <2>3. PlanInv'
    BY <1>3, <2>2 DEF Plan, PlanInv, Covered, definition, Acceptable, Unchanged
  <2> QED
    BY <1>3, <2>1, <2>3 DEF Plan, definition, run, LoopIsRecursion, SameOutcome
<1>4. ASSUME NEW c \in DOMAIN calls, BackEdge(c) PROVE LoopInv'
  <2>1. formals' = actuals'
    BY <1>4, AssignedIsPassed DEF BackEdge
  <2>2. TypeOK'
    BY <1>4 DEF BackEdge, TypeOK, definition, Assigned, Passed
  <2>3. PlanInv'
    BY <1>4 DEF BackEdge, PlanInv, Covered, definition, Acceptable, Unchanged
  <2> QED
    BY <1>4, <2>1, <2>2, <2>3 DEF BackEdge, LoopIsRecursion, SameOutcome
<1>5. ASSUME NEW c \in DOMAIN calls, NEW failing \in Failing(c), OperandFails(c, failing)
      PROVE  LoopInv'
  <2>1. c \in 1..Len(calls) /\ calls[c] \in SelfCall
    BY DEF TypeOK
  <2>2. \A i \in failing : i \in Params /\ changed[i]
    BY <1>5, <2>1 DEF OperandFails, PlanInv, Covered, Unchanged, Failing
  <2>3. {i \in failing : changed[i]} = failing
    BY <2>2
  <2>4. result' = expected'
    BY <1>5, <2>3 DEF OperandFails
  <2>5. TypeOK'
    BY <1>5 DEF OperandFails, TypeOK, definition
  <2>6. PlanInv'
    BY <1>5 DEF OperandFails, PlanInv, Covered, definition, Acceptable, Unchanged
  <2> QED
    BY <1>5, <2>4, <2>5, <2>6 DEF OperandFails, LoopIsRecursion, SameOutcome
<1>6. CASE Return
  <2>1. TypeOK'
    BY <1>6 DEF Return, TypeOK, definition
  <2>2. PlanInv'
    BY <1>6 DEF Return, PlanInv, Covered, definition, Acceptable, Unchanged
  <2> QED
    BY <1>6, <2>1, <2>2 DEF Return, definition, LoopIsRecursion, SameOutcome
<1>7. CASE UNCHANGED vars
  BY <1>7 DEF vars, TypeOK, PlanInv, Covered, Acceptable, Unchanged, LoopIsRecursion, SameOutcome
<1> QED
  BY <1>1, <1>2, <1>3, <1>4, <1>5, <1>6, <1>7 DEF Next

\* The reason for which a plan is given up stays one.
LEMMA GivenUpStep == LoopInv /\ GivenUp /\ [Next]_vars => GivenUp'
<1> SUFFICES ASSUME LoopInv, GivenUp, [Next]_vars PROVE GivenUp'
  OBVIOUS
<1>1. calls' = calls /\ borrowed' = borrowed
  BY DEF Next, Visit, VisitFails, Plan, BackEdge, OperandFails, Return, definition, vars
<1>2. ASSUME phase' = "recursive"
      PROVE  calls = << >> \/ \E c \in DOMAIN calls : ~Acceptable(calls[c])
  <2>1. CASE VisitFails
    <3>1. at \in DOMAIN calls /\ ~Acceptable(calls[at])
      BY <2>1 DEF VisitFails, Visiting, LoopInv, TypeOK
    <3> QED
      BY <3>1
  <2>2. CASE Plan
    BY <1>2, <2>2 DEF Plan
  <2>3. CASE phase = "recursive"
    BY <2>3 DEF GivenUp
  <2>4. CASE phase # "recursive" /\ ~VisitFails /\ ~Plan
    BY <1>2, <2>4 DEF Next, Visit, Visiting, BackEdge, OperandFails, Return, vars
  <2> QED
    BY <2>1, <2>2, <2>3, <2>4
<1> QED
  BY <1>1, <1>2 DEF GivenUp, Acceptable, Unchanged

\* A step of the composition is a step of the lowering, or gives it up for a definition
\* that cannot have a loop.
LEMMA DefinitionStep ==
    [DefinitionNext]_definitionVars => [Next]_vars \/ PlanNothing
  BY DEF DefinitionNext, ExpandJoins, PlanAndRun, definitionVars

\* Every step of the composition keeps the invariant, the ones that plan nothing as
\* well.
LEMMA LoweringStep == LoopInv /\ [DefinitionNext]_definitionVars => LoopInv'
<1> SUFFICES ASSUME LoopInv, PlanNothing PROVE LoopInv'
  BY LoopStep, DefinitionStep
<1>1. phase' = "recursive" /\ UNCHANGED <<definition, at, changed, run>>
  BY DEF PlanNothing
<1> QED
  BY <1>1 DEF LoopInv, TypeOK, PlanInv, Covered, Acceptable, Unchanged, LoopIsRecursion, SameOutcome,
              definition, run

\* A definition that can have a loop is lowered as TailCalls specifies, whatever the
\* expansion of its join points does (generate_def_in).
THEOREM LoweringRefines == DefinitionSpec /\ []loopable => Spec
<1>1. DefinitionInit => Init
  BY DEF DefinitionInit
<1>2. loopable /\ [DefinitionNext]_definitionVars => [Next]_vars
  BY DefinitionStep DEF PlanNothing
<1> QED
  BY <1>1, <1>2, PTL DEF DefinitionSpec, Spec

\* The inductive invariant holds throughout the lowering of any definition: the plan
\* covers what was visited and marks no borrowed formal (visit).
THEOREM Invariance == DefinitionSpec => []LoopInv
<1>1. DefinitionInit => LoopInv
  BY LoopInitially DEF DefinitionInit
<1> QED
  BY <1>1, LoweringStep, PTL DEF DefinitionSpec

\* Planner and loop stay inside the definition (plan, render_tail).
THEOREM TypeCorrect == DefinitionSpec => []TypeOK
<1>1. LoopInv => TypeOK
  BY DEF LoopInv
<1> QED
  BY Invariance, <1>1, PTL

\* The loop's variables are the arguments of the recursion at every iteration (the
\* tuple assignment of render_tail under the plan's changed set).
THEOREM Equivalent == DefinitionSpec => []LoopIsRecursion
<1>1. LoopInv => LoopIsRecursion
  BY DEF LoopInv
<1> QED
  BY Invariance, <1>1, PTL

\* The loop returns the recursion's value or its first error.
THEOREM Outcome == DefinitionSpec => []SameOutcome
<1>1. LoopInv => SameOutcome
  BY DEF LoopInv
<1> QED
  BY Invariance, <1>1, PTL

\* The planner admits tail calls only and gives up only for a reason (visit).
THEOREM Planned == Spec => []PlanIsRight
<1>1. Init => LoopInv /\ GivenUp
  BY LoopInitially DEF Init, GivenUp
<1>2. LoopInv /\ GivenUp /\ [Next]_vars => (LoopInv /\ GivenUp)'
  BY LoopStep, GivenUpStep
<1>3. LoopInv /\ GivenUp => PlanIsRight
  <2> SUFFICES ASSUME LoopInv, GivenUp PROVE PlanIsRight
    OBVIOUS
  <2>1. phase \in {"looping", "returned"} =>
          calls # << >> /\ \A c \in DOMAIN calls : calls[c].tail /\ calls[c].arity
    BY DEF LoopInv, TypeOK, PlanInv, Covered, Acceptable
  <2>2. phase = "recursive" =>
          \/ calls = << >>
          \/ \E c \in DOMAIN calls :
                \/ ~calls[c].tail \/ ~calls[c].arity
                \/ \E i \in Params : borrowed[i] /\ calls[c].args[i] # i
    BY DEF LoopInv, GivenUp, Acceptable, Unchanged
  <2> QED
    BY <2>1, <2>2 DEF PlanIsRight
<1> QED
  BY <1>1, <1>2, <1>3, PTL DEF Spec

\* No back edge assigns a borrowed formal (the check on borrowed[index]).
THEOREM Borrows == DefinitionSpec => BorrowsStay
<1>1. LoopInv /\ [DefinitionNext]_definitionVars => [\A i \in Params : borrowed[i] => formals'[i] = formals[i]]_vars
  <2> SUFFICES ASSUME LoopInv, Next, NEW i \in Params, borrowed[i]
               PROVE  formals'[i] = formals[i]
    BY DefinitionStep DEF PlanNothing, run
  <2>1. ~changed[i]
    BY DEF LoopInv, PlanInv
  <2>2. ASSUME NEW c \in DOMAIN calls, BackEdge(c) PROVE formals'[i] = formals[i]
    BY <2>1, <2>2 DEF BackEdge, Assigned
  <2>3. ASSUME NEW c \in DOMAIN calls, NEW failing \in Failing(c), OperandFails(c, failing)
        PROVE  formals'[i] = formals[i]
    BY <2>3 DEF OperandFails
  <2>4. CASE Visit \/ VisitFails \/ Plan \/ Return
    BY <2>4 DEF Visit, VisitFails, Plan, Return, run
  <2> QED
    BY <2>2, <2>3, <2>4 DEF Next
<1> QED
  BY Invariance, <1>1, PTL DEF DefinitionSpec, BorrowsStay
===============================================================================
