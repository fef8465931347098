------------------------- MODULE GenerateModuleProofs -------------------------
(***************************************************************************)
(* For every number of definitions and every call graph: the fixpoint      *)
(* computes the least set of fallible definitions within its bound on the  *)
(* passes, and the emitted module uses `?` and Result accordingly.  For    *)
(* every type table: what is said of a declaration, that it is recursive   *)
(* or that it is Copy, is true.                                            *)
(***************************************************************************)
EXTENDS GenerateModule, FiniteSetTheorems, WellFoundedInduction, TLAPS

\* A shape is the initial one, or a value definition was promoted.
ShapeKinds ==
    \A i \in Defs : \/ shapes[i] = InitialShape(defs[i])
                    \/ shapes[i] = "Fallible" /\ ~defs[i].list

Sound == FallibleDefs \subseteq Least(Buffers)

\* Until a pass promotes something, what it has visited needs no promotion.
Settled ==
    /\ phase = "fixpoint" /\ ~changed =>
          \A i \in Defs : i < at /\ shapes[i] = "Value" => ~IsFallible(i)
    /\ phase # "fixpoint" => \A i \in Defs : shapes[i] = "Value" => ~IsFallible(i)

\* A pass that has promoted something has paid for the next one.
Paid ==
    /\ passes <= Cardinality(FallibleDefs) + 1
    /\ phase = "fixpoint" /\ changed => passes <= Cardinality(FallibleDefs)

\* What is emitted was rendered with the final shapes and not refused.
Rendered ==
    /\ phase = "fixpoint" => DOMAIN emitted = {}
    /\ phase = "render" => DOMAIN emitted = {i \in Defs : i < at}
    /\ phase = "emitted" => DOMAIN emitted = Defs
    /\ \A i \in DOMAIN emitted :
          /\ emitted[i] = [result |-> Signature(i), asks |-> Asks(i)]
          /\ ~Refused(i)

IInv == TypeOK /\ ShapeKinds /\ Sound /\ Settled /\ Paid /\ Rendered

-----------------------------------------------------------------------------
\* The least closed set is closed.
LEMMA LeastIsClosed ==
    ASSUME NEW seeds
    PROVE  ClosedOver(Least(seeds), seeds)
<1> SUFFICES ASSUME NEW i \in ValueDefs,
                    defs[i].checked \/ (\E c \in Calls(i) : c \in Least(seeds) \cup seeds),
                    NEW S \in SUBSET ValueDefs, ClosedOver(S, seeds)
             PROVE  i \in S
    BY DEF ClosedOver, Least
<1>1. CASE defs[i].checked
    BY <1>1 DEF ClosedOver
<1>2. CASE \E c \in Calls(i) : c \in Least(seeds) \cup seeds
    <2> PICK c \in Calls(i) : c \in Least(seeds) \cup seeds
        BY <1>2
    <2>1. c \in S \cup seeds
        BY DEF Least
    <2> QED
        BY <2>1 DEF ClosedOver
<1> QED
    BY <1>1, <1>2

\* The least closed set is contained in every closed set of value definitions.
LEMMA LeastIsLeast ==
    ASSUME NEW seeds, NEW S \in SUBSET ValueDefs, ClosedOver(S, seeds)
    PROVE  Least(seeds) \subseteq S
BY DEF Least

\* is_fallible reads only the body and the shapes: it is the closure condition.
LEMMA FallibleMeansClosure ==
    ASSUME TypeOK, ShapeKinds, NEW i \in ValueDefs
    PROVE  IsFallible(i) <=>
             defs[i].checked \/ \E c \in Calls(i) : c \in FallibleDefs \cup Buffers
<1>1. \A c \in Calls(i) : c \in Defs
    BY ConstantsAssumption DEF Calls, TypeOK, Definition, ValueDefs
<1>2. \A c \in Defs : shapes[c] = "Buffer" <=> c \in Buffers
    BY ConstantsAssumption DEF ShapeKinds, InitialShape, Buffers, TypeOK, Definition
<1> QED
    BY <1>1, <1>2 DEF IsFallible, FallibleDefs

LEMMA DefsFinite == IsFiniteSet(FallibleDefs) /\ Cardinality(FallibleDefs) \in Nat
<1>1. IsFiniteSet(Defs)
    BY FS_Interval, ConstantsAssumption DEF Defs
<1>2. FallibleDefs \subseteq Defs
    BY DEF FallibleDefs
<1> QED
    BY <1>1, <1>2, FS_Subset, FS_CardinalityType

-----------------------------------------------------------------------------
\* The initial state satisfies the inductive invariant.
LEMMA InitHolds == Init => IInv
<1> SUFFICES ASSUME Init PROVE IInv
    OBVIOUS
<1> USE ConstantsAssumption
<1>0. \A i \in Defs : InitialShape(defs[i]) \in Shape \ {"Fallible"}
    BY DEF InitialShape, Shape
<1>1. TypeOK
    <2>1. shapes \in [Defs -> Shape] /\ at \in 1..(N + 1) /\ passes \in Nat
        BY <1>0 DEF Init
    <2>2. DOMAIN emitted = {}
        BY DEF Init
    <2> QED
        BY <2>1, <2>2 DEF Init, TypeOK
<1>2. ShapeKinds
    BY DEF Init, ShapeKinds
<1>3. FallibleDefs = {}
    BY <1>0 DEF Init, FallibleDefs
<1>4. Sound
    BY <1>3 DEF Sound
<1>5. Settled
    BY DEF Init, Settled, Defs
<1>6. Paid
    BY <1>3, FS_EmptySet DEF Init, Paid
<1>7. Rendered
    BY DEF Init, Rendered
<1> QED
    BY <1>1, <1>2, <1>4, <1>5, <1>6, <1>7 DEF IInv

\* A promotion is justified by the least fixpoint and pays for a pass.
LEMMA PromoteKeeps == IInv /\ Promote => IInv'
<1> SUFFICES ASSUME IInv, Promote PROVE IInv'
    OBVIOUS
<1> USE ConstantsAssumption DEF IInv
<1>0. /\ at \in Defs /\ shapes[at] = "Value" /\ IsFallible(at)
      /\ FallibleDefs' = FallibleDefs \cup {at}
      /\ at \notin FallibleDefs
    BY DEF Promote, FallibleDefs, TypeOK
<1>1. TypeOK'
    BY DEF Promote, TypeOK, Shape, Defs
<1>2. at \in ValueDefs
    BY <1>0 DEF ShapeKinds, InitialShape, ValueDefs
<1>3. ShapeKinds'
    BY <1>2 DEF Promote, ShapeKinds, InitialShape, TypeOK, ValueDefs
<1>4. Sound'
    <2>1. defs[at].checked \/ \E c \in Calls(at) : c \in FallibleDefs \cup Buffers
        BY <1>0, <1>2, FallibleMeansClosure
    <2>2. defs[at].checked \/ \E c \in Calls(at) : c \in Least(Buffers) \cup Buffers
        BY <2>1 DEF Sound
    <2>3. at \in Least(Buffers)
        BY <2>2, <1>2, LeastIsClosed DEF ClosedOver
    <2>4. Least(Buffers)' = Least(Buffers)
        BY DEF Promote, Least, Buffers, ClosedOver, ValueDefs, Calls
    <2> QED
        BY <1>0, <2>3, <2>4 DEF Sound
<1>5. Settled'
    BY DEF Promote, Settled
<1>6. Paid'
    <2>1. Cardinality(FallibleDefs') = Cardinality(FallibleDefs) + 1
        BY <1>0, DefsFinite, FS_AddElement
    <2> QED
        BY <2>1, DefsFinite DEF Paid, Promote, TypeOK
<1>7. Rendered'
    BY DEF Promote, Rendered
<1> QED
    BY <1>1, <1>3, <1>4, <1>5, <1>6, <1>7

\* The loop's other steps leave the shapes alone.
LEMMA LoopKeeps == IInv /\ (Keep \/ NextPass \/ Return) => IInv'
<1> SUFFICES ASSUME IInv, Keep \/ NextPass \/ Return PROVE IInv'
    OBVIOUS
<1> USE ConstantsAssumption DEF IInv
<1>0. shapes' = shapes /\ defs' = defs /\ emitted' = emitted /\ phase = "fixpoint"
    BY DEF Keep, NextPass, Return
<1>1. TypeOK'
    <2>1. at' \in 1..(N + 1) /\ passes' \in Nat
        BY DEF Keep, NextPass, Return, TypeOK, Defs
    <2>2. changed' \in BOOLEAN
        BY DEF Keep, NextPass, Return, TypeOK
    <2>3. phase' \in {"fixpoint", "render", "emitted", "UnsupportedList"}
        BY DEF Keep, NextPass, Return, TypeOK
    <2> QED
        BY <2>1, <2>2, <2>3, <1>0 DEF TypeOK
<1>2. ShapeKinds' /\ Sound'
    BY <1>0 DEF ShapeKinds, Sound, FallibleDefs, Least, Buffers, ClosedOver, ValueDefs, Calls
<1>3. \A i \in Defs : IsFallible(i)' <=> IsFallible(i)
    BY <1>0 DEF IsFallible, Calls
<1>4. Settled'
    <2>1. CASE Keep
        BY <2>1, <1>0, <1>3 DEF Keep, Settled, Defs, TypeOK
    <2>2. CASE NextPass
        BY <2>2, <1>0 DEF NextPass, Settled, Defs
    <2>3. CASE Return
        BY <2>3, <1>0, <1>3 DEF Return, Settled, Defs
    <2> QED
        BY <2>1, <2>2, <2>3
<1>5. Paid'
    <2>1. FallibleDefs' = FallibleDefs
        BY <1>0 DEF FallibleDefs
    <2> QED
        BY <2>1, <1>0, DefsFinite DEF Keep, NextPass, Return, Paid, TypeOK
<1>6. Rendered'
    BY <1>0 DEF Rendered, Keep, NextPass, Return, Defs
<1> QED
    BY <1>1, <1>2, <1>4, <1>5, <1>6

\* Emission changes neither the module nor the shapes it is rendered with.
LEMMA EmissionKeeps == IInv /\ (Render \/ Refuse \/ Finish) => IInv'
<1> SUFFICES ASSUME IInv, Render \/ Refuse \/ Finish PROVE IInv'
    OBVIOUS
<1> USE ConstantsAssumption DEF IInv
<1>0. /\ shapes' = shapes /\ defs' = defs /\ passes' = passes /\ changed' = changed
      /\ phase = "render" /\ phase' # "fixpoint"
    BY DEF Render, Refuse, Finish
<1>1. \A i \in Defs : /\ IsFallible(i)' <=> IsFallible(i)
                      /\ Signature(i)' <=> Signature(i)
                      /\ Asks(i)' <=> Asks(i)
                      /\ Refused(i)' <=> Refused(i)
    BY <1>0 DEF IsFallible, Calls, Signature, Asks, Refused
<1>2. TypeOK'
    <2>1. Signature(at) \in BOOLEAN /\ Asks(at) \in BOOLEAN
        BY DEF Signature, Asks, TypeOK, Definition
    <2> QED
        BY <2>1, <1>0 DEF Render, Refuse, Finish, TypeOK, Defs
<1>3. ShapeKinds' /\ Sound'
    BY <1>0 DEF ShapeKinds, Sound, FallibleDefs, Least, Buffers, ClosedOver, ValueDefs, Calls
<1>4. Settled'
    BY <1>0, <1>1 DEF Settled
<1>5. Paid'
    BY <1>0 DEF Paid, FallibleDefs
<1>6. Rendered'
    <2>1. CASE Render
        <3>1. DOMAIN emitted' = DOMAIN emitted \cup {at} /\ at \in Defs /\ ~Refused(at)
            BY <2>1 DEF Render
        <3>2. DOMAIN emitted' = {i \in Defs : i < at'}
            BY <2>1, <3>1, <1>0 DEF Render, Rendered, Defs, TypeOK
        <3>3. \A i \in DOMAIN emitted' :
                 /\ emitted'[i] = [result |-> Signature(i), asks |-> Asks(i)]
                 /\ ~Refused(i)
            BY <2>1, <3>1 DEF Render, Rendered
        <3> QED
            BY <2>1, <3>2, <3>3, <1>0, <1>1 DEF Render, Rendered, Signature, Asks
    <2>2. CASE Refuse
        BY <2>2, <1>0, <1>1 DEF Refuse, Rendered, TypeOK, Signature, Asks
    <2>3. CASE Finish
        <3>1. DOMAIN emitted = Defs
            BY <2>3 DEF Finish, Rendered, Defs
        <3> QED
            BY <2>3, <3>1, <1>0, <1>1 DEF Finish, Rendered, Signature, Asks
    <2> QED
        BY <2>1, <2>2, <2>3
<1> QED
    BY <1>2, <1>3, <1>4, <1>5, <1>6

\* The inductive invariant holds throughout.
THEOREM Invariance == Spec => []IInv
<1>1. IInv /\ UNCHANGED vars => IInv'
    BY DEF vars, IInv, TypeOK, ShapeKinds, Sound, Settled, Paid, Rendered, FallibleDefs,
           Least, Buffers, ClosedOver, ValueDefs, Calls, IsFallible, Signature, Asks, Refused
<1>2. IInv /\ [Next]_vars => IInv'
    BY <1>1, PromoteKeeps, LoopKeeps, EmissionKeeps DEF Next
<1> QED
    BY <1>2, InitHolds, PTL DEF Spec

-----------------------------------------------------------------------------
\* Type correctness of the fixpoint and of the emission.
THEOREM TypeCorrect == Spec => []TypeOK
BY Invariance, PTL DEF IInv

\* The shapes the loop returns are the least fixpoint over the call graph.
THEOREM Fixpoint == Spec => []LeastFixpoint
<1>1. IInv => LeastFixpoint
    <2> SUFFICES ASSUME IInv, phase # "fixpoint" PROVE Least(Buffers) \subseteq FallibleDefs
        BY DEF IInv, Sound, LeastFixpoint
    <2>0. FallibleDefs \in SUBSET ValueDefs
        BY DEF IInv, ShapeKinds, InitialShape, FallibleDefs, ValueDefs
    <2>1. \A i \in ValueDefs : shapes[i] = "Value" \/ shapes[i] = "Fallible"
        BY DEF IInv, ShapeKinds, InitialShape, ValueDefs
    <2>2. ClosedOver(FallibleDefs, Buffers)
        <3> SUFFICES ASSUME NEW i \in ValueDefs,
                            defs[i].checked
                              \/ (\E c \in Calls(i) : c \in FallibleDefs \cup Buffers)
                     PROVE  i \in FallibleDefs
            BY DEF ClosedOver
        <3>1. IsFallible(i)
            BY FallibleMeansClosure DEF IInv
        <3> QED
            BY <3>1, <2>1 DEF IInv, Settled, FallibleDefs, ValueDefs
    <2> QED
        BY <2>0, <2>2, LeastIsLeast
<1> QED
    BY <1>1, Invariance, PTL

\* The number of passes is bounded by the number of promotions plus one.
THEOREM FewPasses == Spec => []PassesBounded
<1>1. IInv => PassesBounded
    BY DEF IInv, Paid, PassesBounded
<1> QED
    BY <1>1, Invariance, PTL

\* Every function that holds a `?` returns a Result.
THEOREM WellTyped == Spec => []QuestionMarksTyped
<1>1. IInv => QuestionMarksTyped
    <2> SUFFICES ASSUME IInv, NEW i \in DOMAIN emitted, Asks(i) PROVE Signature(i)
        BY DEF IInv, Rendered, QuestionMarksTyped
    <2>1. i \in Defs /\ phase # "fixpoint" /\ ~Refused(i) /\ shapes[i] \in Shape
        BY DEF IInv, TypeOK, Rendered
    <2>2. IsFallible(i)
        BY DEF Asks, IsFallible, Calls
    <2> QED
        BY <2>1, <2>2 DEF IInv, Settled, Refused, Signature, Shape
<1> QED
    BY <1>1, Invariance, PTL

\* In an emitted module a value definition returns a Result only if a chain of
\* calls leads from it to a checked operation.
THEOREM OnlyIfItCanFail == Spec => []ResultOnlyIfItCanFail
<1>1. IInv => ResultOnlyIfItCanFail
    <2> SUFFICES ASSUME IInv, phase = "emitted", NEW i \in ValueDefs, emitted[i].result,
                        NEW S \in SUBSET ValueDefs, ClosedOver(S, {})
                 PROVE  i \in S
        BY DEF ResultOnlyIfItCanFail, Least
    <2>1. DOMAIN emitted = Defs /\ \A k \in Defs : ~Refused(k)
        BY DEF IInv, Rendered
    <2>2. i \in FallibleDefs
        <3>1. i \in Defs /\ shapes[i] \in {"Value", "Fallible"}
            BY DEF IInv, ShapeKinds, InitialShape, ValueDefs
        <3>2. Signature(i)
            BY <2>1, <3>1 DEF IInv, Rendered
        <3> QED
            BY <3>1, <3>2 DEF Signature, FallibleDefs
    <2>3. \A k \in ValueDefs : \A c \in Calls(k) : c \notin Buffers
        <3> SUFFICES ASSUME NEW k \in ValueDefs, NEW c \in Calls(k), c \in Buffers
                     PROVE  FALSE
            OBVIOUS
        <3>1. shapes[c] = "Buffer"
            BY DEF Buffers, IInv, ShapeKinds, InitialShape
        <3>2. defs[k] \in Bodies /\ WellFormed(defs[k])
            BY ConstantsAssumption DEF IInv, TypeOK, ValueDefs
        <3>3. c \in defs[k].uses
            BY <3>2 DEF Calls, WellFormed, ValueDefs
        <3>4. shapes[k] \in {"Value", "Fallible"}
            BY DEF IInv, ShapeKinds, InitialShape, ValueDefs
        <3> QED
            BY <3>1, <3>3, <3>4, <2>1 DEF Refused, ValueDefs
    <2>4. ClosedOver(S, Buffers)
        BY <2>3 DEF ClosedOver
    <2>5. Least(Buffers) \subseteq S
        BY <2>4, LeastIsLeast
    <2> QED
        BY <2>2, <2>5 DEF IInv, Sound
<1> QED
    BY <1>1, Invariance, PTL

\* Shapes move only from Value to Fallible and are fixed once rendering began.
THEOREM Monotone == Spec => ShapesOnlyPromoted
<1>1. IInv /\ [Next]_vars =>
        [\A i \in Defs : shapes'[i] # shapes[i] =>
            shapes[i] = "Value" /\ shapes'[i] = "Fallible" /\ phase = "fixpoint"]_vars
    BY DEF IInv, TypeOK, Next, Promote, Keep, NextPass, Return, Render, Refuse, Finish, vars
<1> QED
    BY <1>1, Invariance, PTL DEF Spec, ShapesOnlyPromoted

-----------------------------------------------------------------------------
(* The type declarations.  copy_type calls itself with ever longer paths,  *)
(* so what is said of it is shown by induction on the names a path has     *)
(* not met; sets of naturals carry the induction.                          *)

LEMMA NatSetInduction ==
    ASSUME NEW S \in SUBSET Nat, 0 \in S, \A n \in S : n + 1 \in S
    PROVE  S = Nat
  <1> SUFFICES ASSUME S # Nat PROVE FALSE
    OBVIOUS
  <1>1. PICK x \in Nat \ S : \A y \in Nat \ S : ~(<<y, x>> \in OpToRel(<, Nat))
    <2>1. Nat \ S \subseteq Nat /\ Nat \ S # {}
      OBVIOUS
    <2>2. QED BY <2>1, NatLessThanWellFounded, WFMin
  <1>2. \A y \in Nat \ S : ~(y < x)
    BY <1>1 DEF OpToRel
  <1>3. x # 0 /\ x - 1 \in S /\ x = (x - 1) + 1
    BY <1>2
  <1>4. QED BY <1>3

Tables == [1 .. T -> Seq(Declared!FieldType)]

\* The names that copy_type has not met on its path yet.
Left(visiting) == Cardinality(Declared!Names \ visiting)

\* What copy_type does with a field, when h does the fields below.
CopyBody(h, visiting, f) ==
    /\ f.kind \notin {"string", "vec"} /\ f.in # "list"
    /\ f.kind = "named" =>
          /\ f.to \notin visiting
          /\ f.to # Declared!Unknown
          /\ \A g \in Declared!Range(types[f.to]) : h[visiting \cup {f.to}][g]

Visits == [SUBSET Declared!Names -> [Declared!FieldType -> BOOLEAN]]

LEMMA NamesLeft ==
    ASSUME NEW v \in SUBSET Declared!Names
    PROVE  /\ Left(v) \in Nat /\ Left(v) <= T
           /\ \A m \in Declared!Names \ v :
                /\ v \cup {m} \in SUBSET Declared!Names
                /\ Left(v \cup {m}) = Left(v) - 1
  <1>1. T \in Nat /\ Declared!Names = 1 .. T
    BY ModulesAssumption DEF Declared!Names
  <1>2. IsFiniteSet(Declared!Names) /\ Cardinality(Declared!Names) = T
    BY <1>1, FS_Interval
  <1>3. /\ IsFiniteSet(Declared!Names \ v) /\ Cardinality(Declared!Names \ v) <= T
    <2>1. Declared!Names \ v \in SUBSET Declared!Names
      OBVIOUS
    <2>2. QED BY <1>2, <2>1, FS_Subset
  <1>4. Left(v) \in Nat /\ Left(v) <= T
    BY <1>3, FS_CardinalityType DEF Left
  <1>5. ASSUME NEW m \in Declared!Names \ v
        PROVE  v \cup {m} \in SUBSET Declared!Names /\ Left(v \cup {m}) = Left(v) - 1
    <2>1. Declared!Names \ (v \cup {m}) = (Declared!Names \ v) \ {m}
      OBVIOUS
    <2>2. Cardinality((Declared!Names \ v) \ {m}) = Cardinality(Declared!Names \ v) - 1
      BY <1>3, FS_RemoveElement
    <2>3. QED BY <2>1, <2>2 DEF Left
  <1>6. QED BY <1>4, <1>5

LEMMA FieldKinds ==
    ASSUME NEW f \in Declared!FieldType
    PROVE  /\ f.kind \in {"scalar", "string", "vec", "named"}
           /\ f.to # Declared!Unknown => f.to \in Declared!Names
  BY DEF Declared!FieldType, Declared!Plain, Declared!Named

LEMMA FieldsOf ==
    ASSUME types \in Tables, NEW n \in Declared!Names
    PROVE  Declared!Range(types[n]) \subseteq Declared!FieldType
  <1>1. types[n] \in Seq(Declared!FieldType)
    BY DEF Tables, Declared!Names
  <1>2. QED BY <1>1 DEF Declared!Range

\* copy_type is defined: it calls itself with longer paths only.
LEMMA CopyTypeDef ==
    ASSUME types \in Tables
    PROVE  /\ Declared!copy_type \in Visits
           /\ \A v \in SUBSET Declared!Names : \A f \in Declared!FieldType :
                Declared!copy_type[v][f] = CopyBody(Declared!copy_type, v, f)
  <1> DEFINE Round(h) == [v \in SUBSET Declared!Names |-> [f \in Declared!FieldType |-> CopyBody(h, v, f)]]
             Good(h, n) == h \in Visits /\ \A v \in SUBSET Declared!Names :
                              Left(v) < n => h[v] = Round(h)[v]
             S == {n \in Nat : \E h \in Visits : Good(h, n)}
  <1>1. ASSUME NEW h \in Visits, NEW n \in Nat, Good(h, n)
        PROVE  Good(Round(h), n + 1)
    <2>1. \A v \in SUBSET Declared!Names : \A f \in Declared!FieldType : CopyBody(h, v, f) \in BOOLEAN
      BY DEF CopyBody
    <2>2. Round(h) \in Visits
      BY <2>1 DEF Visits
    <2>3. ASSUME NEW v \in SUBSET Declared!Names, Left(v) < n + 1, NEW f \in Declared!FieldType
          PROVE  CopyBody(h, v, f) = CopyBody(Round(h), v, f)
      <3>1. ASSUME f.to \notin v, f.to # Declared!Unknown
            PROVE  h[v \cup {f.to}] = Round(h)[v \cup {f.to}]
        <4>1. f.to \in Declared!Names \ v
          BY <3>1, FieldKinds
        <4>2. v \cup {f.to} \in SUBSET Declared!Names /\ Left(v \cup {f.to}) < n
          BY <2>3, <4>1, NamesLeft
        <4>3. QED BY <1>1, <4>2
      <3> HIDE DEF Round
      <3>2. QED BY <3>1 DEF CopyBody
    <2>4. ASSUME NEW v \in SUBSET Declared!Names, Left(v) < n + 1
          PROVE  Round(h)[v] = Round(Round(h))[v]
      <3>1. Round(h)[v] = [f \in Declared!FieldType |-> CopyBody(h, v, f)]
        OBVIOUS
      <3>2. Round(Round(h))[v] = [f \in Declared!FieldType |-> CopyBody(Round(h), v, f)]
        OBVIOUS
      <3> HIDE DEF Round
      <3>3. QED BY <2>3, <2>4, <3>1, <3>2
    <2>5. QED BY <2>2, <2>4
  <1>2. S = Nat
    <2>1. 0 \in S
      <3>1. [v \in SUBSET Declared!Names |-> [f \in Declared!FieldType |-> TRUE]] \in Visits
        BY DEF Visits
      <3>2. \A v \in SUBSET Declared!Names : ~(Left(v) < 0)
        BY NamesLeft
      <3> HIDE DEF Round
      <3>3. QED BY <3>1, <3>2
    <2>2. ASSUME NEW n \in S PROVE n + 1 \in S
      <3>1. PICK h \in Visits : Good(h, n)
        OBVIOUS
      <3>2. n \in Nat /\ Good(Round(h), n + 1)
        BY <1>1, <3>1
      <3>3. Round(h) \in Visits
        BY <3>2
      <3> HIDE DEF Good
      <3>4. QED BY <3>2, <3>3
    <2>3. S \in SUBSET Nat
      OBVIOUS
    <2> HIDE DEF S
    <2>4. QED BY <2>1, <2>2, <2>3, NatSetInduction
  <1>3. PICK h \in Visits : Good(h, T + 1)
    <2>1. T + 1 \in Nat
      BY ModulesAssumption
    <2>2. T + 1 \in S
      <3> HIDE DEF S
      <3>1. QED BY <1>2, <2>1
    <2>3. QED BY <2>2
  <1>4. \A v \in SUBSET Declared!Names : h[v] = Round(h)[v]
    <2>1. \A v \in SUBSET Declared!Names : Left(v) < T + 1
      BY NamesLeft, ModulesAssumption
    <2>2. QED BY <1>3, <2>1
  <1>5. h = Round(h)
    BY <1>4 DEF Visits
  <1>6. Declared!copy_type = Round(Declared!copy_type)
    BY <1>5 DEF Declared!copy_type, CopyBody
  <1>7. ASSUME NEW g, g = Round(g) PROVE g \in Visits
    <2>1. \A v \in SUBSET Declared!Names : \A f \in Declared!FieldType : CopyBody(g, v, f) \in BOOLEAN
      BY DEF CopyBody
    <2>2. Round(g) \in Visits
      BY <2>1 DEF Visits
    <2> HIDE DEF Round
    <2>3. QED BY <1>7, <2>2
  <1>8. Declared!copy_type \in Visits
    <2> HIDE DEF Round
    <2>1. QED BY <1>6, <1>7
  <1>9. \A v \in SUBSET Declared!Names : \A f \in Declared!FieldType :
           Round(Declared!copy_type)[v][f] = CopyBody(Declared!copy_type, v, f)
    OBVIOUS
  <1> HIDE DEF Round
  <1>10. QED BY <1>6, <1>8, <1>9

\* A longer path only makes copy_type refuse more.
LEMMA CopyAntitone ==
    ASSUME types \in Tables
    PROVE  \A v, w \in SUBSET Declared!Names : v \subseteq w =>
             \A f \in Declared!FieldType : Declared!copy_type[w][f] => Declared!copy_type[v][f]
  <1> DEFINE C == Declared!copy_type
             S == {n \in Nat : \A v, w \in SUBSET Declared!Names : v \subseteq w /\ Left(v) < n =>
                      \A f \in Declared!FieldType : C[w][f] => C[v][f]}
  <1>1. /\ C \in Visits
        /\ \A v \in SUBSET Declared!Names : \A f \in Declared!FieldType : C[v][f] = CopyBody(C, v, f)
    BY CopyTypeDef
  <1> HIDE DEF C
  <1>2. 0 \in S
    BY NamesLeft
  <1>3. ASSUME NEW n \in S PROVE n + 1 \in S
    <2>1. n \in Nat
      OBVIOUS
    <2>2. ASSUME NEW v \in SUBSET Declared!Names, NEW w \in SUBSET Declared!Names, v \subseteq w,
                 Left(v) < n + 1, NEW f \in Declared!FieldType, C[w][f]
          PROVE  C[v][f]
      <3>1. CopyBody(C, w, f)
        BY <1>1, <2>2
      <3>2. ASSUME f.kind = "named"
            PROVE  /\ f.to \notin v /\ f.to # Declared!Unknown
                   /\ \A g \in Declared!Range(types[f.to]) : C[v \cup {f.to}][g]
        <4>1. f.to \in Declared!Names \ w /\ f.to # Declared!Unknown
          BY <3>1, <3>2, FieldKinds DEF CopyBody
        <4>2. /\ v \cup {f.to} \in SUBSET Declared!Names /\ w \cup {f.to} \in SUBSET Declared!Names
              /\ v \cup {f.to} \subseteq w \cup {f.to} /\ Left(v \cup {f.to}) < n
          <5>1. f.to \in Declared!Names \ v
            BY <2>2, <4>1
          <5>2. Left(v \cup {f.to}) = Left(v) - 1 /\ Left(v) \in Nat
            BY <5>1, NamesLeft
          <5>3. QED BY <2>1, <2>2, <4>1, <5>1, <5>2
        <4>3. ASSUME NEW g \in Declared!Range(types[f.to]) PROVE C[v \cup {f.to}][g]
          <5>1. g \in Declared!FieldType
            BY <4>1, FieldsOf
          <5>2. C[w \cup {f.to}][g]
            BY <3>1, <3>2, <4>3 DEF CopyBody
          <5>3. QED BY <4>2, <5>1, <5>2
        <4>4. QED BY <2>2, <4>1, <4>3
      <3>3. CopyBody(C, v, f)
        BY <3>1, <3>2 DEF CopyBody
      <3>4. QED BY <1>1, <2>2, <3>3
    <2>3. QED BY <2>1, <2>2
  <1>4. S \in SUBSET Nat
    OBVIOUS
  <1>5. S = Nat
    <2> HIDE DEF S
    <2>1. QED BY <1>2, <1>3, <1>4, NatSetInduction
  <1>6. T + 1 \in Nat
    BY ModulesAssumption
  <1>7. T + 1 \in S
    <2> HIDE DEF S
    <2>1. QED BY <1>5, <1>6
  <1>8. \A v \in SUBSET Declared!Names : Left(v) < T + 1
    BY NamesLeft, ModulesAssumption
  <1>9. QED BY <1>7, <1>8 DEF C

ReachHolds(n) == Declared!Reach(Declared!Holds, n)
ReachMentions(n) == Declared!Reach(Declared!Mentions, n)

LEMMA HoldsNames ==
    ASSUME types \in Tables, NEW n \in Declared!Names
    PROVE  Declared!Holds(n) \subseteq Declared!Names
  <1>1. \A f \in Declared!Range(types[n]) : f \in Declared!FieldType
    BY FieldsOf
  <1>2. QED BY <1>1, FieldKinds DEF Declared!Holds

LEMMA ReachFacts ==
    ASSUME types \in Tables, NEW n \in Declared!Names
    PROVE  /\ ReachHolds(n) \subseteq Declared!Names
           /\ Declared!Holds(n) \subseteq ReachHolds(n)
           /\ \A m \in ReachHolds(n) : Declared!Holds(m) \subseteq ReachHolds(n)
           /\ \A m \in ReachHolds(n) : ReachHolds(m) \subseteq ReachHolds(n)
  <1>1. ReachHolds(n) \subseteq Declared!Names
    BY DEF ReachHolds, Declared!Reach
  <1>2. Declared!Holds(n) \subseteq ReachHolds(n)
    BY HoldsNames DEF ReachHolds, Declared!Reach
  <1>3. ASSUME NEW m \in ReachHolds(n), NEW k \in Declared!Holds(m)
        PROVE  k \in ReachHolds(n)
    BY <1>1, HoldsNames DEF ReachHolds, Declared!Reach
  <1>4. ASSUME NEW m \in ReachHolds(n), NEW k \in ReachHolds(m)
        PROVE  k \in ReachHolds(n)
    BY DEF ReachHolds, Declared!Reach
  <1>5. QED BY <1>1, <1>2, <1>3, <1>4

\* Why a derive may be withheld.
Excused(n) ==
    \/ Declared!ReachesOwner(n)
    \/ \E m \in {n} \cup ReachHolds(n) : m \in ReachHolds(m)

\* A path of types from n to p, each of which holds the next.
Path(n, p, v) ==
    /\ p \in {n} \cup ReachHolds(n)
    /\ \A u \in v : u \in {n} \cup ReachHolds(n) /\ p \in {u} \cup ReachHolds(u)

\* A field that copy_type refuses leads to owned storage or closes a cycle.
LEMMA RefusedIsExcused ==
    ASSUME types \in Tables, NEW n \in Declared!Names,
           \A m \in Declared!Names : Declared!Failures(m) = {}
    PROVE  \A v \in SUBSET Declared!Names : \A p \in Declared!Names : Path(n, p, v) =>
             \A f \in Declared!Range(types[p]) : ~Declared!copy_type[v][f] => Excused(n)
  <1> DEFINE C == Declared!copy_type
             S == {i \in Nat : \A v \in SUBSET Declared!Names : \A p \in Declared!Names :
                      Path(n, p, v) /\ Left(v) < i =>
                        \A f \in Declared!Range(types[p]) : ~C[v][f] => Excused(n)}
  <1>1. /\ C \in Visits
        /\ \A v \in SUBSET Declared!Names : \A f \in Declared!FieldType : C[v][f] = CopyBody(C, v, f)
    BY CopyTypeDef
  <1> HIDE DEF C
  <1>2. 0 \in S
    BY NamesLeft
  <1>3. ASSUME NEW i \in S PROVE i + 1 \in S
    <2>1. i \in Nat
      OBVIOUS
    <2>2. ASSUME NEW v \in SUBSET Declared!Names, NEW p \in Declared!Names, Path(n, p, v),
                 Left(v) < i + 1, NEW f \in Declared!Range(types[p]), ~C[v][f]
          PROVE  Excused(n)
      <3>1. f \in Declared!FieldType /\ ~CopyBody(C, v, f)
        BY <1>1, <2>2, FieldsOf
      <3>2. Declared!check_field_type(f, p) = "Ok"
        <4>1. PICK k \in DOMAIN types[p] : f = types[p][k]
          BY <2>2 DEF Declared!Range
        <4>2. Declared!Checks(p)[k] = "Ok"
          BY <2>2 DEF Declared!Failures
        <4>3. QED BY <4>1, <4>2 DEF Declared!Checks
      <3>3. f.kind # "vec" /\ (f.kind = "named" => f.to # Declared!Unknown)
        <4>1. f.kind = "named" /\ f.to = Declared!Unknown => f.to # p
          BY DEF Declared!Names, Declared!Unknown
        <4>2. QED BY <3>2, <4>1 DEF Declared!check_field_type
      <3>4. CASE f.kind = "string" \/ f.in = "list"
        <4>1. Declared!Owning(p)
          BY <2>2, <3>4 DEF Declared!Owning
        <4>2. QED BY <2>2, <4>1 DEF Path, Excused, Declared!ReachesOwner, ReachHolds
      <3>5. CASE f.kind # "string" /\ f.in # "list"
        <4>1. f.kind = "named" /\ f.to \in Declared!Names
          BY <3>1, <3>3, <3>5, FieldKinds DEF CopyBody
        <4>2. f.to \in Declared!Holds(p)
          BY <2>2, <3>3, <3>5, <4>1 DEF Declared!Holds
        <4>3. /\ f.to \in ReachHolds(p) /\ f.to \in ReachHolds(n)
              /\ \A u \in v : f.to \in ReachHolds(u)
          <5>1. f.to \in ReachHolds(p)
            BY <4>2, ReachFacts
          <5>2. ASSUME NEW u \in Declared!Names, p \in {u} \cup ReachHolds(u)
                PROVE  f.to \in ReachHolds(u)
            BY <4>2, <5>2, ReachFacts
          <5>3. QED BY <2>2, <5>1, <5>2 DEF Path
        <4>4. CASE f.to \in v
          BY <2>2, <4>3, <4>4 DEF Path, Excused
        <4>5. CASE f.to \notin v
          <5>1. PICK g \in Declared!Range(types[f.to]) : ~C[v \cup {f.to}][g]
            BY <3>1, <3>3, <3>5, <4>5 DEF CopyBody
          <5>2. v \cup {f.to} \in SUBSET Declared!Names /\ Left(v \cup {f.to}) < i
            <6>1. f.to \in Declared!Names \ v
              BY <4>1, <4>5
            <6>2. Left(v \cup {f.to}) = Left(v) - 1 /\ Left(v) \in Nat
              BY <6>1, NamesLeft
            <6>3. QED BY <2>1, <2>2, <4>1, <6>2
          <5>3. Path(n, f.to, v \cup {f.to})
            BY <2>2, <4>3 DEF Path
          <5>4. QED BY <4>1, <5>1, <5>2, <5>3
        <4>6. QED BY <4>4, <4>5
      <3>6. QED BY <3>4, <3>5
    <2>3. QED BY <2>1, <2>2
  <1>4. S \in SUBSET Nat
    OBVIOUS
  <1>5. S = Nat
    <2> HIDE DEF S
    <2>1. QED BY <1>2, <1>3, <1>4, NatSetInduction
  <1>6. T + 1 \in Nat
    BY ModulesAssumption
  <1>7. T + 1 \in S
    <2> HIDE DEF S
    <2>1. QED BY <1>5, <1>6
  <1>8. \A v \in SUBSET Declared!Names : Left(v) < T + 1
    BY NamesLeft, ModulesAssumption
  <1>9. QED BY <1>7, <1>8 DEF C

\* A type that is Copy holds types that are Copy.
LEMMA CopyIsHeld ==
    ASSUME types \in Tables, NEW n \in Declared!Names, Declared!IsCopy(n),
           NEW m \in Declared!Holds(n)
    PROVE  Declared!IsCopy(m)
  <1> DEFINE C == Declared!copy_type
  <1>1. \A v \in SUBSET Declared!Names : \A f \in Declared!FieldType : C[v][f] = CopyBody(C, v, f)
    BY CopyTypeDef
  <1> HIDE DEF C
  <1>2. PICK f \in Declared!Range(types[n]) :
           f.kind = "named" /\ f.in # "list" /\ f.to = m /\ m # Declared!Unknown
    BY DEF Declared!Holds
  <1>3. m \in Declared!Names /\ f \in Declared!FieldType
    BY <1>2, FieldsOf, HoldsNames
  <1>4. C[{}][f]
    BY <1>2 DEF Declared!IsCopy, C
  <1>5. CopyBody(C, {}, f)
    BY <1>1, <1>3, <1>4
  <1>6. \A g \in Declared!Range(types[m]) : C[{} \cup {m}][g]
    BY <1>2, <1>5 DEF CopyBody
  <1>7. ASSUME NEW g \in Declared!Range(types[m]) PROVE C[{}][g]
    <2>1. g \in Declared!FieldType /\ C[{m}][g]
      BY <1>3, <1>6, FieldsOf
    <2>2. {m} \in SUBSET Declared!Names /\ {} \in SUBSET Declared!Names /\ {} \subseteq {m}
      BY <1>3
    <2>3. QED BY <2>1, <2>2, CopyAntitone DEF C
  <1>8. QED BY <1>7 DEF Declared!IsCopy, C

\* What was decided about all declarations is true.
LEMMA DecidedIsTrue == Declared!Decided => TypeVerdictsAreTrue
  <1> SUFFICES ASSUME Declared!Decided PROVE TypeVerdictsAreTrue
    OBVIOUS
  <1>1. types \in Tables /\ T \in Nat /\ Declared!Names = 1 .. T
    BY ModulesAssumption DEF Declared!Decided, Tables, Declared!Names
  <1>2. ASSUME verdict = "emitted", NEW n \in Declared!Names
        PROVE  /\ copies[n] => \A m \in Declared!Holds(n) : copies[m]
               /\ ~copies[n] =>
                     \/ Declared!ReachesOwner(n)
                     \/ \E m \in {n} \cup Declared!Reach(Declared!Holds, n) :
                           m \in Declared!Reach(Declared!Holds, m)
    <2>1. \A m \in Declared!Names : Declared!Failures(m) = {} /\ copies[m] = Declared!IsCopy(m)
      <3>1. typeAt = T + 1
        BY <1>2 DEF Declared!Decided
      <3>2. 1 .. (typeAt - 1) = Declared!Names
        BY <1>1, <3>1
      <3>3. QED BY <3>2 DEF Declared!Decided
    <2>2. copies[n] => \A m \in Declared!Holds(n) : copies[m]
      BY <1>1, <2>1, CopyIsHeld, HoldsNames
    <2>3. ASSUME ~copies[n] PROVE Excused(n)
      <3>1. PICK f \in Declared!Range(types[n]) : ~Declared!copy_type[{}][f]
        BY <2>1, <2>3 DEF Declared!IsCopy
      <3>2. Path(n, n, {}) /\ {} \in SUBSET Declared!Names
        BY DEF Path
      <3>3. QED BY <1>1, <2>1, <3>1, <3>2, RefusedIsExcused
    <2>4. QED BY <2>2, <2>3 DEF Excused, ReachHolds
  <1>3. Declared!CopyAgrees
    BY <1>2 DEF Declared!CopyAgrees
  <1>4. QED BY <1>3 DEF TypeVerdictsAreTrue, Declared!VerdictsAreTrue, Declared!Decided

\* A field that is refused as recursive closes a chain of mentions.
LEMMA RecursiveIsReached ==
    ASSUME types \in Tables, NEW n \in Declared!Names, NEW f \in Declared!Range(types[n]),
           Declared!check_field_type(f, n) = "RecursiveType"
    PROVE  n \in Declared!Reach(Declared!Mentions, n)
  <1>1. f \in Declared!FieldType /\ n # Declared!Unknown
    BY FieldsOf DEF Declared!Names, Declared!Unknown
  <1>2. f.kind = "named" /\ (f.to = n \/ (f.to # Declared!Unknown /\ Declared!RefersBack(f.to, n)))
    BY DEF Declared!check_field_type
  <1>3. f.to # Declared!Unknown /\ f.to \in Declared!Mentions(n)
    BY <1>1, <1>2 DEF Declared!Mentions
  <1>4. CASE f.to = n
    BY <1>3, <1>4 DEF Declared!Reach
  <1>5. CASE Declared!RefersBack(f.to, n)
    <2>1. n \in Declared!Mentions(f.to)
      BY <1>1, <1>5 DEF Declared!RefersBack, Declared!Mentions
    <2>2. QED BY <1>3, <2>1 DEF Declared!Reach
  <1>6. QED BY <1>2, <1>4, <1>5

LEMMA TypesInit == ModuleInit => Declared!Decided
  <1> SUFFICES ASSUME ModuleInit PROVE Declared!Decided
    OBVIOUS
  <1>1. PICK m \in Modules : Declared!Init(m.types)
    BY DEF ModuleInit
  <1>2. /\ types = m.types /\ typeAt = 1 /\ copies = << >> /\ verdict = "none"
        /\ T \in Nat /\ types \in [1 .. T -> Seq(Declared!FieldType)]
    BY <1>1, ModulesAssumption DEF Declared!Init
  <1>3. 1 .. (typeAt - 1) = {}
    BY <1>2
  <1>4. copies \in Seq(BOOLEAN) /\ Len(copies) = typeAt - 1 /\ typeAt \in 1 .. (T + 1)
    BY <1>2
  <1>5. QED
    BY <1>2, <1>3, <1>4 DEF Declared!Decided, Declared!Names, Declared!RefusalsAreReal

LEMMA TypesStep ==
    ASSUME Declared!Decided, Declared!Next
    PROVE  Declared!Decided'
  <1>1. /\ types \in Tables /\ T \in Nat /\ Declared!Names = 1 .. T /\ typeAt \in 1 .. (T + 1)
        /\ copies \in Seq(BOOLEAN) /\ Len(copies) = typeAt - 1
        /\ \A n \in 1 .. (typeAt - 1) : Declared!Failures(n) = {} /\ copies[n] = Declared!IsCopy(n)
        /\ verdict = "none" /\ types' = types
    BY ModulesAssumption
    DEF Declared!Decided, Tables, Declared!Names, Declared!Next, Declared!Emit, Declared!Reject,
        Declared!Finish
  <1>2. Declared!copy_type' = Declared!copy_type
    BY <1>1 DEF Declared!copy_type
  <1>3. \A n : Declared!IsCopy(n)' = Declared!IsCopy(n) /\ Declared!Failures(n)' = Declared!Failures(n)
    BY <1>1, <1>2 DEF Declared!IsCopy, Declared!Failures, Declared!Checks,
       Declared!check_field_type, Declared!RefersBack
  <1>4. types' \in [Declared!Names -> Seq(Declared!FieldType)]
    BY <1>1 DEF Tables
  <1>5. CASE Declared!Emit
    <2>1. /\ typeAt \in 1 .. T /\ Declared!Failures(typeAt) = {} /\ typeAt' = typeAt + 1
          /\ copies' = Append(copies, Declared!IsCopy(typeAt)) /\ verdict' = verdict
      BY <1>1, <1>5 DEF Declared!Emit
    <2>2. Declared!IsCopy(typeAt) \in BOOLEAN
      BY DEF Declared!IsCopy
    <2>3. /\ copies' \in Seq(BOOLEAN) /\ Len(copies') = typeAt' - 1 /\ typeAt' \in 1 .. (T + 1)
          /\ \A n \in 1 .. (typeAt' - 1) :
               copies'[n] = IF n = typeAt THEN Declared!IsCopy(typeAt) ELSE copies[n]
      BY <1>1, <2>1, <2>2
    <2>4. \A n \in 1 .. (typeAt' - 1) :
             Declared!Failures(n)' = {} /\ copies'[n] = Declared!IsCopy(n)'
      BY <1>1, <1>3, <2>1, <2>3
    <2>5. QED BY <1>1, <1>4, <2>1, <2>3, <2>4 DEF Declared!Decided, Declared!RefusalsAreReal
  <1>6. CASE Declared!Reject
    <2>1. PICK k \in Declared!Failures(typeAt) : verdict' = Declared!Checks(typeAt)[k]
      BY <1>6 DEF Declared!Reject
    <2>2. typeAt' = typeAt /\ copies' = copies /\ typeAt \in Declared!Names
      BY <1>6 DEF Declared!Reject
    <2>3. k \in DOMAIN types[typeAt] /\ verdict' = Declared!check_field_type(types[typeAt][k], typeAt)
      BY <2>1 DEF Declared!Failures, Declared!Checks
    <2>4. types[typeAt][k] \in Declared!Range(types[typeAt])
      BY <2>3 DEF Declared!Range
    <2>5. verdict' = "RecursiveType" => typeAt \in Declared!Reach(Declared!Mentions, typeAt)
      BY <1>1, <2>2, <2>3, <2>4, RecursiveIsReached
    <2>6. Declared!Reach(Declared!Mentions, typeAt)' = Declared!Reach(Declared!Mentions, typeAt)
      BY <1>1, <2>2 DEF Declared!Reach, Declared!Mentions
    <2>7. Declared!RefusalsAreReal'
      BY <2>2, <2>5, <2>6 DEF Declared!RefusalsAreReal
    <2>8. verdict' # "emitted"
      BY <2>3 DEF Declared!check_field_type
    <2>9. QED BY <1>1, <1>3, <1>4, <2>2, <2>7, <2>8 DEF Declared!Decided
  <1>7. CASE Declared!Finish
    BY <1>1, <1>3, <1>4, <1>7 DEF Declared!Finish, Declared!Decided, Declared!RefusalsAreReal
  <1>8. QED BY <1>5, <1>6, <1>7 DEF Declared!Next

LEMMA TypesUnchanged == Declared!Decided /\ UNCHANGED typeVars => Declared!Decided'
  <1> SUFFICES ASSUME Declared!Decided, UNCHANGED typeVars PROVE Declared!Decided'
    OBVIOUS
  <1>1. types' = types /\ typeAt' = typeAt /\ copies' = copies /\ verdict' = verdict
    BY DEF typeVars
  <1>2. Declared!copy_type' = Declared!copy_type
    BY <1>1 DEF Declared!copy_type
  <1>3. \A n : Declared!IsCopy(n)' = Declared!IsCopy(n) /\ Declared!Failures(n)' = Declared!Failures(n)
    BY <1>1, <1>2 DEF Declared!IsCopy, Declared!Failures, Declared!Checks,
       Declared!check_field_type, Declared!RefersBack
  <1>4. Declared!Reach(Declared!Mentions, typeAt)' = Declared!Reach(Declared!Mentions, typeAt)
    BY <1>1 DEF Declared!Reach, Declared!Mentions
  <1>5. QED BY <1>1, <1>3, <1>4 DEF Declared!Decided, Declared!RefusalsAreReal

\* Whatever the type table: a type that generation refuses as recursive reaches
\* itself, and one derives Copy exactly when what it holds does, unless it owns
\* storage or reaches a type that holds itself.
THEOREM TypeVerdicts == ModuleSpec => []TypeVerdictsAreTrue
  <1>1. Declared!Decided /\ [ModuleNext]_moduleVars => Declared!Decided'
    BY TypesStep, TypesUnchanged
    DEF ModuleNext, ComputeShapes, RenderTypes, RenderDefinitions, moduleVars
  <1>2. QED BY TypesInit, <1>1, DecidedIsTrue, PTL DEF ModuleSpec

-----------------------------------------------------------------------------
(* The whole module.                                                       *)

\* The definitions of a module take the steps of Signatures and no other.
LEMMA SignaturesInModule == ModuleSpec => Spec
  <1>1. ModuleInit => Init
    BY DEF ModuleInit
  <1>2. [ModuleNext]_moduleVars => [Next]_vars
    BY DEF ModuleNext, ComputeShapes, RenderTypes, RenderDefinitions, moduleVars, Next
  <1>3. QED BY <1>1, <1>2, PTL DEF ModuleSpec, Spec

\* In generate_module too, where types are rendered in between, the shapes are the
\* least fixpoint and every `?` is typed.
THEOREM ModuleShapes == ModuleSpec => [](LeastFixpoint /\ QuestionMarksTyped)
  BY SignaturesInModule, Fixpoint, WellTyped, PTL
=============================================================================
