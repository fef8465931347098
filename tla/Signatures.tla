---------------------------- MODULE Signatures ----------------------------
(***************************************************************************)
(* How the code generator decides which generated functions return a       *)
(* Result, and the module emission that relies on the decision             *)
(* (rust/prod-codegen/src/lib.rs: signatures, is_fallible, generate_module *)
(* and the call rendering of Renderer::render).                            *)
(*                                                                         *)
(* A module is a sequence of N definitions with distinct names, which here *)
(* are their positions.  Of a definition's body the decision depends on    *)
(* three things only: whether it holds one of the operations that can      *)
(* overflow, the definitions it calls for a value, and the definitions it  *)
(* calls to build (the rest of) its own list.                              *)
(***************************************************************************)
EXTENDS Naturals, FiniteSets

CONSTANTS
    N,        \* number of definitions of the module
    Bodies    \* the definitions a module may be made of

Defs == 1..N

\* The part of an IR definition that matters here.
Definition == [list: BOOLEAN,           \* its type is a List
               nullary: BOOLEAN,        \* it has no parameters
               checked: BOOLEAN,        \* Add, Mul, Shl or Pow in its body
               uses: SUBSET Defs,       \* calls in value position
               builds: SUBSET Defs]     \* calls in list-building position

\* Only a definition of list type has a list-building position.
WellFormed(d) == d.builds = {} \/ d.list

ASSUME ConstantsAssumption ==
    /\ N \in Nat
    /\ Bodies \subseteq {d \in Definition : WellFormed(d)}

VARIABLES
    defs,      \* the module being generated
    shapes,    \* Signatures: the shape given to every definition so far
    at,        \* the definition the current loop visits next
    changed,   \* the pass over the definitions promoted one
    passes,    \* passes of the fixpoint loop begun so far
    emitted,   \* for each definition already rendered, what was emitted
    phase      \* "fixpoint", "render", then "emitted" or "UnsupportedList"

vars == <<defs, shapes, at, changed, passes, emitted, phase>>

Shape == {"Value", "Fallible", "Buffer", "StaticList"}

InitialShape(d) ==
    IF ~d.list THEN "Value" ELSE IF d.nullary THEN "StaticList" ELSE "Buffer"

Calls(i) == defs[i].uses \cup defs[i].builds

\* is_fallible on the body of definition i, with the shapes known so far.
IsFallible(i) ==
    defs[i].checked \/ \E c \in Calls(i) : shapes[c] \in {"Fallible", "Buffer"}

Init ==
    /\ defs \in [Defs -> Bodies]
    /\ shapes = [i \in Defs |-> InitialShape(defs[i])]
    /\ at = 1
    /\ changed = FALSE
    /\ passes = 1
    /\ emitted = [i \in {} |-> [result |-> FALSE, asks |-> FALSE]]
    /\ phase = "fixpoint"

(* The fixpoint: one visit of the inner loop. *)
Promote ==
    /\ phase = "fixpoint" /\ at \in Defs
    /\ shapes[at] = "Value" /\ IsFallible(at)
    /\ shapes' = [shapes EXCEPT ![at] = "Fallible"]
    /\ changed' = TRUE
    /\ at' = at + 1
    /\ UNCHANGED <<defs, passes, emitted, phase>>

Keep ==
    /\ phase = "fixpoint" /\ at \in Defs
    /\ shapes[at] # "Value" \/ ~IsFallible(at)
    /\ at' = at + 1
    /\ UNCHANGED <<defs, shapes, changed, passes, emitted, phase>>

\* Defect: `changed` is declared outside the loop and never reset.
NextPassStaysChanged ==
    /\ phase = "fixpoint" /\ at = N + 1 /\ changed
    /\ at' = 1
    /\ UNCHANGED <<defs, shapes, changed, passes, emitted, phase>>

\* The end of a pass that promoted something: go round again.
NextPass ==
    /\ phase = "fixpoint" /\ at = N + 1 /\ changed
    /\ at' = 1
    /\ changed' = FALSE
    /\ passes' = passes + 1
    /\ UNCHANGED <<defs, shapes, emitted, phase>>

\* Defect: one pass is taken for the fixpoint.
ReturnAfterOnePass ==
    /\ phase = "fixpoint" /\ at = N + 1
    /\ phase' = "render"
    /\ at' = 1
    /\ UNCHANGED <<defs, shapes, changed, passes, emitted>>

\* The end of a pass that promoted nothing: the shapes are final.
Return ==
    /\ phase = "fixpoint" /\ at = N + 1 /\ ~changed
    /\ phase' = "render"
    /\ at' = 1
    /\ UNCHANGED <<defs, shapes, changed, passes, emitted>>

(* Emission, definition by definition, with the final shapes. *)

\* Defect: a computed constant list is not refused.
RefusedUnlessComputed(i) ==
    CASE shapes[i] = "StaticList" -> defs[i].builds # {}
      [] shapes[i] = "Buffer"     -> \/ \E c \in defs[i].uses : shapes[c] = "Buffer"
                                     \/ \E c \in defs[i].builds : shapes[c] # "Buffer"
      [] OTHER                    -> \E c \in defs[i].uses : shapes[c] = "Buffer"

\* The list renderings that have no allocation-free form.
Refused(i) ==
    CASE shapes[i] = "StaticList" -> IsFallible(i) \/ defs[i].builds # {}
      [] shapes[i] = "Buffer"     -> \/ \E c \in defs[i].uses : shapes[c] = "Buffer"
                                     \/ \E c \in defs[i].builds : shapes[c] # "Buffer"
      [] OTHER                    -> \E c \in defs[i].uses : shapes[c] = "Buffer"

\* The signature is a Result; the body of the emitted function has a `?`.
Signature(i) == shapes[i] \in {"Fallible", "Buffer"}
Asks(i) == defs[i].checked \/ \E c \in defs[i].uses : shapes[c] = "Fallible"

Render ==
    /\ phase = "render" /\ at \in Defs
    /\ ~Refused(at)
    /\ emitted' = [i \in DOMAIN emitted \cup {at} |->
                      IF i = at THEN [result |-> Signature(i), asks |-> Asks(i)]
                                ELSE emitted[i]]
    /\ at' = at + 1
    /\ UNCHANGED <<defs, shapes, changed, passes, phase>>

\* An Err leaves generate_module at once, with no output at all.
Refuse ==
    /\ phase = "render" /\ at \in Defs
    /\ Refused(at)
    /\ phase' = "UnsupportedList"
    /\ UNCHANGED <<defs, shapes, at, changed, passes, emitted>>

Finish ==
    /\ phase = "render" /\ at = N + 1
    /\ phase' = "emitted"
    /\ UNCHANGED <<defs, shapes, at, changed, passes, emitted>>

Next == Promote \/ Keep \/ NextPass \/ Return \/ Render \/ Refuse \/ Finish

Spec == Init /\ [][Next]_vars

-----------------------------------------------------------------------------
(* What the signatures should be, without the algorithm. *)

ValueDefs == {i \in Defs : ~defs[i].list}
Buffers == {i \in Defs : defs[i].list /\ ~defs[i].nullary}
FallibleDefs == {i \in Defs : shapes[i] = "Fallible"}

\* S holds every value definition that performs a checked operation or calls
\* a member of S or of seeds.
ClosedOver(S, seeds) ==
    \A i \in ValueDefs :
        defs[i].checked \/ (\E c \in Calls(i) : c \in S \cup seeds) => i \in S

\* The least such set.
Least(seeds) ==
    {i \in ValueDefs : \A S \in SUBSET ValueDefs : ClosedOver(S, seeds) => i \in S}

-----------------------------------------------------------------------------
TypeOK ==
    /\ defs \in [Defs -> Bodies]
    /\ shapes \in [Defs -> Shape]
    /\ at \in 1..(N + 1)
    /\ changed \in BOOLEAN
    /\ passes \in Nat
    /\ DOMAIN emitted \subseteq Defs
    /\ \A i \in DOMAIN emitted : emitted[i] \in [result: BOOLEAN, asks: BOOLEAN]
    /\ phase \in {"fixpoint", "render", "emitted", "UnsupportedList"}

\* The loop never promotes a definition that is not in the least fixpoint, and
\* when it returns it has promoted all of it, whatever the order of the
\* definitions and however long the call chains and cycles are.
LeastFixpoint ==
    /\ FallibleDefs \subseteq Least(Buffers)
    /\ phase # "fixpoint" => FallibleDefs = Least(Buffers)

\* Every `?` in an emitted function stands in a function whose return type is
\* a Result: otherwise the generated module does not compile.
QuestionMarksTyped ==
    \A i \in DOMAIN emitted : emitted[i].asks => emitted[i].result

\* In a module that is emitted, a definition of a value type returns a Result
\* only if a chain of calls leads from it to a checked Nat operation: filling a
\* buffer is never its reason, because every such caller is refused.
ResultOnlyIfItCanFail ==
    phase = "emitted" =>
        \A i \in ValueDefs : emitted[i].result => i \in Least({})

\* Each pass but the last promotes a definition, so the loop makes at most one
\* pass more than the definitions it promotes.
PassesBounded == passes <= Cardinality(FallibleDefs) + 1

\* A shape moves only from Value to Fallible, and never after rendering began:
\* no call site is rendered against a shape that changes later.
ShapesOnlyPromoted ==
    [][\A i \in Defs : shapes'[i] # shapes[i] =>
          shapes[i] = "Value" /\ shapes'[i] = "Fallible" /\ phase = "fixpoint"]_vars

=============================================================================
