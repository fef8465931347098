------------------------ MODULE GenerateDefinition ------------------------
(***************************************************************************)
(* The lowering of one definition (rust/prod-codegen/src/lib.rs:           *)
(* generate_def_in): join points are expanded first, and an error there    *)
(* ends the generation; then the tail calls of the expanded body are       *)
(* planned, if the definition can have a loop at all, and rendered.        *)
(*                                                                         *)
(* Composes TailCalls, which has the variables of planning and of a run of *)
(* the loop, with JoinExpansion.                                           *)
(***************************************************************************)
EXTENDS TailCalls

CONSTANTS
    Definitions,    \* the definitions to lower: [body, calls, borrowed, loopable]
    Names,          \* see JoinExpansion
    MAX_NODES,
    MAX_DEPTH

\* The renderer's unit, which stands for a join point, has a name as well.
ASSUME NamesAssumption == "Prod.mk" \in Names

ASSUME LimitsAssumption == MAX_NODES \in Nat \ {0} /\ MAX_DEPTH \in Nat

VARIABLES
    source, body, compacted,    \* see JoinExpansion
    expansion,                  \* its phase
    loopable                    \* the shape is Value or Fallible, the result no reference

joinVars == <<source, body, compacted, expansion>>
definitionVars == <<vars, joinVars, loopable>>

Joins == INSTANCE JoinExpansion WITH phase <- expansion

\* What the parser accepts is no deeper than its MAX_EXPRESSION_DEPTH.
ASSUME DefinitionsAssumption == \A d \in Definitions : d.body \in Joins!Expressions

DefinitionInit ==
    /\ \E d \in Definitions :
          /\ Joins!Init(d.body)
          /\ loopable = d.loopable
          /\ calls = d.calls /\ borrowed = d.borrowed
    /\ Init

\* joins::expand(..)?
ExpandJoins ==
    /\ Joins!Next
    /\ UNCHANGED <<vars, loopable>>

Expanded == expansion \in {"None", "Some"}

\* A list builder, or a function that returns a reference into its argument, is
\* never given a plan.
PlanNothing ==
    /\ Expanded /\ ~loopable /\ phase = "planning"
    /\ phase' = "recursive"
    /\ UNCHANGED <<definition, at, changed, run, joinVars, loopable>>

PlanAndRun ==
    /\ Expanded /\ loopable
    /\ Next
    /\ UNCHANGED <<joinVars, loopable>>

DefinitionNext == ExpandJoins \/ PlanNothing \/ PlanAndRun

DefinitionSpec == DefinitionInit /\ [][DefinitionNext]_definitionVars

-----------------------------------------------------------------------------
\* A definition is refused only for a jump that goes nowhere or has the wrong
\* number of arguments, for a cycle, or for an expansion that really is too
\* large or too deep; and what is admitted is within the limits once expanded.
JoinAdmissionIsExact == Joins!AdmissionIsExact
=============================================================================
