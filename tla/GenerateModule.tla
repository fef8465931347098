-------------------------- MODULE GenerateModule --------------------------
(***************************************************************************)
(* generate_module (rust/prod-codegen/src/lib.rs): the shapes of all       *)
(* definitions are computed first, then the type declarations are rendered *)
(* in order, then the definitions.  Each of the loops leaves by `?` at its *)
(* first error, and then there is no output.                               *)
(*                                                                         *)
(* Composes Signatures, which has the variables of the two loops over the  *)
(* definitions, with TypeDecls.                                            *)
(***************************************************************************)
EXTENDS Signatures, Sequences

CONSTANTS
    T,          \* number of type declarations
    Modules     \* the modules to generate: [defs, types]

VARIABLES types, typeAt, copies, verdict

typeVars == <<types, typeAt, copies, verdict>>
moduleVars == <<vars, typeVars>>

Declared == INSTANCE TypeDecls WITH N <- T, at <- typeAt

ASSUME ModulesAssumption ==
    /\ T \in Nat
    /\ \A m \in Modules :
          /\ m.defs \in [Defs -> Bodies]
          /\ m.types \in [1..T -> Seq(Declared!FieldType)]

ModuleInit ==
    /\ \E m \in Modules : defs = m.defs /\ Declared!Init(m.types)
    /\ Init

\* let shapes = signatures(..)
ComputeShapes ==
    /\ Promote \/ Keep \/ NextPass \/ Return
    /\ UNCHANGED typeVars

\* for decl in &module.types
RenderTypes ==
    /\ phase = "render"
    /\ Declared!Next
    /\ UNCHANGED vars

\* for def in &module.definitions
RenderDefinitions ==
    /\ verdict = "emitted"
    /\ Render \/ Refuse \/ Finish
    /\ UNCHANGED typeVars

ModuleNext == ComputeShapes \/ RenderTypes \/ RenderDefinitions

\* Sequential code: a step that can be taken is taken.
ModuleSpec == ModuleInit /\ [][ModuleNext]_moduleVars /\ WF_moduleVars(ModuleNext)

-----------------------------------------------------------------------------
\* A type is refused as recursive only if it does reach itself: no declaration is
\* lost to the shortcut in check_field_type.  And it derives Copy exactly when
\* what it holds does, although each derive is decided on its own.
TypeVerdictsAreTrue == Declared!VerdictsAreTrue

\* "One level of indirection is enough to catch the mutual case too": a module
\* that is emitted has no type of infinite size.
NoInfiniteType == phase = "emitted" => Declared!FiniteTypes

\* Generation ends with an output or an error, also on recursive and mutually
\* recursive definitions and types.
GenerationEnds ==
    <>(phase \in {"emitted", "UnsupportedList"} \/ verdict \notin {"none", "emitted"})
=============================================================================
