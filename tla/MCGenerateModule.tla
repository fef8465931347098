------------------------- MODULE MCGenerateModule -------------------------
(***************************************************************************)
(* The loops over definitions and over types share no data, so every       *)
(* module of three definitions is generated with one type table, and every *)
(* table of three types with one list of definitions.                      *)
(*                                                                         *)
(* Types have any one field each, or two fields that refer to other types, *)
(* so that cycles of length one, two and three occur.                      *)
(***************************************************************************)
EXTENDS GenerateModule

\* At most one call in a list-typed body, any calls in a value-typed one.
MCBodies ==
    {d \in Definition :
        /\ WellFormed(d)
        /\ d.list => Cardinality(d.uses) + Cardinality(d.builds) <= 1
        /\ d.nullary => d.list}

Reference == {f \in Declared!Named : f.to # 0 /\ f.in \in {"bare", "inline"}}

Declarations == {<< >>} \cup {<<f>> : f \in Declared!FieldType} \cup {p \in Reference \X Reference : p[1].to <= p[2].to}

Plain == [list |-> FALSE, nullary |-> FALSE, checked |-> FALSE, uses |-> {}, builds |-> {}]

MCModules ==
    [defs: [Defs -> MCBodies], types: {[n \in 1..T |-> << >>]}]
      \cup [defs: {[i \in Defs |-> Plain]}, types: [1..T -> Declarations]]
=============================================================================
