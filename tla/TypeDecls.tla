----------------------------- MODULE TypeDecls -----------------------------
(***************************************************************************)
(* The type declarations of a generated module: which are refused, and     *)
(* which derive Copy (rust/prod-codegen/src/lib.rs: generate_module,       *)
(* generate_type_decl, check_field_type, copy_type).                       *)
(*                                                                         *)
(* A declaration is the sequence of its constructors' field types: nothing *)
(* here depends on which constructor a field belongs to.  A field type is  *)
(* a scalar, a String (owned storage), a Vec, or a named type, bare or     *)
(* inside a List (stored on the heap) or an Option, tuple or Result, which *)
(* hold their contents inline.                                             *)
(***************************************************************************)
EXTENDS Naturals, Sequences, SequencesExt

CONSTANT N       \* number of declarations; their distinct names are 1..N

Names == 1..N
Unknown == 0     \* a name that is not in the type table

Plain == [kind: {"scalar", "string", "vec"}, in: {"bare", "inline", "list"}, to: {Unknown}]
Named == [kind: {"named"}, in: {"bare", "inline", "list"}, to: Names \cup {Unknown}]
FieldType == Plain \cup Named

VARIABLES
    types,     \* the type table: the fields of every declaration
    at,        \* the declaration generate_module renders next
    copies,    \* for each declaration rendered, whether it derives Copy
    verdict    \* "none", "emitted", or the Err that ended generate_module

vars == <<types, at, copies, verdict>>

\* A field of `other` that is the bare name of the owner.
RefersBack(other, owner) ==
    \E f \in Range(types[other]) : f.kind = "named" /\ f.in = "bare" /\ f.to = owner

\* check_field_type: List, Option, tuple and Result are looked through.
check_field_type(f, owner) ==
    CASE f.kind = "vec" -> "UnsupportedFieldType"
      [] f.kind = "named" ->
            IF f.to = owner THEN "RecursiveType"
            ELSE IF f.to = Unknown THEN "OpaqueType"
            ELSE IF RefersBack(f.to, owner) THEN "RecursiveType"
            ELSE "Ok"
      [] OTHER -> "Ok"

\* copy_type of a field, with the names on the path from the type it is asked for.
copy_type[visiting \in SUBSET Names] ==
    [f \in FieldType |->
        /\ f.kind \notin {"string", "vec"} /\ f.in # "list"
        /\ f.kind = "named" =>
              /\ f.to \notin visiting
              /\ f.to # Unknown
              /\ \A g \in Range(types[f.to]) : copy_type[visiting \cup {f.to}][g]]

\* Defect: the visited names are shared by the fields and never removed.
IsCopyShared(n) ==
    \A k \in DOMAIN types[n] :
        copy_type[{types[n][j].to : j \in 1..(k - 1)} \cap Names][types[n][k]]

IsCopy(n) == \A f \in Range(types[n]) : copy_type[{}][f]

-----------------------------------------------------------------------------
Init(declarations) ==
    /\ types = declarations
    /\ at = 1
    /\ copies = << >>
    /\ verdict = "none"

\* The fields are checked in order; the first that fails decides.
Checks(n) == [k \in DOMAIN types[n] |-> check_field_type(types[n][k], n)]
Failures(n) == {k \in DOMAIN types[n] : Checks(n)[k] # "Ok"}

Emit ==
    /\ verdict = "none" /\ at \in Names
    /\ Failures(at) = {}
    /\ copies' = Append(copies, IsCopy(at))
    /\ at' = at + 1
    /\ UNCHANGED <<types, verdict>>

Reject ==
    /\ verdict = "none" /\ at \in Names
    /\ \E k \in Failures(at) :
          /\ \A j \in Failures(at) : k <= j
          /\ verdict' = Checks(at)[k]
    /\ UNCHANGED <<types, at, copies>>

Finish ==
    /\ verdict = "none" /\ at = N + 1
    /\ verdict' = "emitted"
    /\ UNCHANGED <<types, at, copies>>

Next == Emit \/ Reject \/ Finish

-----------------------------------------------------------------------------
(* Reference definitions over the graph of declarations. *)

\* The types a declaration names, anywhere; and those it holds by value.
Mentions(n) == {f.to : f \in {g \in Range(types[n]) : g.kind = "named"}} \ {Unknown}
Holds(n) == {f.to : f \in {g \in Range(types[n]) : g.kind = "named" /\ g.in # "list"}} \ {Unknown}

\* The least set that contains the successors of n and is closed under Succ.
Reach(Succ(_), n) ==
    {m \in Names : \A S \in SUBSET Names :
        Succ(n) \subseteq S /\ (\A k \in S : Succ(k) \subseteq S) => m \in S}

\* The declaration owns storage, itself or in a type it holds by value.
Owning(n) == \E f \in Range(types[n]) : f.kind = "string" \/ f.in = "list"
ReachesOwner(n) == \E m \in {n} \cup Reach(Holds, n) : Owning(m)

-----------------------------------------------------------------------------
\* A type is refused as recursive only if it does reach itself: no
\* declaration is lost to the shortcut in check_field_type.
RefusalsAreReal == verdict = "RecursiveType" => at \in Reach(Mentions, at)

\* Each derive is decided on its own, with its own set of visited names, yet
\* the decisions agree: a type deriving Copy holds only types that derive it,
\* or the generated module would not compile; and Copy is withheld only from
\* types that own storage or hold themselves.
CopyAgrees ==
    verdict = "emitted" =>
        \A n \in Names :
            /\ copies[n] => \A m \in Holds(n) : copies[m]
            /\ ~copies[n] =>
                  \/ ReachesOwner(n)
                  \/ \E m \in {n} \cup Reach(Holds, n) : m \in Reach(Holds, m)

\* Nothing is decided twice, and what was decided is what the table says.
Decided ==
    /\ types \in [Names -> Seq(FieldType)]
    /\ at \in 1..(N + 1)
    /\ copies \in Seq(BOOLEAN) /\ Len(copies) = at - 1
    /\ \A n \in 1..(at - 1) : Failures(n) = {} /\ copies[n] = IsCopy(n)
    /\ verdict = "emitted" => at = N + 1
    /\ RefusalsAreReal

\* What is said of a declaration is true: that it is recursive, or that it derives
\* Copy.
VerdictsAreTrue == RefusalsAreReal /\ CopyAgrees

\* No declaration holds itself by value.
FiniteTypes == \A n \in Names : n \notin Reach(Holds, n)
=============================================================================
