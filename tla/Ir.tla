--------------------------------- MODULE Ir ---------------------------------
(***************************************************************************)
(* Expressions of the intermediate representation (rust/prod-ir/src/lib.rs) *)
(* A node carries its operator, a name or an index where the operator has  *)
(* one, and its subexpressions in source order: the scrutinee of a match,  *)
(* the bodies of its alternatives and then its default, the value of a let *)
(* and then its body.  `alts` are the patterns of a match; `names` the     *)
(* parameters of a join point, or the structure a projection belongs to.   *)
(* Of the operators one is here for each way the parser and the ownership  *)
(* analysis treat operators; the arithmetic of the others is NatArithmetic's. *)
(***************************************************************************)
EXTENDS Naturals, Sequences, SequencesExt, FiniteSets

Node(op, name, args) ==
    [op |-> op, name |-> name, index |-> 0, args |-> args, alts |-> << >>, names |-> << >>]

Type(name, of) == [type |-> name, owner |-> "", of |-> of]
Named(owner) == [type |-> "named", owner |-> owner, of |-> << >>]

Literals == {"Nat", "Int", "Bool", "String", "Bytes"}
Unary == {"length", "utf8-encode", "utf8-decode"}
Binary == {"add", "append", "index", "eq", "compare-bytes", "join"}
Ternary == {"if", "slice", "split-exact", "quotient"}

Lit(type, value) == Node(type, value, << >>)
Var(name) == Node("var", name, << >>)
Param(i) == [Node("param", "", << >>) EXCEPT !.index = i]
Let(name, value, body) == Node("let", name, <<value, body>>)
If(condition, yes, no) == Node("if", "", <<condition, yes, no>>)
Call(name, args) == Node("call", name, args)
Ctor(name, args) == Node("ctor", name, args)
Proj(owner, field, value) == [Node("proj", field, <<value>>) EXCEPT !.names = <<owner>>]
Alt(ctor, binders) == [ctor |-> ctor, binders |-> binders]
Match(scrutinee, alts, bodies) ==
    [Node("cases", "", <<scrutinee>> \o bodies) EXCEPT !.alts = alts]
Jp(name, params, body) == [Node("jp", name, <<body>>) EXCEPT !.names = params]
Jmp(name, args) == Node("jmp", name, args)

\* The direct subexpressions of a node, in source order.
Children(e) == e.args

\* What follows once r is known.
After(r, Next_(_)) == Next_(r)

Body(e) == e.args[2]
HasDefault(e) == Len(e.args) = Len(e.alts) + 2

RECURSIVE Nodes(_)
Nodes(e) == {e} \cup UNION {Nodes(c) : c \in ToSet(Children(e))}

IsVar(e, name) == e.op = "var" /\ e.name = name
=============================================================================
