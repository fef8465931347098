----------------------------- MODULE MCFrontEnd -----------------------------
(***************************************************************************)
(* Renaming: every choice of three names for a formal and two binders, in  *)
(* nine shapes of body: a chain, a let inside a value, a match, a          *)
(* positional parameter under a shadowing binder, join points, buffers.    *)
(* Parsing: those texts, chains and nests of each kind across the budgets, *)
(* and the text of a module with a lexeme dropped, put in or replaced by   *)
(* another.                                                                *)
(***************************************************************************)
EXTENDS FrontEnd

MCU64 == ("0" :> 0) @@ ("1" :> 1) @@ ("18446744073709551615" :> 2)
MCI64 == {"1", "9223372036854775808"}
MCU8 == {"0", "1"}
MCKeywords == {"self", "match"}
MCNotIdentifiers == {"has-dash", "a.b"}
MCNfc == "Kelvin" :> "K"
MCDeclared == {"Declared"}
MCQualified == {"List.cons", "Rec.mk"}
MCHelpers == "g" :> "__prod_borrowed_g"
MCPieces ==
    ("truex" :> <<"true", "x">>) @@ ("1st" :> <<"1", "st">>)
      @@ ("18446744073709551616" :> <<"18446744073709551616">>)

Nat_ == Type("Nat", << >>)
List_ == Type("List", <<Nat_>>)
Field(name, type) == [name |-> name, type |-> type]
Definition(name, formals, ret, body) ==
    [name |-> name, params |-> [i \in DOMAIN formals |-> Field(formals[i], Nat_)],
     ret |-> ret, body |-> body]
Module(types, definitions) == [name |-> "M", types |-> types, definitions |-> definitions]
One(definition) == Module(<< >>, <<definition>>)
Of(module) == [module |-> module, tracked |-> {}]

Names == {"x", "K", "Kelvin", "self", "__prod_self", "has-dash", "prod_local_0", "__value", "f"}
BufferNames == {"x", "output", "__head0", "__rest", "prod_local_0"}

Use(names) == Call("f", [i \in DOMAIN names |-> Var(names[i])])
Zero == Lit("Nat", "0")

Shapes(a, b, c) ==
    {Let(b, Var(a), Let(c, Zero, Use(<<a, b, c>>))),
     Let(b, Let(c, Var(a), Node("append", "", <<Var(c), Param(0)>>)), Use(<<b>>)),
     Match(Var(a), <<Alt("Declared", <<b, c>>), Alt("Plain", <<b>>)>>,
           <<Use(<<a, b, c>>), Ctor("List.cons", <<Var(b), Param(0)>>), Ctor("Plain", <<Var(a)>>)>>),
     Let(b, Let(b, Zero, Var(b)), Node("slice", "", <<Param(0), Var(b), Call(c, << >>)>>)),
     Let(b, Jp(b, <<c>>, Use(<<a, c>>)), If(Var(a), Jmp(b, <<Zero>>), Var(b))),
     Let(c, Jp(b, <<c, "x">>, Let(b, Var(c), Use(<<"x", b>>))), Jmp(b, <<Param(0), Param(1)>>))}

MCTracked == {[module |-> One(Definition("f", <<a>>, Nat_, Let(b, Zero, Let(c, Var(b), Use(<<a, b, c>>))))),
               tracked |-> {b}] : a, b, c \in Names}

-----------------------------------------------------------------------------
(* Depth. *)

RECURSIVE Nest(_, _)
Nest(kinds, n) ==
    LET kind == kinds[(n % Len(kinds)) + 1]
        inner == Nest(kinds, n - 1)
    IN  CASE n = 0 -> Zero
          [] n > 0 /\ kind = "body" -> Let("x", Zero, inner)
          [] n > 0 /\ kind = "value" -> Let("x", inner, Zero)
          [] n > 0 /\ kind = "add" -> Node("add", "", <<Zero, inner>>)
          [] n > 0 /\ kind = "alt" -> Match(Zero, <<Alt("Declared", << >>)>>, <<inner, Zero>>)
          [] n > 0 /\ kind = "call" -> Call("f", <<Lit("Bool", "true"), inner, Lit("Int", "1")>>)
          [] n > 0 /\ kind = "decimal" -> Node("parse-decimal-as", "Int8", <<inner>>)

Kinds == {"body", "value", "add", "alt", "call", "decimal"}
Deep == {Nest(kinds, n) : kinds \in Kinds \X Kinds, n \in 1..(MAX_EXPRESSION_DEPTH + 1)}

RECURSIVE NestedType(_, _)
NestedType(constructor, n) ==
    IF n = 0 THEN Type("Int8", << >>)
    ELSE Type(constructor, IF constructor = "Result" THEN <<NestedType("Option", n - 1), Nat_>>
                           ELSE <<NestedType(constructor, n - 1)>>)
Types_ == {NestedType(c, n) : c \in {"Option", "Result", "Tuple"}, n \in 0..(MAX_TYPE_DEPTH + 1)}
            \cup {Type("Tuple", << >>), Type("Vec", <<Named("Rec")>>), Opaque("Io"), NestedType("Vec", 1)}

Rec(type) ==
    [name |-> "Rec", unsupported |-> << >>,
     ctors |-> <<[name |-> "Rec.mk", fields |-> <<Field("first", type), Field("second", Nat_)>>]>>]
\* A backslash and an n, or a line feed: a reason is written as it is.
MCUnescaped == ("why\\nnot" :> "why\nnot")
Unsupported == [name |-> "Io", unsupported |-> <<"why\\nnot">>, ctors |-> << >>]

-----------------------------------------------------------------------------

Leaves == {Lit("String", "any text"), Lit("String", "why\nnot"),
           [Lit("Bytes", "") EXCEPT !.names = <<"0", "1">>],
           Lit("Nat", "18446744073709551615"), Lit("Int", "9223372036854775808"),
           Proj("Rec", "first", Var("x")), Node("unreachable", "", << >>),
           Node("opaque", "Io", << >>), Node("extern", "Io.read", <<Zero>>)}

\* Names that begin like a literal, as arguments and as binders.
LikeLiterals == {"x", "truex", "1st"}

MCExported ==
    UNION {{Of(One(Definition("f", <<a>>, Nat_, body))) :
              body \in {Use(<<a, b>>), Let(b, Var(a), Use(<<b>>))}} : a, b \in LikeLiterals}
      \cup UNION {{Of(One(Definition("f", <<a>>, Nat_, body))) : body \in Shapes(a, b, c)} :
             a, b, c \in Names}
      \cup UNION {{Of(One(Definition("g", <<a, "x">>, List_, body))) : body \in Shapes(a, b, c)} :
             a, b, c \in BufferNames}
      \cup MCTracked
      \cup {Of(One(Definition("f", << >>, Nat_, body))) : body \in Deep \cup Leaves}
      \cup {Of(Module(<<Unsupported, Rec(type)>>,
                      <<Definition("f", << >>, type, Zero), Definition("g", <<"x">>, Nat_, Var("x"))>>)) :
              type \in Types_}

Samples ==
    {WriteModule(Module(<<Unsupported, Rec(Named("Io"))>>,
        <<Definition("f", <<"x">>, Nat_,
            Let("y", Node("length", "", <<Var("x")>>),
                Match(Var("y"), <<Alt("Declared", <<"z">>)>>, <<Use(<<"x", "z">>), Zero>>))),
          Definition("g", << >>, NestedType("Option", 2),
            Let("j", Jp("j", <<"z">>, Proj("Rec", "first", Var("z"))), Jmp("j", <<Param(0)>>)))>>))}

Lexemes == {Open, Close, Word("x"), MCPieces["truex"], Word("let"), Word("alt"), Word("default"), Word("def"),
            Word("Nat"), Quoted("Rec"), Text("why\\nnot"), Word("0")}

MCDamaged ==
    UNION {{RemoveAt(s, i) : i \in DOMAIN s} : s \in Samples}
      \cup UNION {{InsertAt(s, i, l) : i \in DOMAIN s, l \in Lexemes} : s \in Samples}
      \cup UNION {{[s EXCEPT ![i] = l] : i \in DOMAIN s, l \in Lexemes} : s \in Samples}
      \cup {<< >>, <<Open>>}
=============================================================================
