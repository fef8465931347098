--------------------------- MODULE MCGeneratedCode ---------------------------
(***************************************************************************)
(* The guest: scaled down by 2^13, with pages of 8 bytes, alignments of 2  *)
(* and 4, at most three pages, a heap base that is not aligned, and a host *)
(* that passes negative, made-up and too large arguments too.              *)
(*                                                                         *)
(* Nat: four-bit values with three-bit exponents, so that a value can be   *)
(* shifted by less than the width, by the width or more, and by an amount  *)
(* that does not narrow, as with 64 and 32.                                *)
(*                                                                         *)
(* Lists: chains of up to four conses with any heads failing, ending in a  *)
(* copy of up to three elements, into buffers shorter than, as long as and *)
(* longer than the list.                                                   *)
(*                                                                         *)
(* Locals: every well-typed body of two lets and an end, a let and a       *)
(* branch or a match, or a match with a let in an arm, over strings,       *)
(* bytes, options, lists and a record of two strings and a Nat; the        *)
(* parameters borrowed and owned; and the same behind an owned record or   *)
(* option that the body makes first.  A match is no value of a let, as in  *)
(* LCNF.  And loops that rebuild or hand on a list and a string: a branch   *)
(* or a match one way out of which ends or returns the list and the other  *)
(* calls again, with a let before the branch and one before the call.      *)
(***************************************************************************)
EXTENDS GeneratedCode, Ir

Nat_ == Type("Nat", << >>)
Bool_ == Type("Bool", << >>)
String_ == Type("String", << >>)
Bytes_ == Type("Bytes", << >>)
List_ == Type("List", <<String_>>)
Option_ == Type("Option", <<String_>>)
Result_ == Type("Result", <<String_, Nat_>>)
Rec_ == Named("Rec")
Acc_ == Named("Acc")

Param_(name, type) == [name |-> name, type |-> type]
Def(name, params, ret, body) == [name |-> name, params |-> params, ret |-> ret, body |-> body]
Zero == Lit("Nat", "0")
Text == Lit("String", "k")
Unary_(op, x) == Node(op, "", <<Var(x)>>)
Binary_(op, x, y) == Node(op, "", <<Var(x), Var(y)>>)

MCTable ==
    ("Rec" :> <<[name |-> "Rec.mk",
                 fields |-> <<Param_("a", String_), Param_("b", String_), Param_("c", Nat_)>>]>>)
      @@ ("Acc" :> <<[name |-> "Acc.mk", fields |-> <<Param_("items", List_), Param_("count", Nat_)>>]>>)

Cell(s, l) == Ctor("List.cons", <<s, l>>)
Gather ==
    If(Lit("Bool", "true"), Ctor("Acc.mk", <<Var("acc"), Var("n")>>),
       Let("x", Cell(Text, Var("acc")), Call("gather", <<Var("x"), Var("n")>>)))

\* The parameters of a loop; what its name stands for elsewhere is not asked.
Loop == <<Param_("l", List_), Param_("s", String_), Param_("n", Nat_)>>
Loops == [again |-> Acc_, count |-> Nat_]

Definitions ==
    {Def("get", <<Param_("r", Rec_)>>, String_, Let("y", Proj("Rec", "a", Var("r")), Var("y"))),
     Def("mk", << >>, Rec_, Ctor("Rec.mk", <<Text, Text, Zero>>)),
     Def("find", <<Param_("s", String_)>>, Option_, Ctor("Option.some", <<Var("s")>>)),
     Def("check", <<Param_("s", String_)>>, Result_, Ctor("Except.ok", <<Var("s")>>)),
     Def("size", <<Param_("s", String_)>>, Nat_, Node("length", "", <<Var("s")>>)),
     Def("words", << >>, List_, Ctor("List.nil", << >>)),
     Def("gather", <<Param_("acc", List_), Param_("n", Nat_)>>, Acc_, Gather)}
      \cup {Def(name, Loop, Loops[name], Zero) : name \in DOMAIN Loops}

MCCallees == [name \in {d.name : d \in Definitions} |-> CHOOSE d \in Definitions : d.name = name]

MCHostInts == {-1, 0, 3, 4, 9, 11}
MCSizes == {0, 3, 9}

-----------------------------------------------------------------------------
(* Well-typed expressions: pairs <<expression, type>>. *)

In(env, type) == {x \in DOMAIN env : env[x] = type}

Values(env) ==
    {<<Var(x), env[x]>> : x \in DOMAIN env}
      \cup {<<Text, String_>>, <<Call("mk", << >>), Rec_>>, <<Call("words", << >>), List_>>}
      \cup UNION {{<<Unary_("length", s), Nat_>>, <<Unary_("utf8-encode", s), Bytes_>>,
                   <<Call("find", <<Var(s)>>), Option_>>, <<Call("size", <<Var(s)>>), Nat_>>,
                   <<Call("check", <<Var(s)>>), Result_>>,
                   <<Node("parse-decimal-as", "Int8", <<Var(s)>>), Type("Option", <<Type("Int8", << >>)>>)>>} :
                    s \in In(env, String_)}
      \cup UNION {{<<Binary_("eq", s, t), Bool_>>,
                   <<Ctor("Rec.mk", <<Var(s), Var(t), Zero>>), Rec_>>,
                   <<Ctor("Prod.mk", <<Var(s), Var(t)>>), Type("Tuple", <<String_, String_>>)>>} :
                    s, t \in In(env, String_)}
      \cup {<<Node("quotient", "", <<Var(n), Var(n), Zero>>), Nat_>> : n \in In(env, Nat_)}
      \cup UNION {{<<Proj("Rec", "a", Var(r)), String_>>, <<Proj("Rec", "b", Var(r)), String_>>,
                   <<Proj("Rec", "c", Var(r)), Nat_>>, <<Call("get", <<Var(r)>>), String_>>} :
                    r \in In(env, Rec_)}
      \cup {<<Node("index", "", <<Var(l), Zero>>), Option_>> : l \in In(env, List_)}
      \cup {<<Call("gather", <<Var(l), Zero>>), Acc_>> : l \in In(env, List_)}
      \cup {<<Cell(Var(s), Var(l)), List_>> : s \in In(env, String_), l \in In(env, List_)}
      \cup {<<Binary_("append", l, m), env[l]>> : l, m \in In(env, List_)}
      \cup UNION {{<<Binary_("append", b, c), Bytes_>>,
                   <<Binary_("compare-bytes", b, c), Type("Ordering", << >>)>>} : b, c \in In(env, Bytes_)}
      \cup {<<Unary_("utf8-decode", b), Option_>> : b \in In(env, Bytes_)}
      \cup {<<Unary_("length", b), Nat_>> : b \in In(env, Bytes_) \cup In(env, List_)}

LeafEnds(env) ==
    {<<Var(x), env[x]>> : x \in DOMAIN env}
      \cup {<<Ctor("Rec.mk", <<Var(s), Var(t), Zero>>), Rec_>> : s, t \in In(env, String_)}
      \cup UNION {{<<Ctor("Option.some", <<Var(s)>>), Option_>>, <<Call("find", <<Var(s)>>), Option_>>} :
                    s \in In(env, String_)}
      \cup {<<Ctor("Acc.mk", <<Var(l), Zero>>), Acc_>> : l \in In(env, List_)}

SameType(as, bs) == {z \in as \X bs : z[1][2] = z[2][2]}

IfEnds(env) ==
    {<<If(Lit("Bool", "true"), z[1][1], z[2][1]), z[1][2]>> : z \in SameType(LeafEnds(env), LeafEnds(env))}

LetOf(name, values, env, Rest(_)) ==
    UNION {{<<Let(name, v[1], r[1]), r[2]>> : r \in Rest((name :> v[2]) @@ env)} : v \in values}

Matches(env, Arm(_)) ==
    UNION {{<<Match(Var(r), <<Alt("Rec.mk", <<"p", "q", "m">>)>>, <<z[1]>>), z[2]>> :
              z \in Arm(("p" :> String_) @@ ("q" :> String_) @@ ("m" :> Nat_) @@ env)} : r \in In(env, Rec_)}
      \cup UNION {{<<Match(Var(o), <<Alt("Option.none", << >>), Alt("Option.some", <<"p">>)>>,
                           <<z[1][1], z[2][1]>>), z[1][2]>> :
              z \in SameType(LeafEnds(env), Arm(("p" :> String_) @@ env))} : o \in In(env, Option_)}
      \cup UNION {{<<Match(Var(e), <<Alt("Except.error", <<"q">>), Alt("Except.ok", <<"p">>)>>,
                           <<z[1][1], z[2][1]>>), z[1][2]>> :
              z \in SameType(LeafEnds(("q" :> Nat_) @@ env), Arm(("p" :> String_) @@ env))} : e \in In(env, Result_)}
      \cup UNION {{<<Match(Var(n), <<Alt("Nat.zero", << >>), Alt("Nat.succ", <<"q">>)>>,
                           <<z[1][1], z[2][1]>>), z[1][2]>> :
              z \in SameType(LeafEnds(env), Arm(("q" :> Nat_) @@ env))} : n \in In(env, Nat_)}
      \cup UNION {{<<Match(Var(l), <<Alt("List.nil", << >>), Alt("List.cons", <<"p", "q">>)>>,
                           <<z[1][1], z[2][1]>>), z[1][2]>> :
              z \in SameType(LeafEnds(env), Arm(("p" :> String_) @@ ("q" :> List_) @@ env))} : l \in In(env, List_)}

Bodies(env) ==
    LET ThenEnd(e) == LetOf("y", Values(e), e, LeafEnds)
        Branching(e) == IfEnds(e) \cup Matches(e, LeafEnds)
    IN  LeafEnds(env) \cup LetOf("x", Values(env) \cup IfEnds(env), env, ThenEnd)
          \cup LetOf("x", Values(env), env, Branching) \cup Matches(env, ThenEnd)

Environment(params) ==
    [n \in {p.name : p \in ToSet(params)} |-> (CHOOSE p \in ToSet(params) : p.name = n).type]

Params_ ==
    {<<Param_("s", String_), Param_("n", Nat_)>>, <<Param_("r", Rec_)>>, <<Param_("o", Option_)>>,
     <<Param_("l", List_), Param_("s", String_)>>, <<Param_("e", Result_)>>}
First == {<<Call("mk", << >>), Rec_>>, <<Call("find", <<Text>>), Option_>>}

\* A list result is built by another mode of the renderer (see ListBuilder).
Plain ==
    UNION {{Def("f", params, b[2], b[1]) : b \in Bodies(Environment(params))} : params \in Params_}
      \cup UNION {{Def("f", << >>, b[2], Let("w", f[1], b[1])) : b \in Bodies("w" :> f[2])} : f \in First}

-----------------------------------------------------------------------------
(* Loops. *)

Lists_(env) ==
    {<<Var(l), List_>> : l \in In(env, List_)}
      \cup {<<Binary_("append", l, m), List_>> : l, m \in In(env, List_)}
      \cup {<<Cell(Var(s), Var(l)), List_>> : s \in In(env, String_), l \in In(env, List_)}

Exits(env) ==
    {<<Ctor("Acc.mk", <<Var(l), Var("n")>>), Acc_>> : l \in In(env, List_)}
      \cup {<<Call("gather", <<Var(l), Var("n")>>), Acc_>> : l \in In(env, List_)}
      \cup {<<Unary_("length", x), Nat_>> : x \in In(env, List_)} \cup {<<Var("n"), Nat_>>}

Repeats(env) ==
    {<<Call(name, <<l[1], Var(s), Var("n")>>), Loops[name]>> :
        name \in DOMAIN Loops, l \in Lists_(env), s \in In(env, String_)}

Turns(env) ==
    LET Again(e) == Repeats(e) \cup LetOf("y", Lists_(e), e, Repeats)
        Arms(e) == SameType(Exits(env), Again(e))
    IN  {<<If(Lit("Bool", "true"), z[1][1], z[2][1]), z[1][2]>> : z \in Arms(env)}
          \cup {<<Match(Var("l"), <<Alt("List.nil", << >>), Alt("List.cons", <<"p", "q">>)>>, <<z[1][1], z[2][1]>>),
                  z[1][2]>> : z \in SameType(Exits(env), Repeats(("p" :> String_) @@ ("q" :> List_) @@ env))}

Looping ==
    LET env == Environment(Loop)
        firsts == {<<Text, String_>>, <<Var("s"), String_>>, <<Cell(Var("s"), Var("l")), List_>>, <<Var("l"), List_>>}
        bodies == Turns(env) \cup LetOf("x", firsts, env, Turns)
    IN  UNION {{Def(name, Loop, b[2], b[1]) : b \in {c \in bodies : c[2] = Loops[name]}} : name \in DOMAIN Loops}

\* Left out: a match on a list that the body has just built. The analysis does
\* not know such a list's type, so a head that its arm uses twice is moved twice.
MatchesOwnCell(body) ==
    body.op = "let" /\ body.args[1].name = "List.cons" /\ Body(body).op = "cases"
      /\ IsVar(Body(body).args[1], body.name)

MCSources == {d \in Plain : d.ret # List_ /\ ~MatchesOwnCell(d.body)} \cup Looping
\* And those: a list is built, then a match takes its head.
MCOwnCells ==
    LET params == <<Param_("l", List_), Param_("s", String_)>>
        cell == {<<Cell(Var("s"), Var("l")), List_>>}
        Bodies_ == LetOf("x", cell, Environment(params), LAMBDA env : Matches(env, LeafEnds))
    IN  {Def("f", params, b[2], b[1]) : b \in {c \in Bodies_ : c[2] # List_}}
=============================================================================
