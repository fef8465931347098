------------------------------ MODULE Rendering ------------------------------
(***************************************************************************)
(* What the renderer emits for the locals of a definition                  *)
(* (rust/prod-codegen/src/lib.rs: Renderer, generate_def_in), and what the *)
(* Rust compiler demands of it: a place is not used after it was moved, a  *)
(* reference not after its owner was, and what is handed on as owned is    *)
(* not a reference.                                                        *)
(*                                                                         *)
(* Of the emitted code a path is kept, one way through its branches: the   *)
(* places it moves, clones and reads, in order, up to its end or the back  *)
(* edge of a loop.  A place is a local, or a field of one; `from` are the  *)
(* places a reference borrows from.                                        *)
(***************************************************************************)
EXTENDS Ownership

CONSTANT Sources    \* the definitions to render

VARIABLES
    definition,
    todo,           \* what the path that was taken has left
    moved,          \* the places moved so far
    fault           \* "not rendered", "none", or what the compiler objects to

renderVars == <<definition, todo, moved, fault>>

-----------------------------------------------------------------------------
(* Emitted code: [events, kind, type, from, place].  The kind is "copy",    *)
(* "owned" or "ref"; the place is << >> unless the code is a place.         *)

Event(op, place, from) == [op |-> op, place |-> place, from |-> from]
Code(events, kind, type, from) ==
    [events |-> events, kind |-> kind, type |-> type, from |-> from, place |-> << >>]

\* What the types of the emitted code must agree on.
Must(holds) == IF holds THEN << >> ELSE <<Event("mismatch", << >>, {})>>

KindOf(type) == IF copy_type(type) THEN "copy" ELSE "owned"
Made(events, type) == Code(events, KindOf(type), type, {})

Nat_ == Type("Nat", << >>)
String_ == Type("String", << >>)
OptionOf(t) == Type("Option", <<t>>)

\* Each of the codes, followed by each of those made from it.
Then(codes, Next_(_)) ==
    UNION {{[c EXCEPT !.events = first.events \o @] : c \in Next_(first)} : first \in codes}

\* Several operands, one after the other: their codes and all their events.
InOrder(operands) ==
    FoldLeft(LAMBDA acc, codes :
                {[events |-> a.events \o c.events, codes |-> Append(a.codes, c)] : a \in acc, c \in codes},
             {[events |-> << >>, codes |-> << >>]}, operands)

resolved_inline(e, a) == IF e.op = "var" /\ e.name \in DOMAIN a.inline THEN a.inline[e.name] ELSE e

borrows(e, a) == expression_is_borrowed(e, a.borrowed, a.movable)

discardable_value(e) == e.op \in {"Nat", "Int", "Bool", "String", "Bytes"} \/ e = Ctor("Prod.mk", << >>)

\* A local by its name: moved if it is owned and moves, read if not.
Local(x, env) ==
    Code(<<Event(IF env[x].kind = "owned" THEN "move" ELSE "read", <<x>>, env[x].from)>>,
         env[x].kind, env[x].type, env[x].from)

Cloned(x, env) ==
    Code(<<Event("clone", <<x>>, env[x].from)>>, env[x].kind, env[x].type, env[x].from)

ReadLocal(x, env) ==
    [Code(<<Event("read", <<x>>, env[x].from)>>, env[x].kind, env[x].type,
          IF env[x].kind = "owned" THEN {<<x>>} ELSE env[x].from) EXCEPT !.place = <<x>>]

\* The binding a reading of an encoded text gets: a view of its bytes.
IsUtf8View(e, mode, a) ==
    /\ mode # "tail"
    /\ e.args[1].op = "utf8-encode"
    /\ resolved_inline(e.args[1].args[1], a).op \in {"var", "String"}
    /\ count_var_uses(Body(e), e.name) > 0 /\ utf8_read_only_uses(Body(e), e.name)

RECURSIVE render(_, _, _, _), render_value_leaf(_, _, _), read_value(_, _, _), render_match(_, _, _, _),
    render_back_edge(_, _, _)

value(e, env, a) == render(e, "value", env, a)
owned_value(e, env, a) == render(e, "owned", env, a)

read_value(e, env, a) ==
    LET r == resolved_inline(e, a)
    IN  IF r.op = "var" THEN {ReadLocal(r.name, env)} ELSE value(r, env, a)

\* ToOwned::to_owned, of references only.
owned_leaf(e, env, a) ==
    {IF ~borrows(e, a) THEN c
     ELSE Made(c.events \o Must(c.kind = "ref"), c.type) : c \in value(e, env, a)}

Bind(env, x, code) == (x :> [kind |-> code.kind, type |-> code.type, from |-> code.from]) @@ env

render_let(e, mode, env, a) ==
    IF \/ e.name \in DOMAIN a.inline
       \/ count_var_uses(Body(e), e.name) = 0 /\ discardable_value(e.args[1])
      THEN render(Body(e), mode, env, a)
    ELSE Then(IF IsUtf8View(e, mode, a)
                THEN {[c EXCEPT !.kind = "ref", !.type = Type("Bytes", << >>)] :
                        c \in read_value(e.args[1].args[1], env, a)}
                ELSE value(e.args[1], env, a),
              LAMBDA c : render(Body(e), mode, Bind(env, e.name, c), a))

\* The branches of one expression give references, or none of them does.
Agree(codes) ==
    {[c EXCEPT !.events = @ \o Must(\A d \in codes : d.kind = "ref" <=> c.kind = "ref")] : c \in codes}

\* In value mode, branches of which only some borrow are all made owned.
BranchMode(e, mode, a) ==
    IF mode = "value" /\ (\E b, c \in ToSet(Branches(e)) : borrows(b, a) /\ ~borrows(c, a))
      THEN "owned" ELSE mode

render_if(e, mode, env, a) ==
    Then(value(e.args[1], env, a), LAMBDA condition :
        Agree(UNION {render(b, BranchMode(e, mode, a), env, a) : b \in ToSet(Branches(e))}))

\* In tail mode (render_tail) self calls are back edges.
render(e, mode, env, a) ==
    CASE mode = "tail" /\ IsReturnedBinding(e) -> render(e.args[1], mode, env, a)
      [] e.op = "if" -> render_if(e, mode, env, a)
      [] e.op = "let" /\ ~(mode = "tail" /\ IsReturnedBinding(e)) -> render_let(e, mode, env, a)
      [] e.op = "cases" -> render_match(e, mode, env, a)
      [] mode = "tail" /\ e.op = "call" /\ e.name = a.self.name -> render_back_edge(e, env, a)
      [] mode \in {"owned", "tail"} /\ e.op \notin {"if", "let", "cases"}
           /\ ~(mode = "tail" /\ e.op = "call" /\ e.name = a.self.name) -> owned_leaf(e, env, a)
      [] mode = "value" /\ e.op = "var" ->
            IF e.name \in DOMAIN a.inline THEN value(a.inline[e.name], env, a)
            ELSE IF e.name \in a.clone \ a.borrowed THEN {Cloned(e.name, env)}
            ELSE {Local(e.name, env)}
      [] OTHER -> render_value_leaf(e, env, a)

-----------------------------------------------------------------------------
(* Leaves. *)

NoneIsRef(codes) == Must(\A i \in DOMAIN codes : codes[i].kind # "ref")

Callee(name, a) == IF name = a.self.name THEN a.self ELSE Callees[name]

\* `f(x)`: read if the parameter is borrowed, handed over if it is not.
Argument(d, i, e, env, a) ==
    LET argument == resolved_inline(e, a)
    IN  IF i \notin BorrowedFormals(d)
          THEN {[c EXCEPT !.events = @ \o Must(c.kind # "ref")] : c \in owned_value(argument, env, a)}
        ELSE IF argument.op \in {"String", "Bytes"} /\ argument.op = d.params[i].type.type
          THEN {Code(<< >>, "ref", d.params[i].type, {})}
        ELSE {[c EXCEPT !.kind = "ref"] : c \in read_value(argument, env, a)}

render_call_args(e, env, a) ==
    LET d == Callee(e.name, a)
    IN  InOrder([i \in DOMAIN e.args |-> Argument(d, i, e.args[i], env, a)])

\* The formals that change get their operands, all at once; the next iteration
\* still has the others.
render_back_edge(e, env, a) ==
    LET d == a.self
        changed == UNION a.loop
        Operand(i) == IF i \in changed THEN Argument(d, i, e.args[i], env, a) ELSE {Made(<< >>, Nat_)}
        kept == {<<d.params[i].name>> : i \in (DOMAIN d.params) \ changed}
    IN  {Made(Append(all.events, Event("continue", << >>, kept)), d.ret) :
           all \in InOrder([i \in DOMAIN e.args |-> Operand(i)])}

render_call(e, env, a) ==
    LET d == Callee(e.name, a)
        Borrowed(args) == UNION {args.codes[i].from : i \in DOMAIN args.codes}
    IN  {IF returns_borrowed_projection(d) \/ (d.params = << >> /\ d.ret.type = "List")
           THEN Code(args.events, "ref", d.ret, Borrowed(args))
           ELSE Made(args.events, d.ret) : args \in render_call_args(e, env, a)}

MadeType(ctor, types) ==
    CASE ctor = "Option.some" -> OptionOf(types[1])
      [] ctor = "Option.none" -> OptionOf(Nat_)
      [] ctor = "List.nil" -> Type("List", <<Nat_>>)
      [] ctor = "List.cons" -> Type("List", <<types[1]>>)
      [] ctor = "Except.ok" -> Type("Result", <<types[1], Nat_>>)
      [] ctor = "Except.error" -> Type("Result", <<Nat_, types[1]>>)
      [] ctor = "Prod.mk" -> Type("Tuple", types)
      [] OTHER -> Named(CHOOSE o \in Owners(ctor) : TRUE)

render_ctor(e, env, a) ==
    {Made(args.events \o NoneIsRef(args.codes),
          MadeType(e.name, [i \in DOMAIN args.codes |-> args.codes[i].type])) :
       args \in InOrder([i \in DOMAIN e.args |-> owned_value(e.args[i], env, a)])}

\* A field: moved out of its owner, copied, or borrowed.
render_proj(e, env, a) ==
    LET x == e.args[1].name
        type == CHOOSE t \in FieldTypes(e.names[1], e.name) : TRUE
        place == <<x, e.name>>
    IN  IF copy_type(type) THEN Made(<<Event("read", place, env[x].from)>>, type)
        ELSE IF projection_moves(e, a.borrowed, a.movable)
          THEN Made(<<Event("move", place, env[x].from)>> \o Must(env[x].kind = "owned"), type)
        ELSE Code(<<Event("read", place, env[x].from)>>, "ref", type,
                  IF env[x].kind = "owned" THEN {place} ELSE env[x].from)

\* The right operand is moved if it is owned and not used again.
AppendMoves(right, a) ==
    LET r == resolved_inline(right, a) IN r.op = "var" /\ r.name \notin a.borrowed \cup a.clone

render_append(e, env, a) ==
    LET left == owned_value(e.args[1], env, a)
        right == IF AppendMoves(e.args[2], a) THEN value(e.args[2], env, a)
                 ELSE read_value(e.args[2], env, a)
    IN  IF IsSelfAppend(e) THEN left
        ELSE {Made(both.events \o Must(both.codes[1].kind # "ref")
                     \o Must(AppendMoves(e.args[2], a) => both.codes[2].kind # "ref"),
                   both.codes[1].type) : both \in InOrder(<<left, right>>)}

\* Equality with a literal reads the other side; references and values are
\* brought together first.
render_eq(e, env, a) ==
    LET IsText(i) == resolved_inline(e.args[i], a).op \in {"String", "Bytes"}
        IsRef(code, i) == code.kind = "ref" /\ ~borrows(e.args[i], a)
        Type_ == Type("Bool", << >>)
    IN  IF IsText(1) \/ IsText(2)
          THEN {Made(c.events, Type_) : c \in read_value(e.args[IF IsText(2) THEN 1 ELSE 2], env, a)}
        ELSE {Made(both.events \o Must(IsRef(both.codes[1], 1) = IsRef(both.codes[2], 2)), Type_) :
                both \in InOrder(<<read_value(e.args[1], env, a), read_value(e.args[2], env, a)>>)}

\* The operands of the other operators, in the order of the emitted code, and
\* how each is rendered.  A division asks first whether its right operand is zero.
Operands(e, a) ==
    LET All(how) == [i \in DOMAIN e.args |-> <<how, i>>]
    IN  CASE e.op \in {"length", "string-length", "join", "compare-bytes", "parse-decimal-as"} -> {All("read")}
          [] e.op = "index" -> {<< <<"value", 2>>, <<"read", 1>> >>}
          [] e.op = "slice" -> {<< <<"value", 2>>, <<"value", 3>>, <<"read", 1>> >>}
          [] e.op = "utf8-encode" -> {<< <<"owned", 1>> >>}
          [] e.op = "utf8-decode" -> {<< <<IF borrows(e.args[1], a) THEN "read" ELSE "owned", 1>> >>}
          [] e.op \in {"quotient", "remainder"} ->
                {<< <<"value", 2>>, <<"value", 3>> >>, << <<"value", 2>>, <<"value", 1>>, <<"value", 2>> >>}
          [] OTHER -> {All("value")}

Rendered(operand, e, env, a) ==
    IF operand[1] = "read" THEN read_value(e.args[operand[2]], env, a)
    ELSE render(e.args[operand[2]], operand[1], env, a)

OperatorType(e, codes) ==
    CASE e.op \in {"String", "join"} -> String_
      [] e.op \in {"Bytes", "utf8-encode"} -> Type("Bytes", << >>)
      [] e.op = "utf8-decode" -> OptionOf(String_)
      [] e.op = "split-exact" -> OptionOf(Type("List", <<String_>>))
      [] e.op = "slice" -> OptionOf(codes[3].type)
      [] e.op = "parse-decimal-as" -> OptionOf(Type(e.name, << >>))
      [] e.op = "index" -> OptionOf(IF codes[2].type.type = "List" THEN codes[2].type.of[1] ELSE Nat_)
      [] e.op = "compare-bytes" -> Type("Ordering", << >>)
      [] OTHER -> Nat_

render_operator(e, env, a) ==
    UNION {{Made(all.events \o Must(e.op \in {"add", "quotient", "remainder", "utf8-encode"} =>
                                       \A i \in DOMAIN all.codes : all.codes[i].kind # "ref"),
                 OperatorType(e, all.codes)) :
              all \in InOrder([i \in DOMAIN operands |-> Rendered(operands[i], e, env, a)])} :
             operands \in Operands(e, a)}

render_value_leaf(e, env, a) ==
    CASE e.op = "call" -> render_call(e, env, a)
      [] e.op = "ctor" -> render_ctor(e, env, a)
      [] e.op = "proj" -> {render_proj(e, env, a)}
      [] e.op = "append" -> render_append(e, env, a)
      [] e.op = "eq" -> render_eq(e, env, a)
      [] OTHER -> render_operator(e, env, a)

-----------------------------------------------------------------------------
(* Matches. *)

\* A local that is not cloned is matched as a place: only what a pattern binds is
\* moved out of it.
Scrutinee(e, env, a) ==
    IF e.op = "var" /\ e.name \notin DOMAIN a.inline \cup (a.clone \ a.borrowed) /\ env[e.name].kind = "owned"
      THEN {[Code(<< >>, "owned", env[e.name].type, {}) EXCEPT !.place = <<e.name>>]}
      ELSE value(e, env, a)

FieldNames(scrutinee, alt) ==
    IF scrutinee.type = "named"
      THEN LET c == CHOOSE d \in Constructors(scrutinee.owner) : d.name = alt.ctor
           IN  [i \in DOMAIN c.fields |-> c.fields[i].name]
      ELSE [i \in DOMAIN alt.binders |-> "0"]

BinderTypes(scrutinee, alt) ==
    IF alt.ctor = "Nat.succ" THEN <<Nat_>> ELSE PatternFields(scrutinee, alt.ctor)

IsList(alt) == alt.ctor \in {"List.nil", "List.cons"}
Payloads == {"Option.some", "Except.ok", "Except.error"}

\* What matching an alternative does to the place: a list is only borrowed.  The
\* predecessor of a Nat is computed from the scrutinee's code once more.
Entered(alt, s) ==
    LET types == BinderTypes(s.type, alt)
        Takes(i) == ~IsList(alt) /\ s.kind = "owned" /\ ~copy_type(types[i])
        fields == SelectSeq([i \in DOMAIN alt.binders |-> i], Takes)
    IN  IF s.place = << >> THEN IF alt.ctor = "Nat.succ" THEN s.events ELSE << >>
        ELSE <<Event("read", s.place, {})>>
               \o [i \in DOMAIN fields |->
                     Event("move", Append(s.place, FieldNames(s.type, alt)[fields[i]]), {})]

\* How the i-th binder of an alternative is bound.
Binder(scrutinee, alt, i, s, a) ==
    LET type == BinderTypes(s.type, alt)[i]
        owners == IF s.place # << >> THEN {s.place} ELSE s.from
        isRebound ==
            IF alt.ctor \in Payloads THEN alt.binders[i] \in a.copied
            ELSE borrows(scrutinee, a) /\ copy_type(type)
    IN  IF IsList(alt)
          THEN IF i = 1 /\ list_head_rebound_by_value(scrutinee, a.paramTypes)
                 THEN Code(<< >>, KindOf(type), type, {})
                 ELSE Code(<< >>, "ref", type, owners)
        ELSE IF s.kind = "ref" /\ ~isRebound THEN Code(<< >>, "ref", type, s.from)
        ELSE Code(Must(alt.ctor \in Payloads /\ isRebound => s.kind = "ref"), KindOf(type), type, {})

BindAll(scrutinee, alt, s, env, a) ==
    FoldLeft(LAMBDA acc, i : Bind(acc, alt.binders[i], Binder(scrutinee, alt, i, s, a)),
             env, [i \in DOMAIN alt.binders |-> i])

Rebinding(scrutinee, alt, s, a) ==
    FlattenSeq([i \in DOMAIN alt.binders |-> Binder(scrutinee, alt, i, s, a).events])

render_alternative(e, i, s, mode, env, a) ==
    LET alt == e.alts[i]
        body == render(e.args[i + 1], mode, BindAll(e.args[1], alt, s, env, a), a)
    IN  {[c EXCEPT !.events = Entered(alt, s) \o Rebinding(e.args[1], alt, s, a) \o @] : c \in body}

render_match(e, mode, env, a) ==
    Then(Scrutinee(e.args[1], env, a), LAMBDA s :
        LET inMode == BranchMode(e, mode, a)
        IN  Agree(UNION {render_alternative(e, i, s, inMode, env, a) : i \in DOMAIN e.alts}
                    \cup (IF HasDefault(e) THEN render(Last(e.args), inMode, env, a) ELSE {})))

-----------------------------------------------------------------------------
(* A definition. *)

ParameterKinds(d) ==
    LET borrowed == {d.params[i].name : i \in BorrowedFormals(d)}
    IN  [x \in DOMAIN ParamTypes(d) |->
            [kind |-> IF x \in borrowed THEN "ref" ELSE KindOf(ParamTypes(d)[x]),
             type |-> ParamTypes(d)[x], from |-> {}]]

\* What is returned is a reference if the signature says so, and to something
\* that outlives the call.
Emitted(d) ==
    LET borrowed == returns_borrowed_projection(d)
        analysis == Analysis(d)
        mode == IF borrowed THEN "value" ELSE IF analysis.loop # {} THEN "tail" ELSE "owned"
    IN  {[c EXCEPT !.events = @ \o Must(IF borrowed THEN c.kind = "ref" /\ c.from = {} ELSE c.kind # "ref")] :
           c \in render(d.body, mode, ParameterKinds(d), analysis)}

Paths(d) == {c.events : c \in Emitted(d)}

RenderInit ==
    /\ definition \in Sources
    /\ todo = << >>
    /\ moved = {}
    /\ fault = "not rendered"

\* generate_def_in: one path of what it emits.
Render ==
    /\ fault = "not rendered"
    /\ todo' \in Paths(definition)
    /\ fault' = "none"
    /\ UNCHANGED <<definition, moved>>

Due(ops) == fault = "none" /\ todo # << >> /\ Head(todo).op \in ops

Overlaps(p, q) == IsPrefix(p, q) \/ IsPrefix(q, p)

\* Neither the place nor what it borrows from has been moved, whole or in part.
IsThere(event) == \A m \in moved : \A p \in {event.place} \cup event.from : ~Overlaps(m, p)

Verdict(event) ==
    CASE event.op = "mismatch" -> "mismatched types"
      [] event.op # "mismatch" /\ ~IsThere(event) -> "use after move"
      [] OTHER -> "none"

Uses ==
    /\ fault' = Verdict(Head(todo))
    /\ todo' = Tail(todo)
    /\ UNCHANGED definition

ReadPlace == Due({"read", "clone", "mismatch"}) /\ Uses /\ UNCHANGED moved

MovePlace == Due({"move"}) /\ Uses /\ moved' = moved \cup {Head(todo).place}

\* The next iteration: the locals are gone, and the formals that were assigned
\* are there again.
Continue ==
    /\ Due({"continue"})
    /\ todo' \in Paths(definition)
    /\ moved' = {place \in moved : <<place[1]>> \in Head(todo).from}
    /\ UNCHANGED <<definition, fault>>

RenderNext == Render \/ ReadPlace \/ MovePlace \/ Continue

-----------------------------------------------------------------------------
\* The generated code compiles: on no path through a definition is a local or a
\* field used after it was moved, or a reference after its owner was, nothing is
\* moved out of a reference, and nothing borrowed is handed on, returned or put
\* in a constructor as if it were owned, nor is an owned value copied as if it
\* were borrowed.  The same holds from one iteration of a loop to the next.
\* (binding_ownership, repeated_non_copy_locals, movable_projection_owners,
\* owned_accumulators and the renderer decide this one name at a time.)
BorrowsCheck == fault \in {"not rendered", "none"}

Mentions(path, x) ==
    {i \in DOMAIN path :
        (path[i].place # << >> /\ path[i].place[1] = x) \/ (path[i].op = "continue" /\ <<x>> \in path[i].from)}

\* A local is cloned only if some path through the definition uses it twice, or
\* uses it and leaves it to the next iteration: uses in branches that exclude
\* each other do not force a copy (count_path_uses).
ClonesAreNeeded ==
    Due({"clone"}) => \E path \in Paths(definition) : Cardinality(Mentions(path, Head(todo).place[1])) > 1

\* "an LCNF common subexpression such as one `String` used by two fields must be
\* cloned at each use" (rust/prod-codegen/src/lib.rs, Renderer.clone_locals): what
\* is moved is not used again on the rest of the path.
SharedValuesCloned ==
    Due({"move"}) => \A i \in 2..Len(todo) : todo[i].place # Head(todo).place
=============================================================================
