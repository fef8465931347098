------------------------------ MODULE Ownership ------------------------------
(***************************************************************************)
(* What generate_def_in decides about the locals of a definition before it *)
(* renders it (rust/prod-codegen/src/lib.rs and ownership.rs): which of    *)
(* them borrow, which are cloned where they are used, which fields may be  *)
(* moved out of their owner, and which literals are repeated at their      *)
(* uses.  Everything is keyed by name, after renaming has made names       *)
(* unique and join points have been expanded.  Parameters are named, as    *)
(* the exporter writes them, never (param i).                              *)
(*                                                                         *)
(* A definition is [name, params: sequence of [name, type], ret, body]; a  *)
(* set with at most one member stands for an Option.                       *)
(***************************************************************************)
EXTENDS Ir, TLC

CONSTANTS
    Callees,    \* the module's definitions by name; of one that is rendered
                \* and calls itself, the signature
    Table       \* its type declarations: owner -> sequence of
                \* [name, fields: sequence of [name, type]]

Constructors(owner) == IF owner \in DOMAIN Table THEN ToSet(Table[owner]) ELSE {}

RECURSIVE copy_type(_)
copy_type(t) ==
    CASE t.type \in {"String", "Bytes", "List", "Vec"} -> FALSE
      [] t.type = "named" ->
            /\ t.owner \in DOMAIN Table
            /\ \A c \in Constructors(t.owner) : \A f \in ToSet(c.fields) : copy_type(f.type)
      [] t.type \in {"Option", "Result", "Tuple"} -> \A u \in ToSet(t.of) : copy_type(u)
      [] OTHER -> TRUE

Total(ns) == FoldLeft(+, 0, ns)
Greatest(ns) == FoldLeft(LAMBDA m, n : IF n > m THEN n ELSE m, 0, ns)

Branches(e) == Tail(Children(e))

-----------------------------------------------------------------------------
(* How often a local is used. *)

RECURSIVE count_var_uses(_, _), count_sequential_path_uses(_, _), count_path_uses(_, _),
    CountAllButLengths(_, _)

count_var_uses(e, x) ==
    (IF IsVar(e, x) THEN 1 ELSE 0)
      + Total([i \in DOMAIN e.args |-> count_var_uses(e.args[i], x)])

IsSelfAppend(e) ==
    e.op = "append" /\ e.args[1].op = "var" /\ IsVar(e.args[2], e.args[1].name)

\* Branches exclude each other; everything else adds up.
count_sequential_path_uses(e, x) ==
    LET each == [i \in DOMAIN e.args |-> count_sequential_path_uses(e.args[i], x)]
    IN  CASE IsSelfAppend(e) /\ IsVar(e.args[1], x) -> 1
          [] e.op \in {"if", "cases"} -> each[1] + Greatest(Tail(each))
          [] OTHER -> (IF IsVar(e, x) THEN 1 ELSE 0) + Total(each)

IsScalarRead(e, x) == e.op \in {"length", "string-length"} /\ IsVar(e.args[1], x)

\* Defect: every length read is left out, also one behind a move.
CountAllButLengths(e, x) ==
    IF e.op = "let" /\ IsScalarRead(e.args[1], x)
      THEN CountAllButLengths(Body(e), x)
    ELSE IF e.op = "let"
      THEN count_sequential_path_uses(e.args[1], x) + CountAllButLengths(Body(e), x)
    ELSE count_sequential_path_uses(e, x)

\* Lengths that are read before anything else, on the whole path or after a
\* selector that does not touch the local, do not count.
count_path_uses(e, x) ==
    CASE e.op = "let" /\ (IsScalarRead(e.args[1], x) \/ count_var_uses(e.args[1], x) = 0) ->
            count_path_uses(Body(e), x)
      [] e.op \in {"if", "cases"} /\ count_var_uses(e.args[1], x) = 0 ->
            Greatest([i \in DOMAIN Branches(e) |-> count_path_uses(Branches(e)[i], x)])
      [] OTHER -> count_sequential_path_uses(e, x)

RECURSIVE utf8_read_only_uses(_, _)
utf8_read_only_uses(e, x) ==
    CASE e.op = "length" /\ IsVar(e.args[1], x) -> TRUE
      [] e.op = "compare-bytes" ->
            \A v \in ToSet(e.args) : IsVar(v, x) \/ utf8_read_only_uses(v, x)
      [] OTHER -> ~IsVar(e, x) /\ \A c \in ToSet(e.args) : utf8_read_only_uses(c, x)

-----------------------------------------------------------------------------
(* Types, as far as they can be read off an expression. *)

FieldTypes(owner, field) ==
    UNION {{f.type : f \in {g \in ToSet(c.fields) : g.name = field}} : c \in Constructors(owner)}

Owners(ctor) == {o \in DOMAIN Table : \E c \in ToSet(Table[o]) : c.name = ctor}

WithType(types, name, found) ==
    [n \in (DOMAIN types \ {name}) \cup {m \in {name} : found # {}} |->
        IF n = name THEN CHOOSE t \in found : TRUE ELSE types[n]]

RECURSIVE expression_type(_, _)
expression_type(e, types) ==
    LET Of(i) == expression_type(e.args[i], types)
        OptionOf(found) == {Type("Option", <<t>>) : t \in found}
    IN  CASE e.op = "var" -> {types[n] : n \in DOMAIN types \cap {e.name}}
          [] e.op \in {"String", "join", "format-decimal"} -> {Type("String", << >>)}
          [] e.op \in {"Bytes", "utf8-encode"} -> {Type("Bytes", << >>)}
          [] e.op = "append" -> Of(1)
          [] e.op = "utf8-decode" -> OptionOf({Type("String", << >>)})
          [] e.op = "parse-decimal-as" -> OptionOf({Type(e.name, << >>)})
          [] e.op = "split-exact" -> OptionOf({Type("List", <<Type("String", << >>)>>)})
          [] e.op = "slice" -> OptionOf({t \in Of(1) : t.type \in {"Bytes", "List"}})
          [] e.op = "index" ->
                OptionOf({IF t.type = "List" THEN t.of[1] ELSE Type("UInt8", << >>) :
                            t \in {u \in Of(1) : u.type \in {"Bytes", "List"}}})
          [] e.op = "call" -> {Callees[n].ret : n \in DOMAIN Callees \cap {e.name}}
          [] e.op = "proj" -> FieldTypes(e.names[1], e.name)
          [] e.op = "let" -> expression_type(Body(e), WithType(types, e.name, Of(1)))
          [] e.op = "if" -> Of(2) \cap Of(3)
          [] e.op = "ctor" /\ e.name = "Option.some" -> OptionOf(Of(1))
          [] e.op = "ctor" /\ e.name = "Prod.mk" ->
                IF \E i \in DOMAIN e.args : Of(i) = {} THEN {}
                ELSE {Type("Tuple", [i \in DOMAIN e.args |-> CHOOSE t \in Of(i) : TRUE])}
          [] e.op = "ctor" /\ e.name \notin {"Option.some", "Prod.mk"} ->
                {Named(o) : o \in Owners(e.name)}
          [] OTHER -> {}

\* The types of an alternative's fields, by binder; none if they do not fit.
PatternFields(scrutinee, ctor) ==
    CASE scrutinee.type = "Option" /\ ctor = "Option.some" -> scrutinee.of
      [] scrutinee.type = "Result" /\ ctor = "Except.ok" -> <<scrutinee.of[1]>>
      [] scrutinee.type = "Result" /\ ctor = "Except.error" -> <<scrutinee.of[2]>>
      [] scrutinee.type = "Tuple" /\ ctor = "Prod.mk" -> scrutinee.of
      [] scrutinee.type = "List" /\ ctor = "List.cons" -> <<scrutinee.of[1], scrutinee>>
      [] scrutinee.type = "named" /\ (\E c \in Constructors(scrutinee.owner) : c.name = ctor) ->
            LET c == CHOOSE d \in Constructors(scrutinee.owner) : d.name = ctor
            IN  [i \in DOMAIN c.fields |-> c.fields[i].type]
      [] OTHER -> << >>

pattern_types(scrutinee, alt) ==
    LET fields == IF scrutinee = {} THEN << >>
                  ELSE PatternFields(CHOOSE t \in scrutinee : TRUE, alt.ctor)
    IN  IF Len(fields) # Len(alt.binders) THEN << >>
        ELSE [b \in ToSet(alt.binders) |-> fields[CHOOSE i \in DOMAIN fields : alt.binders[i] = b]]

Without(types, names) == [n \in DOMAIN types \ names |-> types[n]]
InAlternative(types, scrutinee, alt) ==
    pattern_types(scrutinee, alt) @@ Without(types, ToSet(alt.binders))

RECURSIVE expression_is_non_copy(_, _)
expression_is_non_copy(e, nonCopy) ==
    CASE e.op = "var" -> e.name \in nonCopy
      [] e.op = "call" -> e.name \in DOMAIN Callees /\ ~copy_type(Callees[e.name].ret)
      [] e.op = "proj" -> \E t \in FieldTypes(e.names[1], e.name) : ~copy_type(t)
      [] e.op = "ctor" ->
            \/ e.name \in {"List.nil", "List.cons", "Option.none", "Option.some", "Except.ok", "Except.error"}
            \/ \E o \in Owners(e.name) : ~copy_type(Named(o))
      [] e.op \in {"String", "Bytes", "append", "utf8-encode", "utf8-decode", "split-exact",
                   "join", "format-decimal"} -> TRUE
      [] e.op = "let" ->
            expression_is_non_copy(Body(e),
                nonCopy \cup {n \in {e.name} : expression_is_non_copy(e.args[1], nonCopy)})
      [] e.op \in {"if", "cases"} ->
            \E b \in ToSet(Branches(e)) : expression_is_non_copy(b, nonCopy)
      [] OTHER -> FALSE

-----------------------------------------------------------------------------
(* Parameters and results. *)

public_borrowed_parameter(type, returnsBoolean) ==
    \/ type.type = "List"
    \/ type.type = "named" /\ ~copy_type(type)
    \/ returnsBoolean /\ type.type \in {"String", "Bytes"}

internal_borrowed_parameter(type, returnsCopy) ==
    public_borrowed_parameter(type, FALSE) \/ (returnsCopy /\ ~copy_type(type))

Params(d) == ToSet(d.params)
ParamTypes(d) ==
    [n \in {p.name : p \in Params(d)} |-> (CHOOSE p \in Params(d) : p.name = n).type]

\* The compiler's shape of an accessor: `let y := x.field; y`, of the only
\* parameter that is borrowed.
returns_borrowed_projection(d) ==
    /\ d.body.op = "let" /\ IsVar(Body(d.body), d.body.name)
    /\ d.body.args[1].op = "proj" /\ d.body.args[1].args[1].op = "var"
    /\ LET field == d.body.args[1]
           receiver == field.args[1].name
       IN  /\ receiver \in DOMAIN ParamTypes(d)
           /\ ParamTypes(d)[receiver] = Named(field.names[1])
           /\ Cardinality({i \in DOMAIN d.params :
                             internal_borrowed_parameter(d.params[i].type, FALSE)}) = 1
           /\ d.ret \in FieldTypes(field.names[1], field.name) /\ ~copy_type(d.ret)

-----------------------------------------------------------------------------
(* Self tail calls and owned accumulators. *)

IsReturnedBinding(e) == e.op = "let" /\ IsVar(Body(e), e.name)

RECURSIVE SelfCalls(_, _, _)
SelfCalls(e, tail, name) ==
    LET Under(inTail) == UNION {SelfCalls(e.args[i], i \in inTail, name) : i \in DOMAIN e.args}
    IN  CASE IsReturnedBinding(e) -> SelfCalls(e.args[1], tail, name)
          [] e.op = "call" /\ e.name = name -> {[args |-> e.args, tail |-> tail]} \cup Under({})
          [] e.op \in {"let", "if", "cases"} /\ ~IsReturnedBinding(e) ->
                Under(IF tail THEN DOMAIN e.args \ {1} ELSE {})
          [] OTHER -> Under({})

\* The formals that change at some back edge, if the definition becomes a loop.
plan(d, owned) ==
    LET calls == SelfCalls(d.body, TRUE, d.name)
        Changed(args) == {i \in DOMAIN d.params : ~IsVar(args[i], d.params[i].name)}
        IsBorrowed(i) ==
            i \notin owned /\ internal_borrowed_parameter(d.params[i].type, copy_type(d.ret))
        IsBackEdge(c) ==
            c.tail /\ Len(c.args) = Len(d.params) /\ \A i \in Changed(c.args) : ~IsBorrowed(i)
    IN  IF calls # {} /\ (\A c \in calls : IsBackEdge(c))
          THEN {UNION {Changed(c.args) : c \in calls}} ELSE {}

\* Every use of x hands it on as owned: to a constructor, on the left of an
\* append, or to the same position of a self call.
RECURSIVE owned_uses(_, _, _, _, _)
owned_uses(e, x, position, function, owned) ==
    LET Uses(i, asOwned) == owned_uses(e.args[i], x, position, function, asOwned)
        UsesAll(ownedAt) == \A i \in DOMAIN e.args : Uses(i, i \in ownedAt)
    IN  CASE e.op = "var" -> e.name = x => owned
          [] e.op \in {"param", "jp", "jmp"} -> FALSE
          [] e.op = "ctor" -> UsesAll(DOMAIN e.args)
          [] e.op = "append" -> UsesAll({1})
          [] e.op = "call" -> UsesAll(IF e.name = function THEN {position} ELSE {})
          [] e.op \in {"let", "if", "cases"} ->
                /\ e.op = "let" => e.name # x
                /\ \A alt \in ToSet(e.alts) : x \notin ToSet(alt.binders)
                /\ UsesAll(IF owned THEN DOMAIN e.args \ {1} ELSE {})
          [] OTHER -> UsesAll({})

\* owned_accumulators::parameters: the lists a loop takes over and rebuilds.
owned_parameters(d) ==
    LET candidates ==
            {i \in DOMAIN d.params :
                /\ d.params[i].type.type = "List"
                /\ count_path_uses(d.body, d.params[i].name) = 1
                /\ owned_uses(d.body, d.params[i].name, i, d.name, FALSE)}
    IN  IF d.ret.type = "named" /\ ~copy_type(d.ret) /\ candidates # {}
          THEN candidates \cap UNION plan(d, candidates) ELSE {}

\* The formals that are references in the emitted function.
BorrowedFormals(d) ==
    {i \in (DOMAIN d.params) \ owned_parameters(d) :
        internal_borrowed_parameter(d.params[i].type, copy_type(d.ret))}

-----------------------------------------------------------------------------
(* Fields that may be moved, locals that borrow. *)

RECURSIVE Projections(_)
Projections(e) ==
    (IF e.op = "proj" /\ e.args[1].op = "var" THEN <<[owner |-> e.args[1].name, field |-> e.name]>>
     ELSE << >>)
      \o FlattenSeq([i \in DOMAIN e.args |-> Projections(e.args[i])])

\* Locals used through distinct projections only.
movable_projection_owners(d) ==
    LET all == Projections(d.body)
        Of(x) == SelectSeq(all, LAMBDA p : p.owner = x)
    IN  IF returns_borrowed_projection(d) THEN {}
        ELSE {x \in {p.owner : p \in ToSet(all)} :
                /\ Cardinality(ToSet(Of(x))) = Len(Of(x))
                /\ count_var_uses(d.body, x) = Len(Of(x))}

projection_moves(e, borrowed, movable) ==
    e.op = "proj" /\ e.args[1].op = "var" /\ e.args[1].name \in movable \ borrowed

RECURSIVE expression_is_borrowed(_, _, _)
expression_is_borrowed(e, borrowed, movable) ==
    CASE e.op = "var" -> e.name \in borrowed
      [] e.op = "proj" ->
            ~projection_moves(e, borrowed, movable) /\ expression_is_non_copy(e, {})
      [] e.op = "call" ->
            /\ e.name \in DOMAIN Callees
            /\ \/ returns_borrowed_projection(Callees[e.name])
               \/ Callees[e.name].params = << >> /\ Callees[e.name].ret.type = "List"
      [] e.op = "let" -> expression_is_borrowed(Body(e), borrowed, movable)
      [] e.op \in {"if", "cases"} ->
            \A b \in ToSet(Branches(e)) : expression_is_borrowed(b, borrowed, movable)
      [] OTHER -> FALSE

\* The head of a list is cloned out of it, unless it is known to be worth
\* borrowing.
list_head_rebound_by_value(scrutinee, paramTypes) ==
    scrutinee.op = "var" /\ scrutinee.name \in DOMAIN paramTypes
        /\ paramTypes[scrutinee.name].type = "List"
      => copy_type(paramTypes[scrutinee.name].of[1])

IsListPattern(alt) == alt.ctor = "List.cons" /\ Len(alt.binders) = 2

\* The binders of the fields that are declared for the constructor's name.
DeclaredBinders(alt, copy) ==
    {alt.binders[i] : i \in {j \in DOMAIN alt.binders :
        \E o \in Owners(alt.ctor) : \E c \in ToSet(Table[o]) :
            c.name = alt.ctor /\ j \in DOMAIN c.fields /\ copy_type(c.fields[j].type) = copy}}

\* What one alternative adds: binders that borrow, and binders of Copy fields
\* that are rebound by value.
PatternBorrows(alt, scrutinee, isBorrowed, fields, paramTypes) ==
    LET Typed(copy) == {b \in DOMAIN fields : copy_type(fields[b]) = copy}
    IN  IF IsListPattern(alt)
          THEN [borrowed |-> {alt.binders[2]}
                   \cup {b \in {alt.binders[1]} : ~list_head_rebound_by_value(scrutinee, paramTypes)},
                copied |-> {}]
        ELSE IF isBorrowed
          THEN [borrowed |-> Typed(FALSE) \cup DeclaredBinders(alt, FALSE), copied |-> Typed(TRUE)]
        ELSE [borrowed |-> {}, copied |-> {}]

RECURSIVE BindingWalk(_, _, _, _, _), BindingAlternatives(_, _, _, _, _)

\* The alternatives of a match, after its scrutinee; then its default.
BindingAlternatives(e, types, acc, movable, paramTypes) ==
    LET scrutinee == expression_type(e.args[1], types)
        isBorrowed == expression_is_borrowed(e.args[1], acc.borrowed, movable)
        Adds(alt) == PatternBorrows(alt, e.args[1], isBorrowed, pattern_types(scrutinee, alt), paramTypes)
    IN  FoldLeft(LAMBDA a, i :
            IF i \in DOMAIN e.alts
              THEN BindingWalk(e.args[i + 1], InAlternative(types, scrutinee, e.alts[i]),
                       [borrowed |-> a.borrowed \cup Adds(e.alts[i]).borrowed,
                        copied |-> a.copied \cup Adds(e.alts[i]).copied], movable, paramTypes)
              ELSE BindingWalk(e.args[i + 1], types, a, movable, paramTypes),
            acc, [i \in DOMAIN Branches(e) |-> i])

\* acc: [borrowed, copied] so far, in the order of the text.
BindingWalk(e, types, acc, movable, paramTypes) ==
    CASE e.op = "let" ->
            After(BindingWalk(e.args[1], types, acc, movable, paramTypes), LAMBDA v :
                BindingWalk(Body(e), WithType(types, e.name, expression_type(e.args[1], types)),
                    [v EXCEPT !.borrowed = @ \cup
                        {n \in {e.name} : expression_is_borrowed(e.args[1], v.borrowed, movable)}],
                    movable, paramTypes))
      [] e.op = "cases" ->
            After(BindingWalk(e.args[1], types, acc, movable, paramTypes), LAMBDA v :
                BindingAlternatives(e, types, v, movable, paramTypes))
      [] OTHER ->
            FoldLeft(LAMBDA a, c : BindingWalk(c, types, a, movable, paramTypes), acc, e.args)

binding_ownership(d, movable) ==
    BindingWalk(d.body, ParamTypes(d),
        [borrowed |-> {d.params[i].name : i \in BorrowedFormals(d)}, copied |-> {}],
        movable, ParamTypes(d))

-----------------------------------------------------------------------------
(* Locals that are cloned at their uses, literals that are repeated. *)

\* `let x := f(..); match x | some y => .. | none => x`, where nothing but a
\* payload on its way back into a `some` is taken out of x.
single_owned_option_match(x, value, body) ==
    /\ value.op = "call" /\ value.name \in DOMAIN Callees
    /\ Callees[value.name].ret.type = "Option"
    /\ ~returns_borrowed_projection(Callees[value.name])
    /\ body.op = "cases" /\ IsVar(body.args[1], x) /\ ~HasDefault(body) /\ Len(body.alts) = 2
    /\ \E i \in 1..2 :
          LET arm == body.args[i + 1]
              payload == body.alts[i].binders
          IN  /\ body.alts[i].ctor = "Option.some" /\ Len(payload) = 1
              /\ count_var_uses(arm, x) = 0
              /\ \/ count_var_uses(arm, payload[1]) = 0
                 \/ arm = Ctor("Option.some", <<Var(payload[1])>>)
    /\ \E i \in 1..2 : body.alts[i].ctor = "Option.none" /\ IsVar(body.args[i + 1], x)

RECURSIVE Repeated(_, _, _, _)
Repeated(e, nonCopy, types, borrowed) ==
    LET type == expression_type(e.args[1], types)
        isNonCopy == IF type # {} THEN \E t \in type : ~copy_type(t)
                     ELSE expression_is_non_copy(e.args[1], nonCopy)
        Alternative(alt, body) ==
            LET fields == pattern_types(type, alt)
                owned == {b \in DOMAIN fields : ~copy_type(fields[b])}
            IN  {b \in owned \ borrowed : count_path_uses(body, b) > 1}
                  \cup Repeated(body, (nonCopy \ ToSet(alt.binders)) \cup owned,
                                InAlternative(types, type, alt), borrowed)
    IN  CASE e.op = "let" ->
               Repeated(e.args[1], nonCopy, types, borrowed)
                 \cup {x \in {e.name} \ borrowed :
                         /\ isNonCopy /\ count_path_uses(Body(e), x) > 1
                         /\ ~single_owned_option_match(x, e.args[1], Body(e))}
                 \cup Repeated(Body(e), IF isNonCopy THEN nonCopy \cup {e.name} ELSE nonCopy \ {e.name},
                               WithType(types, e.name, type), borrowed)
          [] e.op = "cases" ->
               Repeated(e.args[1], nonCopy, types, borrowed)
                 \cup UNION {Alternative(e.alts[i], e.args[i + 1]) : i \in DOMAIN e.alts}
                 \cup (IF HasDefault(e) THEN Repeated(Last(e.args), nonCopy, types, borrowed) ELSE {})
          [] OTHER -> UNION {Repeated(c, nonCopy, types, borrowed) : c \in ToSet(e.args)}

repeated_non_copy_locals(d, borrowed) ==
    {p.name : p \in {q \in Params(d) : /\ q.name \notin borrowed /\ ~copy_type(q.type)
                                       /\ count_path_uses(d.body, q.name) > 1}}
      \cup Repeated(d.body, {}, ParamTypes(d), borrowed)

IsRepeatedLiteral(e) ==
    e.op \in {"String", "Bytes"} \/ (e.op = "ctor" /\ e.args = << >> /\ e.name \in {"List.nil", "Option.none"})

inline_bindings(body) ==
    LET lets == {e \in Nodes(body) : e.op = "let" /\ IsRepeatedLiteral(e.args[1])}
    IN  [x \in {e.name : e \in lets} |-> (CHOOSE e \in lets : e.name = x).args[1]]

\* All that the renderer asks when it meets a local or a self call.
Analysis(d) ==
    LET movable == movable_projection_owners(d)
        bindings == binding_ownership(d, movable)
    IN  [borrowed |-> bindings.borrowed, copied |-> bindings.copied, movable |-> movable,
         clone |-> repeated_non_copy_locals(d, bindings.borrowed),
         inline |-> inline_bindings(d.body), paramTypes |-> ParamTypes(d),
         self |-> d, loop |-> plan(d, owned_parameters(d))]
=============================================================================
