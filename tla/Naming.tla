------------------------------- MODULE Naming -------------------------------
(***************************************************************************)
(* Renaming the binders of a definition before anything looks a local up   *)
(* by its name (rust/prod-codegen/src/naming.rs).                          *)
(*                                                                         *)
(* The names taken so far, the next fresh number, the first refusal and    *)
(* the marked binders are the state `st` that rewriting threads through    *)
(* the tree; what never changes (`reserved`, `protected`, `buffer`, the    *)
(* formals and the marked sources) is `ctx`.                               *)
(***************************************************************************)
EXTENDS Ir, TLC

CONSTANTS
    RUST_KEYWORDS,
    NotIdentifiers,     \* names that are not Rust identifiers
    Nfc,                \* the names that are not their own normal form -> it
    Declared,           \* the constructors of the module's type declarations
    Qualified,          \* the names that contain a dot
    Helpers             \* the definitions called through a helper -> its name

rust_local_ident(name) == IF name \in RUST_KEYWORDS THEN "__prod_" \o name ELSE name

\* Rust compares identifiers in NFC.
collision_key(name) == IF name \in DOMAIN Nfc THEN Nfc[name] ELSE name

binding_identifier(name) == name \notin NotIdentifiers

rust_ident(name) == IF name \in RUST_KEYWORDS THEN "r#" \o name ELSE name

emitted_call_name(name) == IF name \in DOMAIN Helpers THEN Helpers[name] ELSE rust_ident(name)

Fresh(n) == "prod_local_" \o ToString(n)

\* __head0, __rest0, ...: what a definition that fills a caller's buffer binds.
IndexedTemporaries == {prefix \o ToString(n) : prefix \in {"__head", "__rest", "__len"}, n \in 0..9}

IsRepeated(names) == Cardinality(ToSet(names)) # Len(names)
Repeated(names) ==
    names[CHOOSE i \in DOMAIN names :
            /\ names[i] \in ToSet(SubSeq(names, 1, i - 1))
            /\ ~IsRepeated(SubSeq(names, 1, i - 1))]

distinct_bindings(names, st) ==
    IF st.error = << >> /\ IsRepeated(names) THEN [st EXCEPT !.error = <<Repeated(names)>>] ELSE st

-----------------------------------------------------------------------------
(* Names that binders must avoid. *)

Temporaries(e) ==
    CASE e.op = "append" -> {"__value"}
      [] e.op = "index" -> {"__index"}
      [] e.op = "slice" -> {"__start", "__count", "__end", "__slice"}
      [] e.op = "split-exact" -> {"__value", "__delimiter", "__limit", "__maximum", "__fields"}
      [] e.op \in {"parse-decimal", "parse-decimal-as"} -> {"__input", "__text", "__value"}
      [] e.op = "ctor" /\ e.name = "List.cons" -> {"__list"}
      [] OTHER -> {}

temporary_names(body) == UNION {Temporaries(e) : e \in Nodes(body)}

Binders(e) == UNION {ToSet(a.binders) : a \in ToSet(e.alts)}

original_names(body) ==
    {rust_local_ident(name) : name \in
        {e.name : e \in {n \in Nodes(body) : n.op \in {"var", "let", "jmp", "jp"}}}
          \cup UNION {ToSet(e.names) : e \in {n \in Nodes(body) : n.op = "jp"}}
          \cup UNION {Binders(e) : e \in Nodes(body)}}

protected_names(body) ==
    LET constructors == {e.name : e \in {n \in Nodes(body) : n.op = "ctor"}}
                          \cup UNION {{a.ctor : a \in ToSet(e.alts)} : e \in Nodes(body)}
    IN  (constructors \ (Qualified \cup Declared))
          \cup {emitted_call_name(e.name) : e \in {n \in Nodes(body) : n.op = "call"}}

Prelude == {"Some", "None", "Ok", "Err", "Self", "_"}

-----------------------------------------------------------------------------
(* Rewriting. *)

\* Defect: two spellings of one Rust identifier are taken for two names.
BindSpelling(original, ctx, st) ==
    LET rendered == rust_local_ident(original)
        taken == ctx.reserved \cup ctx.protected \cup st.used
        n == CHOOSE i \in st.next..(st.next + Cardinality(taken)) :
                /\ Fresh(i) \notin taken
                /\ \A j \in st.next..(i - 1) : Fresh(j) \in taken
    IN  IF /\ binding_identifier(rendered)
           /\ rendered \notin ctx.protected \cup st.used
           /\ ~(ctx.buffer /\ rendered \in IndexedTemporaries)
          THEN [name |-> original, st |-> [st EXCEPT !.used = @ \cup {rendered}]]
          ELSE [name |-> Fresh(n), st |-> [st EXCEPT !.used = @ \cup {Fresh(n)}, !.next = n + 1]]

\* A binder keeps its name when that is a Rust identifier nobody has taken, and
\* gets the next fresh one otherwise.
bind_name(original, ctx, st) ==
    LET rendered == rust_local_ident(original)
        key == collision_key(rendered)
        taken == ctx.reserved \cup ctx.protected \cup st.used
        n == CHOOSE i \in st.next..(st.next + Cardinality(taken)) :
                /\ Fresh(i) \notin taken
                /\ \A j \in st.next..(i - 1) : Fresh(j) \in taken
    IN  IF /\ binding_identifier(rendered)
           /\ key \notin ctx.protected \cup st.used
           /\ ~(ctx.buffer /\ rendered \in IndexedTemporaries)
          THEN [name |-> original, st |-> [st EXCEPT !.used = @ \cup {key}]]
          ELSE [name |-> Fresh(n), st |-> [st EXCEPT !.used = @ \cup {Fresh(n)}, !.next = n + 1]]

bind(original, ctx, st) ==
    LET bound == bind_name(original, ctx, st)
    IN  IF original \in ctx.tracked
          THEN [bound EXCEPT !.st.tracked = @ \cup {bound.name}] ELSE bound

\* The new names of a list of binders, and the scope inside it.
bindings(names, scope, ctx, st) ==
    FoldLeft(LAMBDA acc, old :
               LET b == bind(old, ctx, acc.st)
               IN  [names |-> Append(acc.names, b.name), scope |-> (old :> b.name) @@ acc.scope,
                    st |-> b.st],
             [names |-> << >>, scope |-> scope, st |-> distinct_bindings(names, st)], names)

Lookup(scope, name) == IF name \in DOMAIN scope THEN scope[name] ELSE name

RECURSIVE rewrite(_, _, _, _, _), RewriteLet(_, _, _, _, _), RewriteAlts(_, _, _, _, _)

Rewritten(e, st) == [e |-> e, st |-> st]

RewriteAll(es, variables, joins, ctx, st) ==
    FoldLeft(LAMBDA acc, e : LET r == rewrite(e, variables, joins, ctx, acc.st)
                             IN  Rewritten(Append(acc.e, r.e), r.st),
             Rewritten(<< >>, st), es)

\* A join declaration and its continuation are `(let g (jp g (...) ...) body)`:
\* the label and the let share their binder when they share their name.
RewriteJoin(e, variables, joins, ctx, st) ==
    LET jp == e.args[1]
    IN  After(bind(jp.name, ctx, st), LAMBDA label :
        After(IF e.name = jp.name THEN label ELSE bind(e.name, ctx, label.st), LAMBDA name :
        After(bindings(jp.names, variables, ctx, name.st), LAMBDA params :
        After((jp.name :> label.name) @@ joins, LAMBDA inner :
        After(rewrite(jp.args[1], params.scope, inner, ctx, params.st), LAMBDA continuation :
        After(rewrite(Body(e), (e.name :> name.name) @@ variables, inner, ctx, continuation.st),
            LAMBDA body :
            Rewritten(Let(name.name, Jp(label.name, params.names, continuation.e), body.e),
                      body.st)))))))

\* Defect: the value of a let is rewritten in the scope of its own binder.
LetInItsScope(e, variables, joins, ctx, st) ==
    After(bind(e.name, ctx, st), LAMBDA name :
    After((e.name :> name.name) @@ variables, LAMBDA inner :
    After(rewrite(e.args[1], inner, joins, ctx, name.st), LAMBDA value :
    After(rewrite(Body(e), inner, joins, ctx, value.st), LAMBDA body :
        Rewritten(Let(name.name, value.e, body.e), body.st)))))

RewriteLet(e, variables, joins, ctx, st) ==
    After(rewrite(e.args[1], variables, joins, ctx, st), LAMBDA value :
    After(bind(e.name, ctx, value.st), LAMBDA name :
    After(rewrite(Body(e), (e.name :> name.name) @@ variables, joins, ctx, name.st), LAMBDA body :
        Rewritten(Let(name.name, value.e, body.e), body.st))))

\* The alternatives of a match, each in the scope of its own binders.
RewriteAlts(e, variables, joins, ctx, st) ==
    FoldLeft(LAMBDA acc, i :
               After(bindings(e.alts[i].binders, variables, ctx, acc.st), LAMBDA b :
               After(rewrite(e.args[i + 1], b.scope, joins, ctx, b.st), LAMBDA r :
               Rewritten([acc.e EXCEPT !.alts[i].binders = b.names, !.args[i + 1] = r.e], r.st))),
             Rewritten(e, st), [i \in DOMAIN e.alts |-> i])

RewriteMatch(e, variables, joins, ctx, st) ==
    After(rewrite(e.args[1], variables, joins, ctx, st), LAMBDA scrutinee :
    After(RewriteAlts([e EXCEPT !.args[1] = scrutinee.e], variables, joins, ctx, scrutinee.st),
        LAMBDA alts :
        IF HasDefault(e)
          THEN After(rewrite(e.args[Len(e.args)], variables, joins, ctx, alts.st), LAMBDA default :
                   Rewritten([alts.e EXCEPT !.args[Len(e.args)] = default.e], default.st))
          ELSE alts))

rewrite(e, variables, joins, ctx, st) ==
    CASE e.op = "var" -> Rewritten(Var(Lookup(variables, e.name)), st)
      [] e.op = "param" ->
           Rewritten(IF e.index < Len(ctx.formals) THEN Var(ctx.formals[e.index + 1]) ELSE e, st)
      [] e.op = "let" /\ e.args[1].op = "jp" -> RewriteJoin(e, variables, joins, ctx, st)
      [] e.op = "let" /\ e.args[1].op # "jp" -> RewriteLet(e, variables, joins, ctx, st)
      [] e.op = "cases" -> RewriteMatch(e, variables, joins, ctx, st)
      [] e.op = "jp" ->
           After(bind(e.name, ctx, st), LAMBDA name :
           After(bindings(e.names, variables, ctx, name.st), LAMBDA params :
           After(rewrite(e.args[1], params.scope, (e.name :> name.name) @@ joins, ctx, params.st),
               LAMBDA body : Rewritten(Jp(name.name, params.names, body.e), body.st))))
      [] OTHER ->
           After(RewriteAll(Children(e), variables, joins, ctx, st), LAMBDA args :
               Rewritten([e EXCEPT !.name = IF e.op = "jmp" THEN Lookup(joins, e.name) ELSE e.name,
                                   !.args = args.e], args.st))

-----------------------------------------------------------------------------
(* A definition: [name, params: [name, type], ret, body]. *)

FillsBuffer(definition) == definition.ret.type = "List" /\ definition.params # << >>

Context(definition, tracked) ==
    LET params == {rust_local_ident(p.name) : p \in ToSet(definition.params)}
        helper == emitted_call_name(definition.name)
        protected == Prelude \cup temporary_names(definition.body)
                       \cup protected_names(definition.body)
                       \cup (IF helper # definition.name THEN {helper} ELSE {})
                       \cup (IF FillsBuffer(definition) THEN {"output", "__source", "__len"} ELSE {})
    IN  [reserved |-> {collision_key(n) : n \in params \cup original_names(definition.body)},
         protected |-> {collision_key(n) : n \in protected},
         buffer |-> FillsBuffer(definition), tracked |-> tracked, formals |-> << >>]

normalize_tracking(definition, tracked) ==
    LET sources == [i \in DOMAIN definition.params |-> definition.params[i].name]
        start == [used |-> {}, next |-> 0, error |-> << >>, tracked |-> {}]
    IN  After(Context(definition, tracked), LAMBDA ctx :
        After(bindings(sources, << >>, ctx, start), LAMBDA formals :
        After(rewrite(definition.body, formals.scope, << >>,
                      [ctx EXCEPT !.formals = formals.names], formals.st), LAMBDA body :
            [error |-> body.st.error, tracked |-> body.st.tracked,
             definition |-> [definition EXCEPT
                 !.params = [i \in DOMAIN @ |-> [@[i] EXCEPT !.name = formals.names[i]]],
                 !.body = body.e]])))
=============================================================================
