------------------------------ MODULE FrontEnd ------------------------------
(***************************************************************************)
(* From the text of a module to definitions whose locals have one name     *)
(* each: parse_module, then, for one definition after the other,           *)
(* generate_def_in's renaming.  Composes Parser and Naming.                *)
(***************************************************************************)
EXTENDS Parser, Naming

CONSTANTS
    Exported,       \* modules an exporter writes: [module, tracked]
    Damaged,        \* other texts
    Pieces          \* the names a tag or a digit run is a prefix of -> their pieces

VARIABLES
    text,           \* what is read
    exported,       \* the module it was written from, if it was: << >> or <<module>>
    tracked,        \* the sources whose binders are marked
    stage,          \* "text", "renaming", "renamed" or "refused"
    parsed,         \* the result of parse_module
    renamed         \* the results of normalize_tracking so far

frontEndVars == <<text, exported, tracked, stage, parsed, renamed>>

-----------------------------------------------------------------------------
(* What an exporter writes: the text a tree stands for. *)

Paren(lexemes) == <<Open>> \o lexemes \o <<Close>>
WordOf(name) == IF name \in DOMAIN Pieces THEN Pieces[name] ELSE Word(name)
Words(names) == [i \in DOMAIN names |-> WordOf(names[i])]
Digits(n) == CHOOSE d \in DOMAIN U64 : U64[d] = n

RECURSIVE WriteType(_)
WriteType(t) ==
    IF t.type \in Atomic THEN <<Word(t.type)>>
    ELSE Paren(<<Word(t.type)>> \o (IF t.type \in {"named", "opaque"} THEN <<Quoted(t.owner)>> ELSE << >>)
                 \o FlattenSeq([i \in DOMAIN t.of |-> WriteType(t.of[i])]))

\* Lean.Json.escape
Escape(value) ==
    LET spellings == {w \in DOMAIN Unescaped : Unescaped[w] = value}
    IN  IF spellings = {} THEN value ELSE CHOOSE w \in spellings : TRUE

RECURSIVE WriteExpr(_)
WriteExpr(e) ==
    LET args == FlattenSeq([i \in DOMAIN e.args |-> WriteExpr(e.args[i])])
        Alternative(i) == Paren(<<Word("alt"), Quoted(e.alts[i].ctor)>>
                                  \o Paren(Words(e.alts[i].binders)) \o WriteExpr(e.args[i + 1]))
    IN  CASE e.op \in {"Nat", "Bool"} -> <<Word(e.name)>>
          [] e.op = "Int" -> << <<"-", e.name>> >>
          [] e.op = "var" -> <<WordOf(e.name)>>
          [] e.op = "String" -> Paren(<<Word("string"), Text(Escape(e.name))>>)
          [] e.op = "Bytes" -> Paren(<<Word("bytes")>> \o Words(e.names))
          [] e.op = "param" -> Paren(<<Word("param"), Word(Digits(e.index))>>)
          [] e.op \in {"let", "call", "jmp", "parse-decimal-as"} ->
                Paren(<<Word(e.op), WordOf(e.name)>> \o args)
          [] e.op \in {"ctor", "extern", "opaque"} -> Paren(<<Word(e.op), Quoted(e.name)>> \o args)
          [] e.op = "proj" -> Paren(<<Word("proj"), Quoted(e.names[1]), Quoted(e.name)>> \o args)
          [] e.op = "jp" -> Paren(<<Word("jp"), WordOf(e.name)>> \o Paren(Words(e.names)) \o args)
          [] e.op = "cases" ->
                Paren(<<Word("cases")>> \o WriteExpr(e.args[1])
                        \o FlattenSeq([i \in DOMAIN e.alts |-> Alternative(i)])
                        \o IF HasDefault(e)
                             THEN Paren(<<Word("default")>> \o WriteExpr(e.args[Len(e.args)]))
                             ELSE << >>)
          [] OTHER -> Paren(<<Word(e.op)>> \o args)

WriteFields(fields) ==
    FlattenSeq([i \in DOMAIN fields |->
        Paren(<<WordOf(fields[i].name)>> \o WriteType(fields[i].type))])

WriteModule(m) ==
    LET Constructor(c) == Paren(<<Word("ctor"), Quoted(c.name)>> \o WriteFields(c.fields))
        Declaration(d) ==
            Paren(<<Word("type"), Quoted(d.name)>>
              \o (IF d.unsupported = << >> THEN << >>
                    ELSE Paren(<<Word("unsupported"), Text(d.unsupported[1])>>))
              \o FlattenSeq([i \in DOMAIN d.ctors |-> Constructor(d.ctors[i])]))
        Written(d) ==
            Paren(<<Word("def"), WordOf(d.name)>> \o Paren(WriteFields(d.params))
                    \o WriteType(d.ret) \o WriteExpr(d.body))
    IN  Paren(<<Word("module"), WordOf(m.name)>>
          \o FlattenSeq([i \in DOMAIN m.types |-> Declaration(m.types[i])])
          \o FlattenSeq([i \in DOMAIN m.definitions |-> Written(m.definitions[i])]))

-----------------------------------------------------------------------------

Init ==
    /\ \/ \E x \in Exported :
            exported = <<x.module>> /\ text = WriteModule(x.module) /\ tracked = x.tracked
       \/ exported = << >> /\ text \in Damaged /\ tracked = {}
    /\ stage = "text"
    /\ parsed = Error
    /\ renamed = << >>

\* parse_module(text)?
Read ==
    /\ stage = "text"
    /\ LET r == parse_module(text)
       IN  /\ parsed' = r
           /\ stage' = IF r.error = "none" THEN "renaming" ELSE "refused"
    /\ UNCHANGED <<text, exported, tracked, renamed>>

\* The next definition; its error is the error of the module.
Rename ==
    /\ stage = "renaming" /\ Len(renamed) < Len(parsed.got.definitions)
    /\ LET r == normalize_tracking(parsed.got.definitions[Len(renamed) + 1], tracked)
       IN  /\ renamed' = Append(renamed, r)
           /\ stage' = IF r.error = << >> THEN stage ELSE "refused"
    /\ UNCHANGED <<text, exported, tracked, parsed>>

Finish ==
    /\ stage = "renaming" /\ Len(renamed) = Len(parsed.got.definitions)
    /\ stage' = "renamed"
    /\ UNCHANGED <<text, exported, tracked, parsed, renamed>>

Next == Read \/ Rename \/ Finish

Spec == Init /\ [][Next]_frontEndVars

-----------------------------------------------------------------------------
(* What the parser promises. *)

HasBeenRead == stage # "text"
Accepted == HasBeenRead /\ parsed.error = "none"

\* A word is plain if no tag or digit run takes only the front of it.
IsPlain(lexeme) ==
    IsWord(lexeme) => Len(lexeme) = 1 \/ (lexeme[1] = "-" /\ lexeme[2] \in I64)
PlainText == \A i \in DOMAIN text : IsPlain(text[i])

\* An identifier between quotes is also a quoted text.
Same(t, u) ==
    LET Quotes(v) == [i \in DOMAIN v |-> IF IsQuoted(v[i]) THEN Text(v[i][2]) ELSE v[i]]
    IN  Quotes(t) = Quotes(u)

\* The text without the boundaries between the pieces of words.
Split(t) ==
    FlattenSeq([i \in DOMAIN t |-> IF IsWord(t[i]) THEN [j \in DOMAIN t[i] |-> Word(t[i][j])]
                                   ELSE <<t[i]>>])

Most(S) == CHOOSE n \in S \cup {0} : \A k \in S : k <= n

IsAtom(e) == e.op \in {"Nat", "Int", "Bool", "var"}

\* The longest chain of parenthesised nodes.
RECURSIVE Depth(_)
Depth(e) == IF IsAtom(e) THEN 0 ELSE 1 + Most({Depth(c) : c \in ToSet(e.args)})

\* The same where the body of a let is beside the let, not inside it.
RECURSIVE Nesting(_)
Nesting(e) ==
    CASE IsAtom(e) -> 0
      [] e.op = "let" -> Most({1 + Nesting(e.args[1]), Nesting(Body(e))})
      [] OTHER -> 1 + Most({Nesting(c) : c \in ToSet(e.args)})

RECURSIVE TypeNesting(_)
TypeNesting(t) ==
    IF t.type \in Atomic THEN 0 ELSE 1 + Most({TypeNesting(u) : u \in ToSet(t.of)})

IsTooLarge(m) ==
    \/ \E d \in ToSet(m.definitions) :
          \/ Depth(d.body) > MAX_EXPRESSION_DEPTH
          \/ Nesting(d.body) > MAX_RECURSIVE_DEPTH
          \/ \E t \in {d.ret} \cup {p.type : p \in ToSet(d.params)} : TypeNesting(t) > MAX_TYPE_DEPTH
    \/ \E t \in ToSet(m.types) : \E c \in ToSet(t.ctors) : \E f \in ToSet(c.fields) :
          TypeNesting(f.type) > MAX_TYPE_DEPTH

\* What is accepted is what is written: the module read and the rest left over
\* are the text again, and a module that was exported whole is read whole.  A
\* malformed part is never skipped, misread as another part or dropped
\* (parse_module, its repetitions and its options).  Of a word that begins like a
\* literal, which an atom takes apart, no piece is lost.
TextIsKept ==
    HasBeenRead =>
        /\ Accepted => Same(Split(WriteModule(parsed.got) \o parsed.rest), Split(text))
        /\ Accepted /\ PlainText => Same(WriteModule(parsed.got) \o parsed.rest, text)
        /\ PlainText /\ exported # << >> /\ ~IsTooLarge(exported[1]) =>
              Accepted /\ parsed.got = exported[1] /\ parsed.rest = << >>

\* The three budgets refuse exactly what exceeds them, whatever mix of let
\* chains, let values, operators, matches and types the depth is made of, and no
\* text, malformed or not, needs a deeper stack (parse_expr_at, parse_type_at).
BudgetsHold ==
    HasBeenRead =>
        /\ parsed.frames <= Larger(MAX_RECURSIVE_DEPTH, MAX_TYPE_DEPTH) + 1
        /\ exported # << >> /\ PlainText =>
              (parsed.error = "TooLarge" <=> IsTooLarge(exported[1]))

-----------------------------------------------------------------------------
(* What renaming promises.  An occurrence is the path to it from the root  *)
(* of the body, a binder the path to where it is bound.                    *)

Free == <<-1>>
Item == <<-2>>              \* a function or a constructor
Helper == <<-3>>            \* a temporary of the generated code
Formal(i) == <<-4, i>>
Position(i) == "parameter " \o ToString(i)

\* How names are compared: by spelling in the IR, in NFC in Rust.
Key(rust, name) == IF rust THEN collision_key(rust_local_ident(name)) ELSE name

\* In Rust some names are patterns of their own, and bind nothing.
Binds(rust, name) ==
    rust => rust_local_ident(name) \notin NotIdentifiers \cup Prelude

Extend(rust, env, names, sites) ==
    FoldLeft(LAMBDA acc, i :
               IF Binds(rust, names[i]) THEN (Key(rust, names[i]) :> sites[i]) @@ acc ELSE acc,
             env, [i \in DOMAIN names |-> i])

At(env, key, otherwise) == IF key \in DOMAIN env THEN env[key] ELSE otherwise

LabelSite(path) == path \o <<100>>
LetSite(path, e) ==
    IF e.args[1].op = "jp" /\ e.args[1].name = e.name THEN LabelSite(path \o <<1>>) ELSE path \o <<101>>
BinderSites(path, names) == [i \in DOMAIN names |-> path \o <<102, i>>]

\* What each occurrence in e means: a set of pairs <<occurrence, binder>>.
RECURSIVE Meaning(_, _, _, _, _)
Meaning(rust, e, path, env, labels) ==
    LET Sub(i, inner, joins) == Meaning(rust, e.args[i], Append(path, i), inner, joins)
        Args(inner) == UNION {Sub(i, inner, labels) : i \in DOMAIN e.args}
        inBlock == IF rust THEN [t \in Temporaries(e) |-> Helper] @@ env ELSE env
        captor == At(env, collision_key(IF e.op = "call" THEN emitted_call_name(e.name) ELSE e.name), Item)
        global == {<<path, IF rust /\ captor # Helper THEN captor ELSE Item>>}
        joins == IF e.op = "let" /\ e.args[1].op = "jp"
                   THEN Extend(rust, labels, <<e.args[1].name>>, <<LabelSite(path \o <<1>>)>>)
                   ELSE labels
    IN  CASE e.op = "var" -> {<<path, At(env, Key(rust, e.name), Free)>>}
          [] e.op = "param" -> {<<path, At(env, Position(e.index), Free)>>}
          [] e.op = "let" ->
                Sub(1, env, joins)
                  \cup Sub(2, Extend(rust, env, <<e.name>>, <<LetSite(path, e)>>), joins)
          [] e.op = "jp" ->
                Sub(1, Extend(rust, env, e.names, BinderSites(path, e.names)),
                    Extend(rust, labels, <<e.name>>, <<LabelSite(path)>>))
          [] e.op = "cases" ->
                Sub(1, env, labels)
                  \cup UNION {Sub(i + 1, Extend(rust, env, e.alts[i].binders,
                                                BinderSites(Append(path, i), e.alts[i].binders)),
                                  labels) : i \in DOMAIN e.alts}
                  \cup (IF HasDefault(e) THEN Sub(Len(e.args), env, labels) ELSE {})
          [] e.op = "jmp" -> Args(env) \cup {<<path, At(labels, Key(rust, e.name), Free)>>}
          [] e.op = "call" -> Args(env) \cup global
          [] e.op = "ctor" /\ e.name \notin Qualified \cup Declared -> Args(inBlock) \cup global
          [] OTHER -> Args(inBlock)

ParamNames(d) == [i \in DOMAIN d.params |-> d.params[i].name]

DefinitionMeaning(rust, d) ==
    LET formals == [i \in DOMAIN d.params |-> Formal(i - 1)]
        buffer == IF rust /\ FillsBuffer(d)
                    THEN [n \in {"output", "__source", "__len"} |-> Helper] ELSE << >>
        positions == [i \in DOMAIN d.params |-> Position(i - 1)]
        named == Extend(rust, buffer, ParamNames(d), formals)
    IN  Meaning(rust, d.body, << >>,
                IF rust THEN named ELSE Extend(rust, named, positions, formals), << >>)

\* The source and the result of each definition that was renamed.
Pairs == {[source |-> parsed.got.definitions[i], result |-> renamed[i]] :
            i \in {k \in DOMAIN renamed : renamed[k].error = << >>}}

\* Every occurrence means, by Rust's scoping and comparison of names, what it
\* meant by the IR's: shadowing, sibling reuse, two spellings of one identifier,
\* keywords, positional parameters and the temporaries of the generated code
\* capture no local, and no local captures a called function or a constructor
\* (Names::rewrite, bind_name).  A module whose own function is named like a
\* temporary (output, __value) is not covered: nothing keeps those apart.
BindingKept ==
    \A p \in Pairs :
        DefinitionMeaning(FALSE, p.source) = DefinitionMeaning(TRUE, p.result.definition)

\* The binders of an expression: pairs <<site, name>>.
RECURSIVE Bound(_, _)
Bound(e, path) ==
    LET sites == BinderSites(path, e.names)
    IN  (CASE e.op = "let" -> {<<LetSite(path, e), e.name>>}
           [] e.op = "jp" -> {<<LabelSite(path), e.name>>} \cup {<<sites[i], e.names[i]>> : i \in DOMAIN sites}
           [] e.op = "cases" ->
                UNION {LET names == e.alts[i].binders
                       IN  {<<BinderSites(Append(path, i), names)[j], names[j]>> : j \in DOMAIN names} :
                         i \in DOMAIN e.alts}
           [] OTHER -> {})
        \cup UNION {Bound(e.args[i], Append(path, i)) : i \in DOMAIN e.args}

AllBound(d) == Bound(d.body, << >>) \cup {<<Formal(i - 1), d.params[i].name>> : i \in DOMAIN d.params}

BinderLists(d) ==
    {ParamNames(d)} \cup UNION {{a.binders : a \in ToSet(e.alts)} : e \in Nodes(d.body)}
      \cup {e.names : e \in {n \in Nodes(d.body) : n.op = "jp"}}

\* After renaming a name is enough to tell a local: no two binders of a
\* definition are one Rust identifier, a mark follows its binder to its new name
\* and to no other, renaming again changes nothing, and only a list that binds a
\* name twice is refused.  The analyses behind this (ownership, join points, tail
\* calls) look locals up by name alone.
BindersUnique ==
    /\ \A p \in Pairs :
          LET sites == AllBound(p.source)
              bound == AllBound(p.result.definition)
          IN  /\ {b[1] : b \in bound} = {b[1] : b \in sites}
              /\ \A a, b \in bound : Key(TRUE, a[2]) = Key(TRUE, b[2]) => a = b
              /\ normalize_tracking(p.result.definition, {}).definition = p.result.definition
              /\ {b[1] : b \in {s \in sites : s[2] \in tracked}}
                   = {b[1] : b \in {s \in bound : s[2] \in p.result.tracked}}
    /\ stage = "refused" /\ Accepted =>
          \E names \in BinderLists(parsed.got.definitions[Len(renamed)]) : IsRepeated(names)
=============================================================================
