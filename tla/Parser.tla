------------------------------- MODULE Parser -------------------------------
(***************************************************************************)
(* The parser of the IR (rust/prod-ir/src/parser.rs).                      *)
(*                                                                         *)
(* A text is a sequence of lexemes, each a sequence of pieces: a           *)
(* parenthesis, a quoted name, or a word, whose pieces are what the        *)
(* parser's tags and digit runs can take off its front.  Blanks and        *)
(* comments are what separates lexemes.  A parser returns the rest of the  *)
(* text and what it read, or an error: "Error" lets a repetition or an     *)
(* option stop where it was, "TooLarge" (a nom Failure) ends the parse.    *)
(* `frames` counts the activations of the recursive parser on its stack.   *)
(***************************************************************************)
EXTENDS Ir

CONSTANTS
    MAX_EXPRESSION_DEPTH, MAX_RECURSIVE_DEPTH, MAX_TYPE_DEPTH,
    U64,          \* the runs of digits that fit a u64 -> their values
    I64,          \* the runs of digits that fit an i64 after a minus sign
    U8,           \* the runs of digits that fit a byte
    Unescaped     \* the quoted texts with JSON escapes -> what they stand for

Open == <<"(">>
Close == <<")">>
Quoted(name) == <<"quote", name>>       \* an identifier between quotes
Text(written) == <<"text", written>>    \* any other quoted text, as it is written
Word(name) == <<name>>

IsQuoted(lexeme) == lexeme[1] \in {"quote", "text"}
IsWord(lexeme) == lexeme \notin {Open, Close} /\ ~IsQuoted(lexeme)
Spelling(word) == FoldLeft(LAMBDA s, piece : s \o piece, "", word)

Starts(text, lexeme) == text # << >> /\ Head(text) = lexeme
WordNext(text) == text # << >> /\ IsWord(Head(text))
QuoteNext(text) == text # << >> /\ IsQuoted(Head(text))

\* The text without the first n pieces of its first word.
Drop(text, n) ==
    (IF n = Len(Head(text)) THEN << >> ELSE <<SubSeq(Head(text), n + 1, Len(Head(text)))>>)
      \o Tail(text)

Ok(rest, got) == [error |-> "none", rest |-> rest, got |-> got, frames |-> 0]
Failed(error) == [error |-> error, rest |-> << >>, got |-> << >>, frames |-> 0]
Error == Failed("Error")
capacity_error == Failed("TooLarge")

Larger(a, b) == IF a > b THEN a ELSE b
Above(frames, r) == [r EXCEPT !.frames = Larger(@, frames)]

\* The second parser runs on what the first one left.
Then(r, Next(_)) == IF r.error = "none" THEN Above(r.frames, Next(r)) ELSE r

Expect(lexeme, r) ==
    Then(r, LAMBDA s : IF Starts(s.rest, lexeme) THEN Ok(Tail(s.rest), s.got) ELSE Error)

ident(text) == IF WordNext(text) THEN Ok(Tail(text), Spelling(Head(text))) ELSE Error

\* A free text, up to the next quote.
quoted_reason(text) == IF QuoteNext(text) THEN Ok(Tail(text), Head(text)[2]) ELSE Error

\* A JSON string.
quoted_string(text) ==
    Then(quoted_reason(text), LAMBDA raw :
        Ok(raw.rest, IF raw.got \in DOMAIN Unescaped THEN Unescaped[raw.got] ELSE raw.got))

quoted_ident(text) ==
    IF QuoteNext(text) /\ Head(text)[1] = "quote" THEN quoted_reason(text) ELSE Error

\* tag(..): a prefix of the next word.
Tag(piece, text) ==
    IF WordNext(text) /\ Head(text)[1] = piece THEN Ok(Drop(text, 1), piece) ELSE Error

RECURSIVE many_idents(_, _)
many_idents(text, got) ==
    IF WordNext(text) THEN many_idents(Tail(text), Append(got, Spelling(Head(text))))
                      ELSE Ok(text, got)

parse_binders(text) ==
    IF Starts(text, Open) THEN Expect(Close, many_idents(Tail(text), << >>)) ELSE Error

\* parse_u64, parse_i64, true, false and ident are tried in this order, each on
\* the front of the word.
Atom(text) ==
    LET word == Head(text)
    IN  CASE ~WordNext(text) -> Error
          [] WordNext(text) /\ word[1] \in DOMAIN U64 -> Ok(Drop(text, 1), Lit("Nat", word[1]))
          [] WordNext(text) /\ word[1] = "-" /\ Len(word) > 1 /\ word[2] \in I64 ->
                Ok(Drop(text, 2), Lit("Int", word[2]))
          [] WordNext(text) /\ word[1] \in {"true", "false"} ->
                Ok(Drop(text, 1), Lit("Bool", word[1]))
          [] OTHER -> Ok(Tail(text), Var(Spelling(word)))

-----------------------------------------------------------------------------
(* Types. *)

Opaque(owner) == [type |-> "opaque", owner |-> owner, of |-> << >>]

Atomic == {"Nat", "Int8", "Int16", "Int32", "Int64", "UInt8", "UInt16", "UInt32", "UInt64",
           "Int", "String", "Bytes", "Ordering", "Bool"}
DecimalTypes == {"Int8", "Int16", "Int32", "Int64", "UInt8", "UInt16", "UInt32", "UInt64", "Int"}
Arity(constructor) ==
    CASE constructor = "Result" -> 2
      [] constructor = "Tuple" -> -1          \* any number
      [] OTHER -> 1

RECURSIVE parse_type_at(_, _), parse_types(_, _, _, _)

parse_types(text, remaining, n, got) ==
    LET t == parse_type_at(text, remaining)
    IN  CASE n = 0 -> Ok(text, got)
          [] n # 0 /\ t.error = "Error" /\ n < 0 -> Above(t.frames, Ok(text, got))
          [] OTHER -> Then(t, LAMBDA r : parse_types(r.rest, remaining, n - 1, Append(got, r.got)))

\* Defect: a nested type is parsed with the budget of the type around it.
TypeBudgetUnspent(remaining) == remaining

\* saturating_sub
TypeBudget(remaining) == IF remaining = 0 THEN 0 ELSE remaining - 1

parse_type_at(text, remaining) ==
    LET constructor == Tag(Head(Tail(text))[1], Tail(text))
        parsed ==
            CASE Starts(text, Open) /\ remaining = 0 -> capacity_error
              [] text = << >> \/ text = <<Open>> -> Error
              [] ~Starts(text, Open) ->
                   IF WordNext(text) /\ Head(text)[1] \in Atomic
                     THEN Ok(Drop(text, 1), Type(Head(text)[1], << >>)) ELSE Error
              [] constructor.error # "none" -> Error
              [] constructor.got \in {"Option", "Result", "Vec", "List", "Tuple"} ->
                   Expect(Close, Then(constructor, LAMBDA c :
                       Then(parse_types(c.rest, TypeBudget(remaining), Arity(c.got), << >>),
                            LAMBDA r : Ok(r.rest, Type(c.got, r.got)))))
              [] constructor.got \in {"named", "opaque"} ->
                   Expect(Close, Then(constructor, LAMBDA c :
                       Then(quoted_ident(c.rest), LAMBDA r :
                            Ok(r.rest, IF c.got = "named" THEN Named(r.got) ELSE Opaque(r.got)))))
              [] OTHER -> Error
    IN  [parsed EXCEPT !.frames = @ + 1]

parse_type(text) == parse_type_at(text, MAX_TYPE_DEPTH)

-----------------------------------------------------------------------------
(* Expressions. *)

parse_let_prefix(text) == Len(text) >= 2 /\ text[1] = Open /\ text[2] = Word("let")

\* Defect: the first binding of a chain ends up innermost.
BindingsForward(bindings, body) ==
    FoldLeft(LAMBDA inner, b : Let(b[1], b[2], inner), body, bindings)

Bindings(bindings, body) ==
    FoldRight(LAMBDA b, inner : Let(b[1], b[2], inner), bindings, body)

\* One closing parenthesis for each let of the spine.
RECURSIVE CloseSpine(_, _)
CloseSpine(bindings, r) ==
    IF bindings = << >> THEN r ELSE CloseSpine(Tail(bindings), Expect(Close, r))

RECURSIVE parse_expr_at(_, _, _), parse_spine(_, _, _, _), parse_paren_expr(_, _, _),
          parse_exprs(_, _, _, _, _), parse_alts(_, _, _, _)

\* n children, or as many as there are when n is negative (many0).
parse_exprs(text, depth, recursion, n, got) ==
    IF n = 0 THEN Ok(text, got)
    ELSE LET c == parse_expr_at(text, depth, recursion)
         IN  IF c.error = "Error" /\ n < 0
               THEN Above(c.frames, Ok(text, got))
               ELSE Then(c, LAMBDA r :
                        parse_exprs(r.rest, depth, recursion, n - 1, Append(got, r.got)))

parse_alt(text, depth, recursion) ==
    IF Starts(text, Open)
      THEN Expect(Close, Then(Tag("alt", Tail(text)), LAMBDA k :
               Then(quoted_ident(k.rest), LAMBDA ctor :
               Then(parse_binders(ctor.rest), LAMBDA binders :
               Then(parse_expr_at(binders.rest, depth, recursion), LAMBDA body :
               Ok(body.rest, [alt |-> Alt(ctor.got, binders.got), body |-> body.got]))))))
      ELSE Error

parse_alts(text, depth, recursion, got) ==
    LET a == parse_alt(text, depth, recursion)
    IN  IF a.error = "Error"
          THEN Above(a.frames, Ok(text, got))
          ELSE Then(a, LAMBDA r : parse_alts(r.rest, depth, recursion, Append(got, r.got)))

\* opt(parse_default): no body or one.
parse_default(text, depth, recursion) ==
    LET d == IF Starts(text, Open)
               THEN Expect(Close, Then(Tag("default", Tail(text)), LAMBDA k :
                        parse_expr_at(k.rest, depth, recursion)))
               ELSE Error
    IN  IF d.error = "Error" THEN Above(d.frames, Ok(text, << >>))
                             ELSE Then(d, LAMBDA r : Ok(r.rest, <<r.got>>))

parse_cases(text, depth, recursion) ==
    Then(parse_expr_at(text, depth, recursion), LAMBDA scrutinee :
    Then(parse_alts(scrutinee.rest, depth, recursion, << >>), LAMBDA alts :
    Then(parse_default(alts.rest, depth, recursion), LAMBDA default :
        Ok(default.rest,
           Match(scrutinee.got, [i \in DOMAIN alts.got |-> alts.got[i].alt],
                 [i \in DOMAIN alts.got |-> alts.got[i].body] \o default.got)))))

parse_decimal_type(text) ==
    Then(ident(text), LAMBDA name : IF name.got \in DecimalTypes THEN name ELSE Error)

RECURSIVE parse_bytes(_, _)
parse_bytes(text, bytes) ==
    IF WordNext(text) /\ Head(text)[1] \in U8
      THEN parse_bytes(Drop(text, 1), Append(bytes, Head(text)[1]))
      ELSE Ok(text, [Lit("Bytes", "") EXCEPT !.names = bytes])

Operands(operator) ==
    CASE operator \in Unary -> 1 [] operator \in Binary -> 2 [] operator \in Ternary -> 3

\* What follows the operator, up to the closing parenthesis.
parse_operands(operator, text, depth, recursion) ==
    LET Named_(name, n) ==
            Then(name, LAMBDA s :
            Then(parse_exprs(s.rest, depth, recursion, n, << >>), LAMBDA r :
            Ok(r.rest, Node(operator, s.got, r.got))))
    IN  CASE operator \in Unary \cup Binary \cup Ternary ->
               Then(parse_exprs(text, depth, recursion, Operands(operator), << >>), LAMBDA r :
               Ok(r.rest, Node(operator, "", r.got)))
          [] operator = "param" ->
               IF WordNext(text) /\ Head(text)[1] \in DOMAIN U64
                 THEN Ok(Drop(text, 1), Param(U64[Head(text)[1]])) ELSE Error
          [] operator \in {"call", "jmp"} -> Named_(ident(text), -1)
          [] operator \in {"ctor", "extern"} -> Named_(quoted_ident(text), -1)
          [] operator = "cases" -> parse_cases(text, depth, recursion)
          [] operator = "proj" ->
               Then(quoted_ident(text), LAMBDA owner :
               Then(quoted_ident(owner.rest), LAMBDA field :
               Then(parse_expr_at(field.rest, depth, recursion), LAMBDA value :
               Ok(value.rest, Proj(owner.got, field.got, value.got)))))
          [] operator = "jp" ->
               Then(ident(text), LAMBDA name :
               Then(parse_binders(name.rest), LAMBDA params :
               Then(parse_expr_at(params.rest, depth, recursion), LAMBDA body :
               Ok(body.rest, Jp(name.got, params.got, body.got)))))
          [] operator = "unreachable" -> Ok(text, Node("unreachable", "", << >>))
          [] operator = "parse-decimal-as" ->
               Then(parse_decimal_type(text), LAMBDA target : Named_(target, 1))
          [] operator = "opaque" ->
               Then(quoted_ident(text), LAMBDA s : Ok(s.rest, Node("opaque", s.got, << >>)))
          [] operator = "string" ->
               Then(quoted_string(text), LAMBDA s : Ok(s.rest, Lit("String", s.got)))
          [] operator = "bytes" -> parse_bytes(text, << >>)
          [] OTHER -> Error

\* The operator is the whole next word.
parse_paren_expr(text, depth, recursion) ==
    Expect(Close, Then(ident(Tail(text)), LAMBDA operator :
        parse_operands(operator.got, operator.rest, depth, recursion)))

\* The loop over a chain of lets: each spends depth, and its value also spends
\* recursion, but the body of a let is not a recursive call.
parse_spine(text, depth, recursion, bindings) ==
    CASE Starts(text, Open) /\ (depth = 0 \/ recursion = 0) -> capacity_error
      [] parse_let_prefix(text) /\ depth > 0 /\ recursion > 0 ->
            Then(ident(Tail(Tail(text))), LAMBDA name :
            Then(parse_expr_at(name.rest, depth - 1, recursion - 1), LAMBDA value :
            parse_spine(value.rest, depth - 1, recursion, Append(bindings, <<name.got, value.got>>))))
      [] OTHER ->
            Then(CloseSpine(bindings, IF Starts(text, Open)
                    THEN parse_paren_expr(text, depth - 1, recursion - 1) ELSE Atom(text)),
                 LAMBDA r : Ok(r.rest, Bindings(bindings, r.got)))

parse_expr_at(text, depth, recursion) ==
    LET r == parse_spine(text, depth, recursion, << >>) IN [r EXCEPT !.frames = @ + 1]

parse_expr(text) == parse_expr_at(text, MAX_EXPRESSION_DEPTH, MAX_RECURSIVE_DEPTH)

-----------------------------------------------------------------------------
(* Declarations. *)

\* (name Type): a field of a constructor, a parameter of a definition.
parse_field(text) ==
    IF Starts(text, Open)
      THEN Expect(Close, Then(ident(Tail(text)), LAMBDA name :
               Then(parse_type(name.rest), LAMBDA type :
               Ok(type.rest, [name |-> name.got, type |-> type.got]))))
      ELSE Error

RECURSIVE parse_many(_, _, _)

parse_ctor_decl(text) ==
    IF Starts(text, Open)
      THEN Expect(Close, Then(Tag("ctor", Tail(text)), LAMBDA k :
               Then(quoted_ident(k.rest), LAMBDA name :
               Then(parse_many("field", name.rest, << >>), LAMBDA fields :
               Ok(fields.rest, [name |-> name.got, fields |-> fields.got])))))
      ELSE Error

\* opt(parse_unsupported): no reason or one.
parse_unsupported(text) ==
    LET reason == IF Starts(text, Open)
                    THEN Expect(Close, Then(Tag("unsupported", Tail(text)), LAMBDA k :
                             quoted_reason(k.rest)))
                    ELSE Error
    IN  IF reason.error = "Error" THEN Ok(text, << >>) ELSE Ok(reason.rest, <<reason.got>>)

parse_type_decl(text) ==
    IF Starts(text, Open)
      THEN Expect(Close, Then(Tag("type", Tail(text)), LAMBDA k :
               Then(quoted_ident(k.rest), LAMBDA name :
               Then(parse_unsupported(name.rest), LAMBDA unsupported :
               Then(parse_many("ctor", unsupported.rest, << >>), LAMBDA ctors :
               Ok(ctors.rest, [name |-> name.got, unsupported |-> unsupported.got,
                               ctors |-> ctors.got]))))))
      ELSE Error

parse_definition(text) ==
    IF Starts(text, Open)
      THEN Expect(Close, Then(Tag("def", Tail(text)), LAMBDA k :
               Then(ident(k.rest), LAMBDA name :
               Then(Expect(Close, IF Starts(name.rest, Open)
                        THEN parse_many("field", Tail(name.rest), << >>) ELSE Error), LAMBDA params :
               Then(parse_type(params.rest), LAMBDA ret :
               Then(parse_expr(ret.rest), LAMBDA body :
               Ok(body.rest, [name |-> name.got, params |-> params.got, ret |-> ret.got,
                              body |-> body.got])))))))
      ELSE Error

parse_many(kind, text, got) ==
    LET item == CASE kind = "field" -> parse_field(text)
                  [] kind = "ctor" -> parse_ctor_decl(text)
                  [] kind = "type" -> parse_type_decl(text)
                  [] kind = "def" -> parse_definition(text)
    IN  IF item.error = "Error"
          THEN Above(item.frames, Ok(text, got))
          ELSE Then(item, LAMBDA r : parse_many(kind, r.rest, Append(got, r.got)))

parse_module(text) ==
    IF Starts(text, Open)
      THEN Expect(Close, Then(Tag("module", Tail(text)), LAMBDA k :
               Then(ident(k.rest), LAMBDA name :
               Then(parse_many("type", name.rest, << >>), LAMBDA types :
               Then(parse_many("def", types.rest, << >>), LAMBDA definitions :
               Ok(definitions.rest, [name |-> name.got, types |-> types.got,
                                     definitions |-> definitions.got]))))))
      ELSE Error
=============================================================================
