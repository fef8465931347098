----------------------------- MODULE JoinMeaning -----------------------------
(***************************************************************************)
(* What the bodies of JoinExpansion compute: the reference for expansion.  *)
(*                                                                         *)
(* Names are unique in the source (naming::normalize_definition ran).      *)
(***************************************************************************)
EXTENDS JoinExpansion, SequencesExt

CONSTANT Inputs        \* values of the condition the branches test

(* A body has a value and, because each operation may fail, the operations *)
(* in the order they are evaluated.  A jump evaluates its arguments from   *)
(* left to right and then the continuation, in the scope of its            *)
(* declaration; a continuation nobody jumps to stands for its body.        *)

Unbound == <<"unbound">>
Lookup(env, name) == IF name \in DOMAIN env THEN env[name] ELSE Unbound
Extend(env, names, values) ==
    [n \in DOMAIN env \cup ToSet(names) |->
        IF n \in ToSet(names) THEN values[CHOOSE i \in DOMAIN names : names[i] = n] ELSE env[n]]
Outcome(value, trace) == [value |-> value, trace |-> trace]

RECURSIVE Eval(_, _, _, _)
Eval(e, env, joins, whole) ==
    LET args == [i \in DOMAIN e.args |-> Eval(e.args[i], env, joins, whole)]
        values == [i \in DOMAIN e.args |-> args[i].value]
        traces == FlattenSeq([i \in DOMAIN e.args |-> args[i].trace])
    IN  CASE e.op = "var" -> Outcome(Lookup(env, e.name), << >>)
          [] e.op = "operation" /\ e # Unit ->
               Outcome(<<e.name, values>>, traces \o <<e.name>>)
          [] e = Unit -> Outcome(<<"unit">>, << >>)
          [] e.op = "branch" ->
               LET on == Eval(e.args[1], env, joins, whole)
                   out == Eval(e.args[on.value + 1], env, joins, whole)
               IN  Outcome(out.value, on.trace \o out.trace)
          [] e.op = "let" ->
               LET bound == e.args[1]
                   value == Eval(bound, env, joins, whole)
                   inner == IF bound.op = "jp"
                              THEN Extend(joins, <<bound.name>>,
                                          <<[code |-> bound, env |-> env, joins |-> joins]>>)
                              ELSE joins
                   out == Eval(e.args[2], Extend(env, <<e.name>>, <<value.value>>), inner, whole)
               IN  Outcome(out.value, value.trace \o out.trace)
          [] e.op = "jp" ->
               IF HasJumps(whole, e.name)
                 THEN Outcome(<<"unit">>, << >>)
                 ELSE Eval(e.args[1], env, joins, whole)
          [] e.op = "jmp" ->
               LET to == joins[e.name]
                   out == Eval(to.code.args[1], Extend(to.env, to.code.names, values), to.joins, whole)
               IN  Outcome(out.value, traces \o out.trace)

Meaning(e, input) == Eval(e, [n \in {"condition"} |-> input], [n \in {} |-> n], e)

\* Every jump is in the scope of its declaration.
RECURSIVE InScope(_, _)
InScope(e, names) ==
    /\ e.op = "jmp" => e.name \in names
    /\ IF e.op = "let" /\ e.args[1].op = "jp"
         THEN InScope(e.args[1], names) /\ InScope(e.args[2], names \cup {e.args[1].name})
         ELSE \A c \in ToSet(e.args) : InScope(c, names)

\* Compaction and expansion keep the value and the order in which operations are
\* evaluated, hence the error that comes first.
MeaningKept ==
    phase \in {"expanding", "Some"} /\ InScope(source, {}) =>
        \A input \in Inputs : Meaning(body, input) = Meaning(source, input)
=============================================================================
