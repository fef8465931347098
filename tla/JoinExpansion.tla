--------------------------- MODULE JoinExpansion ---------------------------
(***************************************************************************)
(* Expansion of join points before a definition is rendered                *)
(* (rust/prod-codegen/src/joins.rs, JpContext in lib.rs).  A join point is *)
(* a continuation several branches jump to; expansion copies its body to   *)
(* each jump.  Its cost is computed first, and a definition that is too    *)
(* large is compacted: branches that all jump to one continuation become   *)
(* one jump whose argument is chosen by the branches.                      *)
(*                                                                         *)
(* The functions of the code over expressions are recursive functions here *)
(* too, so that they can be proved about; the proof system does not see a  *)
(* recursion inside CASE, so their cases are conditionals.                 *)
(***************************************************************************)
EXTENDS Naturals, Sequences, FiniteSets

CONSTANTS
    Names,          \* of variables, operations and join points
    MAX_NODES,
    MAX_DEPTH

-----------------------------------------------------------------------------
(* Expressions.  `args` are the subexpressions in source order: the value  *)
(* of a let and its body; the condition of a branch (an if or a match) and *)
(* its alternatives; the body of a join point, whose parameters are        *)
(* `names`; the arguments of a jump or of an operation, which stands for   *)
(* every other node with children.                                         *)

Node(op, name, names, args) == [op |-> op, name |-> name, names |-> names, args |-> args]

Var(name) == Node("var", name, << >>, << >>)
Operation(name, args) == Node("operation", name, << >>, args)
Let(name, value, body) == Node("let", name, << >>, <<value, body>>)
Branch(on, alts) == Node("branch", "", << >>, <<on>> \o alts)
Jp(name, params, body) == Node("jp", name, params, <<body>>)
Jmp(name, args) == Node("jmp", name, << >>, args)
Unit == Operation("Prod.mk", << >>)

Operators == {"var", "operation", "let", "branch", "jp", "jmp"}

Shaped(e) ==
    /\ e.op = "let" => Len(e.args) = 2
    /\ e.op = "jp" => Len(e.args) = 1
    /\ e.op = "branch" => Len(e.args) >= 1

\* The expressions whose longest path has n edges at most.
Level[n \in Nat] ==
    LET children == IF n = 0 THEN {} ELSE Level[n - 1]
    IN  {e \in [op: Operators, name: Names, names: Seq(Names), args: Seq(children)] : Shaped(e)}

\* The parser's MAX_EXPRESSION_DEPTH is far below MAX_NODES, and what has at most
\* MAX_NODES nodes has no longer path.
Expressions == Level[MAX_NODES]

\* The sequence itself.  TLC evaluates its elements here and not at each use.
Evaluated(s) == << >> \o s

Larger(a, b) == IF a > b THEN a ELSE b
Latest(S) == CHOOSE i \in S : \A j \in S : j <= i

Sum(numbers) ==
    LET total[i \in 0..Len(numbers)] == IF i = 0 THEN 0 ELSE total[i - 1] + numbers[i]
    IN  total[Len(numbers)]

Nodes[e \in Expressions] == 1 + Sum(Evaluated([i \in DOMAIN e.args |-> Nodes[e.args[i]]]))

-----------------------------------------------------------------------------
(* JpContext: the declarations of a body by their name, of two with the    *)
(* same name the one walked last; and its jumps, with how many arguments   *)
(* they have.                                                              *)

declared[e \in Expressions] ==
    (IF e.op = "jp" THEN {e.name} ELSE {}) \cup UNION {declared[e.args[i]] : i \in DOMAIN e.args}

declaration[e \in Expressions] ==
    [name \in Names |->
        LET found == {i \in DOMAIN e.args : name \in declared[e.args[i]]}
        IN  IF found = {} THEN e ELSE declaration[e.args[Latest(found)]][name]]

jumps[e \in Expressions] ==
    (IF e.op = "jmp" THEN {<<e.name, Len(e.args)>>} ELSE {})
      \cup UNION {jumps[e.args[i]] : i \in DOMAIN e.args}

HasJumps(e, name) == \E j \in jumps[e] : j[1] = name

Params(e, name) == declaration[e][name].names
Continuation(e, name) == declaration[e][name].args[1]

IsCyclic(e) == \E name \in declared[e] : HasJumps(Continuation(e, name), name)

validate_jumps(e) ==
    \A j \in jumps[e] : j[1] \in declared[e] /\ Len(Params(e, j[1])) = j[2]

-----------------------------------------------------------------------------
(* The cost of the expansion, or the error met first.  The memo of the     *)
(* code holds values of this function and is left out.                     *)

Measured(nodes, depth) == [error |-> "none", nodes |-> nodes, depth |-> depth]
Failed(error) == [error |-> error, nodes |-> 0, depth |-> 0]

\* Defect: a limit that is met exactly is refused.
AddBelow(left, right) ==
    CASE left.error # "none" -> left
      [] left.error = "none" /\ right.error # "none" -> right
      [] OTHER ->
           IF left.nodes + right.nodes >= MAX_NODES \/ Larger(left.depth, right.depth) > MAX_DEPTH
             THEN Failed("JoinExpansionLimit")
             ELSE Measured(left.nodes + right.nodes, Larger(left.depth, right.depth))

Add(left, right) ==
    CASE left.error # "none" -> left
      [] left.error = "none" /\ right.error # "none" -> right
      [] OTHER ->
           IF left.nodes + right.nodes > MAX_NODES \/ Larger(left.depth, right.depth) > MAX_DEPTH
             THEN Failed("JoinExpansionLimit")
             ELSE Measured(left.nodes + right.nodes, Larger(left.depth, right.depth))

AddAll(start, costs) ==
    LET total[i \in 0..Len(costs)] == IF i = 0 THEN start ELSE Add(total[i - 1], costs[i])
    IN  total[Len(costs)]

Jump(body, params) == Add([body EXCEPT !.depth = @ + 1], Measured(Len(params), 0))

\* In the context of a whole body, inside the continuations `active`.
cost(whole) ==
    LET costOf[active \in SUBSET declared[whole]] == [e \in Expressions |->
            LET args == Evaluated([i \in DOMAIN e.args |-> costOf[active][e.args[i]]])
            IN  IF e.op = "jmp" /\ e.name \in declared[whole]
                  THEN IF Len(Params(whole, e.name)) # Len(e.args) \/ e.name \in active
                         THEN Failed("UnsupportedJoinPoint")
                       ELSE IF Cardinality(active) >= MAX_DEPTH
                         THEN Failed("JoinExpansionLimit")
                         ELSE AddAll(Jump(costOf[active \cup {e.name}][Continuation(whole, e.name)],
                                          Params(whole, e.name)), args)
                ELSE IF e.op = "jp"
                  THEN IF HasJumps(whole, e.name) THEN Measured(1, 0) ELSE args[1]
                  ELSE AddAll(Measured(1, 0), args)]
    IN  costOf

-----------------------------------------------------------------------------
(* Compaction. *)

Alternatives(e) == 2..Len(e.args)

\* The one continuation every branch ends in with one argument, if there is one.
tail_destination[e \in Expressions] ==
    IF e.op = "jmp" /\ Len(e.args) = 1 THEN {e.name}
    ELSE IF e.op = "let" THEN tail_destination[e.args[2]]
    ELSE IF e.op = "branch"
      THEN {name \in UNION {tail_destination[e.args[i]] : i \in Alternatives(e)} :
               \A i \in Alternatives(e) : tail_destination[e.args[i]] = {name}}
    ELSE {}

take_tail_arguments[e \in Expressions] ==
    IF e.op = "jmp" /\ Len(e.args) = 1 THEN e.args[1]
    ELSE IF e.op \in {"let", "branch"}
      THEN [e EXCEPT !.args = [i \in DOMAIN @ |-> IF i = 1 THEN @[i] ELSE take_tail_arguments[@[i]]]]
    ELSE e

Factor(e, available) ==
    IF e.op = "branch" /\ tail_destination[e] \cap available # {}
      THEN Jmp(CHOOSE name \in tail_destination[e] : TRUE, <<take_tail_arguments[e]>>)
      ELSE e

\* Of what is at the tail or not, where some continuations are available.
factor_tail_diamonds[e \in Expressions] == [available \in SUBSET Names |-> [tail \in BOOLEAN |->
    LET Available(i) ==
            IF e.op = "let" /\ i = 2 /\ e.args[1].op = "jp"
              THEN available \cup {e.args[1].name} ELSE available
        InTail(i) == e.op = "jp" \/ (e.op \in {"let", "branch"} /\ i > 1 /\ tail)
        factored ==
            [e EXCEPT !.args =
                [i \in DOMAIN @ |-> factor_tail_diamonds[@[i]][Available(i)][InTail(i)]]]
    IN  IF tail THEN Factor(factored, available) ELSE factored]]

-----------------------------------------------------------------------------
(* Expansion. *)

\* Defect: the arguments are bound in reverse, so that the last is evaluated first.
BindReversed(params, args, body) ==
    LET bound[i \in 0..Len(params)] ==
            IF i = 0 THEN body ELSE Let(params[i], args[i], bound[i - 1])
    IN  bound[Len(params)]

\* The first argument is bound outermost.
Bind(params, args, body) ==
    LET n == Len(params)
        bound[i \in 0..n] ==
            IF i = 0 THEN body ELSE Let(params[n - i + 1], args[n - i + 1], bound[i - 1])
    IN  bound[n]

\* What is in error stays as it is; cost has ruled that out.
expression(whole) ==
    LET expanded[active \in SUBSET declared[whole]] == [e \in Expressions |->
            LET args == Evaluated([i \in DOMAIN e.args |-> expanded[active][e.args[i]]])
            IN  IF e.op = "jmp" /\ e.name \in declared[whole]
                  THEN IF Len(Params(whole, e.name)) # Len(e.args) \/ e.name \in active
                         THEN e
                         ELSE Bind(Params(whole, e.name), args,
                                   expanded[active \cup {e.name}][Continuation(whole, e.name)])
                ELSE IF e.op = "jp"
                  THEN IF HasJumps(whole, e.name) THEN Unit ELSE args[1]
                  ELSE [e EXCEPT !.args = args]]
    IN  expanded

-----------------------------------------------------------------------------
(* expand. *)

VARIABLES
    source,       \* the definition's body, never modified
    body,         \* the working copy
    compacted,    \* the fallback has been taken
    phase         \* "checking", "measuring", "expanding", or the outcome

vars == <<source, body, compacted, phase>>

Init(definition) ==
    /\ source = definition
    /\ body = definition
    /\ compacted = FALSE
    /\ phase = "checking"

NoJoins ==
    /\ phase = "checking" /\ declared[body] = {}
    /\ phase' = "None"
    /\ UNCHANGED <<source, body, compacted>>

Valid == ~IsCyclic(body) /\ validate_jumps(body)

CheckPasses ==
    /\ phase = "checking" /\ declared[body] # {} /\ Valid
    /\ phase' = "measuring"
    /\ UNCHANGED <<source, body, compacted>>

CheckFails ==
    /\ phase = "checking" /\ declared[body] # {} /\ ~Valid
    /\ phase' = "UnsupportedJoinPoint"
    /\ UNCHANGED <<source, body, compacted>>

Cost == cost(body)[{}][body]

Measure ==
    /\ phase = "measuring"
    /\ Cost.error # "JoinExpansionLimit" \/ compacted
    /\ phase' = IF Cost.error = "none" THEN "expanding" ELSE Cost.error
    /\ UNCHANGED <<source, body, compacted>>

\* The fallback works on a copy, whose size is bounded as well.
Compact ==
    /\ phase = "measuring"
    /\ Cost.error = "JoinExpansionLimit" /\ ~compacted
    /\ Nodes[body] <= MAX_NODES
    /\ body' = factor_tail_diamonds[body][{}][TRUE]
    /\ compacted' = TRUE
    /\ phase' = "checking"
    /\ UNCHANGED source

CompactRefused ==
    /\ phase = "measuring"
    /\ Cost.error = "JoinExpansionLimit" /\ ~compacted
    /\ Nodes[body] > MAX_NODES
    /\ phase' = "JoinExpansionLimit"
    /\ UNCHANGED <<source, body, compacted>>

Expand ==
    /\ phase = "expanding"
    /\ body' = expression(body)[{}][body]
    /\ phase' = "Some"
    /\ UNCHANGED <<source, compacted>>

Next ==
    \/ NoJoins \/ CheckPasses \/ CheckFails
    \/ Measure \/ Compact \/ CompactRefused \/ Expand

-----------------------------------------------------------------------------
(* What admission promises. *)

\* The continuations that one continuation, or one it leads to, jumps to.
Targets(e, name) == {j[1] : j \in jumps[Continuation(e, name)]} \cap declared[e]
LeadsTo(e, name) ==
    {m \in declared[e] : \A S \in SUBSET declared[e] :
        Targets(e, name) \subseteq S /\ (\A k \in S : Targets(e, k) \subseteq S) => m \in S}

Sound(e) == validate_jumps(e) /\ \A name \in declared[e] : name \notin LeadsTo(e, name)

Highest(numbers) ==
    LET top[i \in 0..Len(numbers)] == IF i = 0 THEN 0 ELSE Larger(top[i - 1], numbers[i])
    IN  top[Len(numbers)]

\* How deep the continuations that run in one another's bodies are nested.
Nesting(whole) ==
    LET nesting[active \in SUBSET declared[whole]] == [e \in Expressions |->
            LET below == Highest(Evaluated([i \in DOMAIN e.args |-> nesting[active][e.args[i]]]))
            IN  IF e.op = "jmp" /\ e.name \in declared[whole] \ active
                  THEN Larger(1 + nesting[active \cup {e.name}][Continuation(whole, e.name)], below)
                ELSE IF e.op = "jp" /\ HasJumps(whole, e.name) THEN 0
                ELSE below]
    IN  nesting

Fits(e) == e \in Expressions /\ Nodes[e] <= MAX_NODES

\* A definition is refused as unsupported only for a jump that goes nowhere, one
\* with the wrong number of arguments, or a cycle; a sound one is refused for its
\* size only if its expansion is too large or too deep even after compaction: a
\* limit met exactly is within it.  What is admitted is within the limit once it
\* has been expanded, the size having been counted before anything is copied, and
\* no jump and no join point is left in it for the renderer.
AdmissionIsExact ==
    /\ phase = "Some" => Fits(body) /\ declared[body] = {} /\ jumps[body] = {}
    /\ phase = "UnsupportedJoinPoint" => ~Sound(source)
    /\ phase = "JoinExpansionLimit" /\ Sound(source) =>
          \/ ~Fits(expression(body)[{}][body]) \/ Nodes[source] > MAX_NODES
          \/ Nesting(body)[{}][body] > MAX_DEPTH
=============================================================================
