----------------------- MODULE MCGenerateDefinition -----------------------
(***************************************************************************)
(* Expansion: bodies with up to three continuations, two declared in       *)
(* sequence, one inside a branch.  They are shared, chained, mutually      *)
(* cyclic, dead, out of scope or jumped to with the wrong number of        *)
(* arguments.                                                              *)
(*                                                                         *)
(* Tail calls: every body of up to two self calls over two parameters.     *)
(* What a computed argument evaluates to records the call, the position    *)
(* and all formals, so that a value that went astray is noticed.           *)
(***************************************************************************)
EXTENDS GenerateDefinition

CONSTANT Inputs

Rendered == INSTANCE JoinMeaning WITH phase <- expansion

\* What is rendered computes what the body with its join points computes, with
\* the same operations in the same order.
MeaningKept == Rendered!MeaningKept

MCNames == STRING
MCCompute(position, env) == <<position, env>>
MCInitial == [i \in 1..P |-> <<<<0, i>>, << >>>>]

Condition == Joins!Var("condition")
Step(name) == Joins!Operation(name, << >>)

\* How a body with parameter p may end; n is the number of k1's parameters.
Jump1(p, n) == Joins!Jmp("k1", SubSeq(<<Joins!Operation("g", <<Joins!Var(p)>>), Step("h")>>, 1, n))
Jump2(p) == Joins!Jmp("k2", <<Joins!Operation("g", <<Joins!Var(p)>>)>>)
Ends(p, n) == {Joins!Operation("f", <<Joins!Var(p)>>), Jump1(p, n), Jump2(p)}
\* A large body, of which two copies exceed the limit.
Wide(p) == Joins!Operation("f", [i \in 1..6 |-> Joins!Var(p)])
Diamonds(p, n) == {Joins!Branch(Condition, <<y, x>>) : y, x \in Ends(p, n)}

\* A continuation declared inside a branch, which may use the outer ones.
Inner(n) ==
    {Joins!Branch(Condition,
        <<Joins!Let("k3", Joins!Jp("k3", <<"p3">>, b),
            Joins!Branch(Condition, <<Joins!Jmp("k3", <<Step("g")>>), e>>)), d>>) :
        b \in Ends("p3", n), d \in Ends("x0", n),
        e \in {Jump1("x0", n), Jump2("x0"), Joins!Jmp("k3", <<Step("h")>>), Joins!Jmp("k3", << >>)}}

Tops(n) ==
    Ends("x0", n) \cup Diamonds("x0", n) \cup Inner(n)
      \cup {Joins!Let("x0", Step("h"), Jump2("x0")), Joins!Jmp("k4", << >>)}

Body(n, b1, b2, top) ==
    Joins!Let("k1", Joins!Jp("k1", SubSeq(<<"p1", "q1">>, 1, n), b1),
        Joins!Let("k2", Joins!Jp("k2", <<"p2">>, b2), top))

MCBodies ==
    UNION {{Body(n, b1, b2, top) :
              b1 \in Ends("p1", n) \cup {Wide("p1")}, b2 \in Ends("p2", n) \cup Diamonds("p2", n),
              top \in Tops(n)} : n \in 1..2}
      \cup {Step("f")}

MCDefinitions ==
    [body: MCBodies, calls: {<< >>}, borrowed: {[i \in Params |-> FALSE]},
     loopable: {TRUE}]
      \cup [body: {Step("f")}, calls: UNION {[1..n -> SelfCall] : n \in 0..MaxSelfCalls},
            borrowed: [Params -> BOOLEAN], loopable: BOOLEAN]
=============================================================================
