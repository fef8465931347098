-------------------------------- MODULE Roots --------------------------------
(***************************************************************************)
(* Analysis of exported proof roots (rust/prod-cli/src/roots.rs; the       *)
(* browser build has a copy of the Pareto part, rust/prod-wasm/src/lib.rs). *)
(* A root is [id, auto, dependencies, cost]; an id is the sequence of its  *)
(* components, and `cost` the triple of objectives.                        *)
(*                                                                         *)
(* `roots check` searches depth first, and one activation of               *)
(* is_acyclic_from is one step here.  The order in which the dependencies  *)
(* of a root are listed, and the roots in the file, is left open: it is no *)
(* part of what is reported.                                               *)
(***************************************************************************)
EXTENDS Naturals, Sequences, SequencesExt, Functions

CONSTANT RootFiles     \* what the root commands may be given: [roots, all]

VARIABLES
    roots,     \* the roots that were loaded and kept
    marks,     \* for each root: 0 unseen, 1 on the path, 2 finished
    path,      \* the activations of is_acyclic_from below check's own loop
    report     \* << >>, or what the command found

search == <<marks, path>>

short_name(id) == <<id[Len(id)]>>

\* A root keeps its number.
filter_roots(file, all) == Restrict(file, {i \in DOMAIN file : all \/ ~file[i].auto})

id_matches(id, query) == id = query \/ short_name(id) = query

dependency_matches_id(dependency, id) == dependency = id \/ short_name(dependency) = id

DependsOn(a, b) == \E d \in ToSet(a.dependencies) : dependency_matches_id(d, b.id)

\* The roots that a root depends on.
adjacency(i) == {j \in DOMAIN roots : DependsOn(roots[i], roots[j])}

NoRoot == 0

RootInit ==
    /\ \E f \in RootFiles : roots = filter_roots(f.roots, f.all)
    /\ marks = << >> /\ path = << >> /\ report = << >>

\* A command other than check looks once; no check is running.
Idle == report = << >> /\ path = << >>

-----------------------------------------------------------------------------
(* roots check: what an activation has still to ask is `left`. *)

Begin ==
    /\ Idle
    /\ marks' = [i \in DOMAIN roots |-> 0]
    /\ path' = <<[node |-> NoRoot, left |-> DOMAIN roots]>>
    /\ UNCHANGED <<roots, report>>

Top == path[Len(path)]

\* The activation on top of the path goes on without `next`.
Asked(next) == [path EXCEPT ![Len(path)] = [node |-> @.node, left |-> @.left \ {next}]]

\* is_acyclic_from(next) is called by the activation on top.
Calls(next) == report = << >> /\ path # << >> /\ next \in Top.left

\* match states[node] { 2 => return true }
Skip(next) ==
    /\ Calls(next) /\ marks[next] = 2
    /\ path' = Asked(next)
    /\ UNCHANGED <<roots, marks, report>>

Descend(next) ==
    /\ Calls(next) /\ marks[next] = 0
    /\ marks' = [marks EXCEPT ![next] = 1]
    /\ path' = Append(Asked(next), [node |-> next, left |-> adjacency(next)])
    /\ UNCHANGED <<roots, report>>

\* Defect: a root that was left is never marked as finished.
LeaveUnmarked ==
    /\ report = << >> /\ Len(path) > 1 /\ Top.left = {}
    /\ path' = SubSeq(path, 1, Len(path) - 1)
    /\ UNCHANGED <<roots, marks, report>>

\* Nothing below was cyclic.
Leave ==
    /\ report = << >> /\ Len(path) > 1 /\ Top.left = {}
    /\ marks' = [marks EXCEPT ![Top.node] = 2]
    /\ path' = SubSeq(path, 1, Len(path) - 1)
    /\ UNCHANGED <<roots, report>>

\* The command fails with exit code 1 unless it says that all checks passed.
CheckReport(acyclic) ==
    <<[command |-> "check",
       found |-> {roots[i].id : i \in {j \in DOMAIN roots :
                     \E k \in DOMAIN roots : k < j /\ roots[k].id = roots[j].id}},
       passed |-> acyclic /\ \A i \in DOMAIN roots : roots[i].dependencies # << >>]>>

\* match states[node] { 1 => return false }, which every activation hands on.
FindCycle(next) ==
    /\ Calls(next) /\ marks[next] = 1
    /\ report' = CheckReport(FALSE)
    /\ path' = << >>
    /\ UNCHANGED <<roots, marks>>

Pass ==
    /\ report = << >> /\ Len(path) = 1 /\ Top.left = {}
    /\ report' = CheckReport(TRUE)
    /\ path' = << >>
    /\ UNCHANGED <<roots, marks>>

CheckStep ==
    \/ Begin \/ Leave \/ Pass
    \/ \E next \in DOMAIN roots : Skip(next) \/ Descend(next) \/ FindCycle(next)

-----------------------------------------------------------------------------
dominates(a, b) ==
    /\ \A k \in 1..3 : a.cost[k] <= b.cost[k]
    /\ \E k \in 1..3 : a.cost[k] < b.cost[k]

pareto_front ==
    {i \in DOMAIN roots : ~\E j \in DOMAIN roots \ {i} : dominates(roots[j], roots[i])}

Pareto ==
    /\ Idle
    /\ report' = <<[command |-> "pareto", found |-> pareto_front, passed |-> TRUE]>>
    /\ UNCHANGED <<roots, search>>

bridges ==
    {[left |-> q[1], right |-> q[2],
      shared |-> ToSet(roots[q[1]].dependencies) \cap ToSet(roots[q[2]].dependencies)] :
        q \in {p \in (DOMAIN roots) \X (DOMAIN roots) :
            /\ p[1] < p[2]
            /\ ~DependsOn(roots[p[1]], roots[p[2]]) /\ ~DependsOn(roots[p[2]], roots[p[1]])
            /\ ToSet(roots[p[1]].dependencies) \cap ToSet(roots[p[2]].dependencies) # {}}}

\* connect with two names: either may be the left one.
Selected(a, b) ==
    {bridge \in bridges :
        LET left == roots[bridge.left].id
            right == roots[bridge.right].id
        IN  \/ id_matches(left, a) /\ id_matches(right, b)
            \/ id_matches(left, b) /\ id_matches(right, a)}

\* roots connect: all bridges, or the ones between two named roots.
Connect ==
    /\ Idle
    /\ \E found \in {bridges} \cup {Selected(roots[i].id, short_name(roots[j].id)) : i, j \in DOMAIN roots} :
          report' = <<[command |-> "connect", found |-> found, passed |-> TRUE]>>
    /\ UNCHANGED <<roots, search>>

RootNext == CheckStep \/ Pareto \/ Connect

-----------------------------------------------------------------------------
\* Roots that keep each other from ever being checked: each depends on one of
\* them.  In a finite file there are such roots exactly if one depends on itself,
\* through however long a chain.
Knot(S) == S # {} /\ \A i \in S : \E j \in S : DependsOn(roots[i], roots[j])

\* "All root checks passed." (and exit code 0) is said of exactly the files whose
\* roots all have dependencies and depend on themselves through no chain: the
\* marks that one depth-first search leaves behind neither hide a cycle from the
\* next search nor make one up (roots::check, is_acyclic_from).
CheckIsExact ==
    \A r \in Range(report) :
        r.command = "check" =>
            (r.passed <=> /\ \A i \in DOMAIN roots : roots[i].dependencies # << >>
                          /\ \A S \in SUBSET DOMAIN roots : ~Knot(S))

\* The Pareto front covers the file: every root that is left out is beaten by one
\* that is on the front, so equals do not knock each other out and no front is
\* empty (roots::pareto_front, and its copy in prod-wasm).
FrontCovers ==
    \A r \in Range(report) :
        r.command = "pareto" =>
            \A i \in (DOMAIN roots) \ r.found :
                \E j \in r.found : dominates(roots[j], roots[i])

\* A command on roots comes back with its report, also from a cyclic file.
RootCommandEnds == <>(report # << >>)

-----------------------------------------------------------------------------
(* The inductive invariant behind CheckIsExact, while a search is on. *)

Finished == {i \in DOMAIN roots : marks[i] = 2}

\* The roots on the path are those whose activations are on the stack, each of
\* them called by the one below it.
PathIsMarked ==
    /\ \A i \in DOMAIN roots : marks[i] = 1 => \E k \in 2..Len(path) : path[k].node = i
    /\ \A k \in 2..Len(path) : path[k].node \in DOMAIN roots /\ marks[path[k].node] = 1
    /\ \A k, l \in 2..Len(path) : path[k].node = path[l].node => k = l
    /\ \A k \in 3..Len(path) : path[k].node \in adjacency(path[k - 1].node)

\* What an activation has asked is finished, or is the one above it.
Work(k) == IF k = 1 THEN DOMAIN roots ELSE adjacency(path[k].node)
AskedIsDone ==
    \A k \in 1..Len(path) :
        /\ path[k].left \subseteq Work(k)
        /\ \A i \in Work(k) \ path[k].left :
              i \in Finished \/ (k < Len(path) /\ i = path[k + 1].node)

\* A finished root is in no knot.
FinishedIsFree == \A S \in SUBSET DOMAIN roots : Knot(S) => S \cap Finished = {}

Activation == [node : DOMAIN roots \cup {NoRoot}, left : SUBSET DOMAIN roots]

SearchInv ==
    /\ path \in Seq(Activation)
    /\ path # << >> =>
          marks \in [DOMAIN roots -> 0..2] /\ PathIsMarked /\ AskedIsDone /\ FinishedIsFree
=============================================================================
