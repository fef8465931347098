# A TLA+ model of lean4-prod

lean4-prod turns executable Lean 4 definitions into Rust without an allocator or
a panic on caller input, and packages the result as a crate, a core-Wasm guest or
a browser view. This directory models the parts of it that have state or an
algorithm that can go wrong, checks them with TLC on small instances, and
proves the central properties with TLAPS for every value of the constants.

`PROJECT.json` is the machine-readable index: components, runs, the source
lines of every definition, one mutant per property, findings, hazards and
theorems. Paths below are relative to the repository's root.

## 1. The system

```
Lean project --prod-export--> IR (s-expressions), roots.json, coverage
     |                          |
     |                   prod-ir parser
     |                          |
     |       prod-codegen: type decls, signatures, joins, tail calls,
     |       ownership, naming, rendering  --> Rust source
     |                          |
     |      +----------+--------+-----------+---------------+
     |   prod-macros  prod cargo  prod core-wasm  prod view / workspace view
     |                  (publish_generated_package)       |
     |                                             pages and loader in the browser
     +--- proof roots --> prod roots / prod-wasm analysis
```

The contract that everything serves: generated Rust computes what the Lean
definition computes, or returns a declared `ComputeError`; it does not panic
and does not allocate. Around the compiler stand a host runtime
(`prod-runtime`), a guest runtime (in `core_wasm.rs`), the CLI's publication
of packages, and the scripts of the generated pages.

### Inventory

| component | state it keeps | operations | what is hard | module |
|---|---|---|---|---|
| `prod-runtime` `parallel_map` | output slice, thread handles, first failure | check, spawn, work, join, unwind | threads on one slice; schedule-independent error; spawn that fails half way; panics | `ParallelMap`, `MapPromise` |
| core-Wasm guest | bump pointer, page count, blocks handed out | `holo_alloc`, `run`, allocation by the entry function | rounding, growth at the page limit, `usize` to `i32`, overlap of input and output | `CoreWasmGuest` |
| package publication | staging directory, output directory | check, draw a name, create, write, rename, clean up | concurrent processes, kills, check-then-rename | `PublishPackage`, `PublishPromise` |
| `prod gen`, `header`, `sdk`, `sdks` | output directory, a temporary directory under a clock reading | write in place; stage, build, inspect, replace, copy | two processes in one temporary directory, old output removed before the new one is there | `WasmSdk` |
| root commands (`roots.rs`, copy in `prod-wasm`) | graph, marks of the searches | check, Pareto front, bridges | marks shared by searches; short names that match several roots | `Roots` |
| workspace view loader | `WeakSet` of roots, page children, timer, blob URLs | `mount`, `load`, `verified`, `close` | awaits between check and use, timeout, cleanup on every path | `WorkspaceMount` |
| view pages | busy flag, status line, outstanding calls | submit, initialization, `invoke`, bounded reading | late answers, double submits, messages erased by initialization | `ViewSession` |
| `prod-ir` parser | rest of the text, three budgets | one parser per form | budgets spent along chains and along nesting; words read by their prefix | `Ir`, `Parser` |
| name normalisation | scopes, used, protected and reserved names | `rewrite`, `bind`, tracking | capture, two spellings of one identifier, temporaries of the emitted code | `Naming` |
| signatures and module emission | shape table, loop state | `signatures`, `is_fallible`, `generate_module` | least fixpoint whatever the order; `?` only where typed | `Signatures`, `GenerateModule` |
| type declarations | table of declarations, `visiting` set | `check_field_type`, `copy_type`, emission | recursive types; shared traversal state | `TypeDecls`, `GenerateModule` |
| join expansion | working copy of the body | check, cost, compact, expand | cycles, size before copying, order of evaluation | `JoinExpansion`, `JoinMeaning`, `GenerateDefinition` |
| self tail calls | plan (`changed`), loop variables | `plan`, `visit`, back edge | simultaneous assignment, borrowed formals | `TailCalls`, `GenerateDefinition` |
| ownership analyses, owned accumulators | sets of locals by name | path counts, borrowed, movable, cloned and copied locals, accumulators | decided one name at a time, broken on one path only | `Ownership` |
| expression renderer | locals in scope | lets, branches, matches, calls, fields, operators | use after a move, a reference that escapes, needless copies, what one iteration leaves to the next | `Rendering` |
| Nat arithmetic (generated) | none | the eight emitted operators | width, zero, exponents | `NatArithmetic` |
| list builders (generated) | the rest of the caller's buffer, counts | cons, copy, builder tail call | the buffer's end; which error is first | `ListBuilder` |
| Lean exporter | worklist, name tables | `namedClosure`, `registerFVar`, local-function check | closure is complete; fresh names | not modelled |
| C ABI, SDK, Cargo, view generators | none | validation, text | formatting | not modelled |
| `prod-macros`, `prod-alloc-counter`, demo, scripts, example Lean | none of note | | | not modelled |

Interactions modelled across components: the host and the guest (host calls with
any integers, `CoreWasmGuest`); several CLI processes on one directory
(`Cli`); the page, the network, the timer and the view host (`WorkspaceMount`);
the user, the binding and the transport (`ViewSession`); the text, the parser
and the renaming (`FrontEnd`); the passes of the generator over a module
(`GenerateModule`) and over one definition (`GenerateDefinition`); the analyses,
the renderer and the compiler of its output (`GeneratedCode`).

## 2. Modules and the code they model

A specification `X` is instantiated for TLC by `MCX.tla` and a `.cfg`; eight have
theorems in `XProofs.tla`. A definition introduced by `Defect:` is not part of a
specification: it is a plausible wrong version of the definition that follows it,
and `PROJECT.json` lists under `mutants` which property it must break.

* **`ParallelMap`** (`rust/prod-runtime/src/lib.rs`). `req` is the call
  (lengths of the slices, worker bound, what the closure does at each index,
  whether a spawn fails); `at` each thread's position in its chunk, `handles`
  and `joined` the scope's threads, `failure` the least failing index
  recorded so far, `out` the output slots. The caller's actions are the
  argument checks, the inline loop of the single-worker path, each spawn, each
  join and the end of the scope; a worker's action is one element. A spawn that
  fails unwinds through the scope, which still waits for its threads.
  **`MapPromise`** is what the caller is promised: a call is rejected and
  nothing changes, or it completes with the error of the least failing index or
  with every slot mapped. `ParallelMap` implements it (`KeepsPromise`).
* **`CoreWasmGuest`** (`rust/prod-codegen/src/core_wasm.rs`). `next` is the
  static `NEXT`, `pages` the memory size, `blocks` a history of the blocks
  handed out. `holo_alloc` and the `run` export take any host integer;
  the steps of a run (input as a `Vec` or a slice, the caller-owned list output,
  the allocations of the entry function, the returned block) are one action each.
  Both entry signatures are modelled; the body of either may allocate while it runs,
  also between the output buffer of a list entry and its return.
* **`PublishPackage`** (`publish_generated_package` in
  `rust/prod-cli/src/main.rs`). `dirs`/`tree` are the directories and their
  contents, with torn files; `pc`, `name`, `at` a process's place. Each file
  system call is one action with its failure; `Kill` may strike anywhere, in the
  middle of a write too; `StrangerCreates` is another program at the output
  path. `rename` is external: it replaces an empty directory and fails on a
  non-empty one, as rename(2) does. **`PublishPromise`** is what somebody sees who
  only looks at the output path and the exit codes: a whole package appears there
  in one step. `PublishPackage` implements it (`PublishesOnce`).
* **`WasmSdk`** (the other writing commands and `build_wasm_sdk` in
  `rust/prod-cli/src/main.rs`). `places` are the files written in place,
  `packages` the wasm directories, `staging` the temporary directories by the
  clock reading they are named after; every file is first named, then filled, and
  any call may fail and any process be killed in between. `Stage` joins
  `create_dir_all` and the two writes after it: nobody looks at the directory
  before `wasm-pack` does. `wasm-pack` is external: it compiles the source it
  finds and leaves any of the artifacts. Two processes with one clock reading
  share a temporary directory, as `create_dir_all` lets them.
* **`Roots`** (`rust/prod-cli/src/roots.rs`). `marks` are the states of the
  depth-first search and `path` its stack: for each activation of
  `is_acyclic_from` its root and what it has still to ask. A call that finds a
  finished root, one that finds an unseen one, one that finds a root on the path,
  and a return are an action each; the order in which an activation asks its
  dependencies is left open. The Pareto front and the bridges are operators, one
  action each. The copy of `pareto_front` in `prod-wasm` is the same algorithm.
* **`Cli`** puts the three families of commands side by side: it extends
  `PublishPackage`, instantiates `WasmSdk` and `Roots`, and a behaviour belongs
  to one family, since they share no path.
* **`Ir`, `Parser`** (`rust/prod-ir/src/lib.rs`, `parser.rs`). A text is a
  sequence of lexemes, each a sequence of the pieces that `tag` and `digit1` can
  take off it; one operator stands for each parser function, with its budgets
  as parameters and the number of activations on the stack as a result. Operators
  that the parser and the analyses treat alike are one class. A quoted text keeps
  the way it is written: `string` reads JSON escapes (`Unescaped`), the reason of
  an unsupported type is taken as it stands. Blanks inside
  parentheses are not told apart from none, and the rest of a text after the
  module is dropped, as all callers of `parse_module` drop it.
* **`Naming`** (`prod-codegen/src/naming.rs`). The state `st` that `rewrite`
  threads through a body: scopes, used names, the next fresh name, tracked
  binders. A name belongs to a class: keyword, not its own normal form, not an
  identifier, temporary of the emitted code.
* **`FrontEnd`** composes the two: an exporter writes a module, or a damaged
  text arrives; it is parsed; its definitions are renamed one after the other.
* **`WorkspaceMount`** (`workspace_view_browser.js`). `mounts` is the module's
  `WeakSet`, `dom` whose children a root has, `call` the record of each call of
  `mount` (its place, the file it fetches, bytes received, timer, URLs). Code
  between two awaits is one action; the network, the timer and the external view
  decide when an await ends and how. The network cuts a body into any `Parts`, empty
  ones and ones that are too long included; `Fits` is the check of each.
* **`ViewSession`** (`text_view_shared.js`, `text_view_browser.js`,
  `text_view_hologram.js`, `view.rs`). Four pages share one submit handler or
  have their own; `page` says which one runs. `calls` holds for each accepted
  submission where its await stands, `total` the bytes read of a response.
* **`Signatures`** (`prod-codegen/src/lib.rs`). `defs` is any module over `N`
  definitions: each is a value, a list builder or a list golden, has or lacks a
  fallible operation of its own and calls any others. The fixpoint visits the
  definitions in order, pass after pass; the rendering loop then emits or
  refuses each.
* **`TypeDecls`** (`prod-codegen/src/lib.rs`). `check_field_type`,
  `copy_type` as a function of the names on its path, and the loop of `generate_module` over
  the declarations.
* **`GenerateModule`** composes the two in the order of `generate_module`: shapes
  first, then types, then definitions; each loop ends everything at its first
  error. It extends `Signatures` and instantiates `TypeDecls`.
* **`NatArithmetic`** (`prod-codegen/src/lib.rs`, `prod-core/src/error.rs`).
  A stack machine of the emitted operators next to the exact naturals; `W` is
  the width of a word, `E` that of an exponent.
* **`ListBuilder`** (`prod-codegen/src/lib.rs`). A builder walks down its conses,
  takes one slot off the front of the buffer at each, and adds up counts on the
  way back.
* **`JoinExpansion`** (`prod-codegen/src/joins.rs`). Bodies are trees of
  lets, branches, joins and jumps over any set of `Names`; the actions are the
  phases of `expand`. The functions of the code over bodies (`JpContext`, `cost`,
  `tail_destination`, `take_tail_arguments`, `factor_tail_diamonds`,
  `expression`) are recursive functions, over the body or over the body and the
  continuations that are active, and so the proofs can unfold them. `Nodes`
  bounds the size, and the size bounds the height (`Level`).
  **`JoinMeaning`** is the reference that expansion is checked against: `Eval`
  gives the value of a body together with the order of its operations. It models
  no code, and is in a module of its own since its operator is `RECURSIVE`.
* **`TailCalls`** (`prod-codegen/src/tail_calls.rs`). `plan`'s visit of the self
  calls, then the loop that `render_tail` emits, run side by side with the
  recursion it replaces. `Compute` is what any argument computes.
* **`GenerateDefinition`** composes the two in the order of `generate_def_in`:
  expansion, whose error ends the generation, then a plan if the definition's
  shape and result allow a loop. It extends `TailCalls` and instantiates
  `JoinExpansion`; `MCGenerateDefinition` adds `JoinMeaning`. The renaming before them is in `FrontEnd`, what the renderer
  does after them in `Rendering`.
* **`Ownership`** (`prod-codegen/src/lib.rs`, `ownership.rs`,
  `owned_accumulators.rs`, and `plan` of `tail_calls.rs`). The analyses that
  `generate_def_in` runs before it renders: how often a local is used on a path
  (`count_path_uses`), which types can be read off an expression, which locals
  borrow, which fields may be moved out of their owner, which locals are cloned
  at their uses, which literals are repeated, and which list parameters a loop
  takes over. All are keyed by name, as in the code; `FrontEnd` checks the
  renaming that makes this sound. The cases for join points are left out:
  `joins::expand` runs before. Parameters are named, as the exporter writes them.
* **`Rendering`** (the `Renderer` of `prod-codegen/src/lib.rs` and `render_tail`)
  follows one path through what is emitted for a definition: the places it
  reads, clones and moves, in order. The compiler's rules are the external part:
  a place or what a reference borrows from must not have been moved, and the
  types must agree where references meet owned values. Code that is emitted twice
  is there twice: the right operand of a division, which is compared with zero
  first, and the scrutinee behind `Nat.succ`. At a back edge the
  locals are gone, the assigned formals are whole again, the others are as the
  iteration left them. Static lists and bindings in builder mode are left out;
  a match is never the value of a let, as in Lean's LCNF.
* **`GeneratedValues`** holds the state and the constants of the two parts of
  generated code that compute values, and instantiates `NatArithmetic` and
  `ListBuilder` over them, so that both can be proved about without the renderer.
* **`GeneratedCode`** puts what generated code does side by side: it extends
  `CoreWasmGuest` and `GeneratedValues` and instantiates `Rendering`; a behaviour
  is about one of the four.

## 3. Runs

| run | instance | what it shows |
|---|---|---|
| `parallel_map` | every closure over up to 4 elements, 0 to 5 workers | no two threads on one slot, no thread left behind, a failing worker stops at its element, the call implements `MapPromise` (least failing index whatever the schedule; `Ok` means every slot), the call ends |
| `cli` | publication: 3 processes, 2 staging names; SDKs: 2 processes, 1 or 2 outputs, 2 clock readings; roots: 3 roots, every small dependency list, every cost in 1..2 | the output is nothing, a stranger's, or one whole package; an exit code tells the truth; publishing implements `PublishPromise`; an SDK that succeeded at an output of its own is whole, and the process's own unless others drew the same clock reading: then their builds can be in it, and nothing else; whatever fails when, a whole package is left: the old one until the new one is built, then the build until it is copied; reports are right; every command ends |
| `workspace_mount` | 3 calls, 2 roots, 2 files of 1 and 2 bytes, parts of 0 to 3 | the claimed roots are a lock, nothing leaked, no buffer overrun and only verified files, live views kept, loads end |
| `view_session` | 4 submissions, 4 pages | one call at a time, answers never stale, messages kept, bounded reading |
| `front_end` | every form of expression, type and declaration; depths across budgets of 6, 4 and 3; every choice of three names out of nine in nine shapes of body; texts with a lexeme dropped, doubled or replaced | what is accepted is what was written; budgets refuse exactly what exceeds them and bound the stack; renaming keeps every binding and leaves one name per local |
| `generate_module` | 3 definitions, every call graph; 3 types, every table | least fixpoint, typed `?`; refusals as recursive are right, `Copy` exactly when everything held is; generation ends |
| `generate_definition` | up to 3 continuations, 30 nodes; 2 parameters, 2 self calls, 3 iterations | expansion keeps value and order of operations and admits exactly what it makes in the size it counted; the loop returns the recursion's value or first error and never assigns a borrowed formal |
| `generated_code` | guest: pages of 8 bytes, word 64, up to 4 blocks; Nat: words of 4 bits, stacks of 3; lists: 4 conses, 3 copied, buffers 0 to 8; locals: every body of the shapes listed in `MCGeneratedCode`, loops among them | blocks disjoint and within reach of the host, the overlap trap only for a host that made a pointer up; Lean's value (of a left shift, modulo the word) or a declared error, an error only with its reason; `Ok(n)` is the list, the error is the one evaluation meets first; the emitted bodies pass the borrow checker, and nothing is cloned that one path does not need twice |

Four more runs end in a counterexample; each states what a line of the
repository says:

* `publish_over_existing`: "New output directory; an existing path is rejected"
  does not hold for an empty directory that appears between the check and the
  rename.
* `nat_shifts`: "addition, multiplication, shifts, and powers report overflow as
  an error" does not hold for a left shift by less than the width that loses
  bits: `checked_shl` only looks at the amount.
* `type_decls_recursive`: "One level of indirection is enough to catch the mutual
  case too" does not hold for a cycle of three types, nor for a mutual one
  behind an `Option`.
* `shared_values`: "an LCNF common subexpression such as one `String` used by two
  fields must be cloned at each use" does not hold for the head of a list that the
  body has built itself, which is moved at each use. The run has bodies of this
  shape alone; `generated_code` has all others.

`MapPromise` records one more fact that is easy to overlook: with one worker, or
one element, the closure runs on the caller's stack, so its panic unwinds out of
`parallel_map` instead of becoming `WorkerPanicked`.

### Why these bounds

* Four elements and five workers give uneven last chunks, more workers than
  elements, one worker and none; two workers can fail while a third panics.
* The guest's arithmetic is scaled, not simplified: `Page`, `Word`, `Half` and
  the alignments are constants; at pages of 8 bytes a handful of allocations
  reaches the page limit, the end of a page and the upper half of the word.
* Three processes and two names force a clash while a third process publishes.
  Two processes and two clock readings let SDK builds share a temporary directory,
  an output, both or none.
* Three roots hold a cycle that is reached from outside it, a self-dependency and
  an id that another root's last component matches.
* Two roots and three calls allow a call to close and another to mount between
  two steps of a third; two files of sizes 1 and 2 let a response be short,
  exact, split and too long.
* The loops of `generate_module` over types and over definitions share no data, so
  each is exercised on all its inputs with one input for the other; the same
  holds for expansion and tail calls in `generate_def_in`, for the families of
  `Cli` and for the parts of `GeneratedCode`.
* A chain of promotions against the order of the definitions needs three
  definitions; a cycle of types that the check misses needs three types.
* The three budgets are smaller than in the code but in the same order, and every
  nesting of two kinds of frame crosses each of them. Three names suffice for a
  binder under a binder under a formal, with the middle one renamed.
* At width 4 every pair of operands of every operator is tried; the operators
  depend on the width through `2^W` only.
* A buffer of 8 exceeds the longest list (4 + 3), so it ends before, at and after
  the list's end. Three continuations are shared, chained, cyclic and dead;
  the limit of 30 nodes has bodies on both sides, and on it.
* Two formals are the least that can be swapped; two self calls let one back edge
  leave alone what the other assigns.
* Two lets and an end, or a let and a match or branch, relate an owner, something
  made of it and a use of both; the same behind an owned record or option gives
  fields that may be moved. The loops have a let before the branch and one before
  the call, and so a value that is made before, in and after an iteration.

Where section 4 has a theorem, safety does not depend on these numbers.

### Deadlock

It is checked for `ParallelMap`, `Cli`, `PublishPackage`, `WorkspaceMount`,
`ViewSession` and `GeneratedCode`; where a call is over, an explicit stuttering
action says so (in `GeneratedCode` for all parts but the guest, which must always
have a step). The remaining modules are computations that return, so their
last state has no successor (`CHECK_DEADLOCK FALSE`).

### Fairness

* `ParallelMap`: weak fairness of the caller and of the workers together. The
  operating system runs runnable threads, and a closure is assumed to return or
  panic.
* `Cli`: weak fairness of each process; a killed process has ended. `wasm-pack`
  is assumed to return. A root command is one sequential program (`Judging`).
* `WorkspaceMount`: weak fairness of a load's own steps and of its timer: the
  event loop runs settled promises and due timers. None for the network or for
  the external view: `LoadEnds` therefore rests on the timer alone, and stops
  where the code stops being timed (`openWorkspaceView`).
* `GenerateModule`: weak fairness of the next step of a sequential program.
* No liveness is claimed for `ViewSession`: `fetch` has no timeout in the code.

## 4. Proofs

TLAPS checks the theorems of eight modules. Each states an inductive invariant,
proves that `Init` implies it and that every action keeps it (one step per
action), and derives the properties from it. TLC has checked each invariant on
the instance of its run before it was proved.

| module | assumptions on the constants | inductive invariant, and why the property alone is not inductive |
|---|---|---|
| `ParallelMapProofs` | `RequestsWellFormed`: lengths and worker counts are naturals | chunks handed out are consecutive and cover a prefix (`Layout`), a thread is inside its chunk (`Progress`), a slot holds what its thread's position says (`Slots`), the recorded failure is the least among the joined chunks (`Recorded`). Disjointness at the next spawn needs the prefix; the least index needs what the threads not yet joined will report. A failed thread stays at its element (`Reached`), which needs every element before a thread to be one that did not fail |
| `CoreWasmGuestProofs` | `GuestAssumption`: positive page size and alignment, `Half <= Word` | every block ends at or below `next`, `next` is inside memory (`Heap`), a run in progress has its input readable and its output in a block allocated for it (`Computing`), whatever the entry allocates meanwhile |
| `CliProofs`, publication | `PublishAssumption`: the output path is no staging name, packages are not empty | a staging directory belongs to one live process (`PrivateStaging`) and holds exactly what that process wrote (`StagingContents`): without both, a rename could publish somebody else's or a partial tree |
| `CliProofs`, SDKs | `SdkAssumption`: what a command writes is a list of files and a package at one of the outputs | as long as nobody else has a process's clock reading or output: its temporary directory holds its sources, then its build, and the output so much of the build as has been copied (`SdkInv`); and whoever has its reading, a temporary directory holds sources and builds of those that drew its name, and the output of a copier only files from there (`SharingInv`). Success is reported long after the build was inspected, so the property needs what the directory held all the way |
| `CliProofs`, roots | `RootsAssumption`: objectives are naturals | the marked roots are those on the stack, each called by the one below it (`PathIsMarked`); what an activation has asked is finished or on top of it (`AskedIsDone`); no finished root is among roots that keep each other waiting (`FinishedIsFree`). One search relies on the marks that the searches before it left, which the verdict alone says nothing about |
| `WorkspaceMountProofs` | `MountAssumption`: at least one file, positive sizes, parts are naturals | each call's timer, URLs and received bytes fit its place in the code; claims and page children agree with the calls that hold a root |
| `GenerateModuleProofs` | `ConstantsAssumption`; `ModulesAssumption`: a module has its definitions and a table of declarations | shapes: what is promoted lies in every closed set; a pass that has promoted nothing has seen every definition before `at` unpromotable; the prefix before `at` is rendered. Types: what has been decided so far is right (`Decided`) |
| `ViewSessionProofs` | `ConstantsAssumption` | on a guarded page the flag, the disabled button and the one outstanding call agree |
| `GenerateDefinitionProofs`, join points | `LimitsAssumption`: the limits are naturals, of nodes at least one; `NamesAssumption`: the unit's name is a name; `DefinitionsAssumption`: a definition's body is an expression | the working copy has the join points and jumps of the source and is no larger (`Factored`), what is measured has valid jumps, what is expanded has an admitted cost (`JoinInv`). The promise speaks of the source and of the outcome; between them stand a compaction and a cost taken of another body than the one refused or expanded |
| `GenerateDefinitionProofs`, loops | `ConstantsAssumption`, `InitialAssumption` | `changed` covers every argument that differs at some call visited (`Covered`) and no borrowed formal; only with it is the parallel assignment the recursion's. It holds of definitions that are never planned as well |
| `GeneratedValuesProofs` | `WidthAssumption`: every width is a count of an exponent; `PowersAssumption`: powers of two are positive and do not shrink (the provers know nothing of `^`); `BoundsAssumption`: naturals | arithmetic: each word on the stack is the exact natural next to it, a left shift's on top its remainder modulo the word, and fits its width (`NatInv`). Lists: on the way down the buffer holds the heads passed and the counts are still to come (`GoingDown`), on the way back the count is of what lies behind (`ComingBack`); the result is only known at the end |

The main results: the threaded map implements its promise (`Refinement`), no
aliasing (`NoAliasing`), no thread outlives the call (`ScopeClosed`) or works on
after its failure (`FailsFast`); guest blocks are disjoint (`Disjointness`) and
within reach of the host (`Reachable`); publication is all or nothing
(`AllOrNothing`, `PublishedStays`), its exit codes tell the truth
(`HonestExits`), and with its staging directories, failures and kills it
implements the one-step promise (`CliPublishesOnce`); an SDK that succeeded has whole files only, its process's
own unless others had its clock reading (`OwnSdk`), the one before it stays until then, and a build is not thrown away before
all of it is at the output (`SdkNotLost`); root reports
are right for files of any size (`RootReports`); the claimed roots are a lock
(`Locked`); the shapes are the least fixpoint and every `?` is typed (`Fixpoint`,
`WellTyped`), refusals and `Copy` are right for every table of declarations
(`TypeVerdicts`); answers are never stale (`Latest`); a definition is refused
only for a defect of its jumps or for an expansion that really is too large or too
deep, and what is admitted fits (`AdmissionIsExact`); the loop is the recursion
(`Equivalent`, `Outcome`, `Borrows`), and the lowering of a definition that can have
one is that of `TailCalls` whatever expansion does (`LoweringRefines`); at every width an operator other than
the left shift gives Lean's value or a declared error, and a left shift that returns
a value gives Lean's value modulo the word, which need not be Lean's (`Arithmetic`,
and the run `nat_shifts`); a builder builds the list (`Building`). The type
invariants (`TypeCorrect`), the number of threads (`BoundedThreads`), of passes
(`FewPasses`), needless `Result`s (`OnlyIfItCanFail`), monotone promotion
(`Monotone`), answers of an initialized binding only (`Ready`), lost races
(`LosesToFiles`), published files that stay (`PublishedStays`, part of the promise)
and the plan's reasons (`Planned`) are proved and not repeated in a run.

`AdmissionIsExact` rests on four theorems about the functions of `joins.rs`, for
every body, every set of names and all limits. Where the jumps are valid, a cost
without error is the size of the expansion, which has no join point and no jump
left (`AdmittedFits`): the size is known before anything is copied. In a sound body
no cost is unsupported, and an expansion within the limits has a cost without error
(`SoundAdmits`): following a jump leads to continuations that are not active, since
those that are active lead to it (`Inside`). Compaction keeps every join point and
every jump and makes no body larger (`FactorKeeps`), though it takes jumps away and
puts one in their place; so it changes nothing about what is sound
(`FactoredSound`).

Some arguments need an induction, and the provers cannot use the library's
induction theorems, which take an operator. They go through the least element of
a nonempty set of naturals instead, from `WFMin` of `WellFoundedInduction`, which
is first-order: the root with the least total among those that beat a given one
is on the front (`FrontBeats`); `copy_type` is defined on, and falls with, the
names on its path by induction on how many names are left (`NatSetInduction`,
`CopyTypeDef`, `CopyAntitone`). Likewise the functions over bodies: they are what
their equations say (`NodesDef` to `FactorDef`) by induction on the height of a body
(`ExpressionInduction`); those that recur into continuations by induction on the
pair of the continuations not yet active and the height (`PairInduction`).
The search for cycles needs none: its claim is put as sets of roots each of which
depends on one of the set (`Knot`), and such a set can be told from one step of
the search.

Only model-checked:

* liveness (`CallEnds`, `EveryCommandEnds`, `LoadEnds`, `GenerationEnds`): fairness
  is out of the prover's reach;
* what recursive operators compute: `JoinMeaning` (`MeaningKept`), `Parser` and `Naming` (`TextIsKept`, `BudgetsHold`,
  `BindingKept`, `BindersUnique`), `Ownership` and `Rendering` (`BorrowsCheck`,
  `ClonesAreNeeded`);
* one composition: the theorems about `CoreWasmGuest` and `GeneratedValues` are
  about their own specifications, whose steps `GeneratedCode` takes unchanged; it
  also reaches the recursive operators of the renderer. For `Cli`, `GenerateModule`
  and `GenerateDefinition` the theorems are about the composition.

## 5. What is not modelled, and what the models leave out

Formatting of any kind (Rust text, manifests, headers, SDK templates,
messages); the semantics of Lean compiler terms (`Lower.lean` translates them one
by one) and the rest of the exporter, which runs inside Lean over its
environment; `prod-macros`, the demo, scripts and examples, which keep no state.
A call that never returns (a closure, a view host, a `fetch`, `wasm-pack`) is
allowed where the code allows it, and nothing is claimed about it:
`openWorkspaceView` is awaited without a timer after the load, and the page's
`fetch` has none. The calculator's Hologram page has no busy flag, so answers
may overtake one another there; `AnswerIsLatest` is about the other pages.

Conditions under which the checked properties hold, each a place where the code
offers no more:

* `BorrowsCheck` is checked without bodies that match a list they have just built
  with `List.cons`, which are those of `shared_values`. `expression_type`
  (`ownership.rs:9-75`) does not know that list's type, `render_match` clones its
  head out as an owned value (`lib.rs:1117-1132`, `2969`), and
  `repeated_non_copy_locals` (`lib.rs:901`) does not count it: in
  `let x := List.cons s l; match x | List.cons p q => Rec.mk p p 0` the emitted
  code moves `p` twice and does not compile. Of all the definitions generated
  this shape alone fails, and only where the arm uses the head twice.
* A match on a tuple is outside the inputs of `Rendering`: `render_match` has no arm
  for `Prod.mk` and emits the pattern `Prod.mk(a, b)` (`lib.rs:3065-3075`), which
  names no Rust type.
* A match as the value of a let is outside the inputs of `Rendering`: LCNF does not
  produce it, and `expression_is_non_copy` says that it does not look for the
  types of its binders (`lib.rs:749-753`).
* `BindingKept` is about locals. A module's own function that is named like a
  temporary of the emitted code (`output`, `__value`) is captured by it:
  `naming.rs:292-301` keeps binders apart from temporaries, not functions.
* A run of digits that fits no integer type is read as an identifier, and so
  `TextIsKept` is about numerals that fit.
* Processes that draw the same clock reading build in one directory: it is named
  after the clock alone and made with `create_dir_all` (`main.rs:429-435`), which
  accepts one that is there. All of them compile the source that was written last,
  so that one may report success with another's package, although
  `sdk.rs:24-25` says that the CLI packages "this source". `SdkIsOwn` bounds the
  damage: whole files, from those processes only. One of them may also take the
  build away, and so what `PackageNotLost` says of a build is about a process
  that works alone.
* `SdkIsOwn` is about processes that have their output to themselves. Two at one
  output, or somebody who reads it between the removal and the end of the
  copying, can see a mixed or torn package; the code does not prevent it and no
  property claims it does.
* A local that begins like a literal is taken apart: `tag` and `digit1` stop at the
  end of the literal (`parser.rs:303`), so that an argument `truex` is read as
  `true` and a variable `x`, although the grammar (`parser.rs:16`) has
  "expr ::= nat | ident | (call ident expr...)". The inputs of `front_end` have such
  names; `TextIsKept` finds no piece of them lost, and claims what is read to be
  what was written only for texts without them.

## 6. Plan

Done: the concurrent and failing parts (map, guest, publication, SDK builds,
loader, pages), the front end, the generator's fixpoint and passes, ownership
and rendering, the generated code's arithmetic and lists, the root commands.
Next, most important first:

1. Theorems: `BudgetsHold` and `BindersUnique`, if the recursion of `Parser` and
   `Naming` can be written as functions, as that of `copy_type` was.
2. Static lists and bindings in builder mode (`reject_eager_list_binding`), the
   parts of the renderer that are still left out.
3. Exporter worklists (`namedClosure`, local functions, `registerFVar`): the
   closure is complete and least, whatever the order.
4. C ABI name separation, HOLOVIEW framing and the Wasm scan of
   `workspace_view.rs`.
