# Verification of the bound analyses

The repository is a set of LLVM passes that decide which memory accesses of a C
program need no bound check. This directory holds TLA+ models of the passes,
the TLC runs that check them on small programs, and proofs for all programs.

Contents: 1 the system, 2 the modules, 3 the runs, 4 the proofs, 5 where the
code does not do what it says, 6 what is left out, 7 the plan.

## 1. The system

`run.sh` brings a program into SSA form (`mem2reg`), clones its functions per
calling context (`fclone`), and analyses and annotates the result
(`ptranalysis`). A second pass (`mannotate`), commented out there, inserts calls
that report allocations and accesses at run time. All passes are sequential:
what makes them hard is not concurrency but iteration to a fixpoint over
containers without order, recursion, unsigned arithmetic, and facts that are
kept while what they came from changes.

| component | state | operations | what makes it correct |
|---|---|---|---|
| context-free analysis (`PointerAnalysis.cpp` 193-308) | `inbounds`, `transitives`, `bounds`, `changed` | sweep over the instructions until nothing is added | the fixpoint of the rules is reached, entries stay justified, the loop ends, a pointer in `inbounds` addresses a whole pointee |
| interprocedural analysis (505-886) | per activation: worklist, `visits`, `boundOut`, `exactOut`, `exactBounds`; across activations: `callsites`, `argsCall`, `retCall`, `local` | visit a block, descend into a call or reuse its last answer, join the exits | no change is lost, bounds do not go stale, it ends, `local` is true in every context |
| annotation (109-132) | metadata on loads and stores | mark `in` or `out` | an access marked `in` stays in its object |
| worklist (`DataFlow.h` 14-51, `PointerAnalysis.h` 31-68) | an unordered set | enqueue, dequeue any | (used by the two solvers) |
| data flow framework (`DataFlow.h` 53-179) | `inSet`, `outSet`, `wlist`, `recSet` | visit a node, propagate | an empty worklist means a solution, the greatest one |
| dominators (261-347) | `doms`, `changed` | sweep until nothing changes; `isDominatorOf` | strict dominance |
| call graph components (`FunctionClonePass.cpp` 51-127) | `marked`, `low`, `id`, `pre`, `count`, `stack` | Tarjan's depth-first search | ids are the strongly connected components |
| cloning (129-250) | the module, names of clones, the activations of `getClonedFunction` | clone a callee for a context, redirect the call | it ends; one clone per context, entered from one call; the program stays the same |
| function database (6-43, and the header 49-83) | `cdb` | weigh a function, `skip` | (off by default) |
| memory annotator (`MemoryAnnotator.cpp`), clone of main (`FunctionClone.cpp`) | the module and the iterators; `bases`, `bounds`, which nothing reads | insert a tracking call per alloca, malloc, free, stack save and restore, load, store; copy main | one call per instruction, on the right side of it, with values that exist there; none for what was inserted; the copy reports what main does |
| exported query, instruction predicates, run-time library | none | | |

The components interact by calls, in sequence: `runOnModule` runs the
context-free analysis on every function, then `objectAnalysis` from `main`, then
`annotateValue` on every instruction. The cloning pass runs before and makes the
analysis context sensitive; it relies on the component ids to end. The
context-free result is printed only: line 124 of `PointerAnalysis.cpp` looks up
the access instead of its pointer, so it never reaches an annotation.

`PROJECT.json` lists the hazards of this code, line by line, and the properties
that watch each.

## 2. The modules

**Instructions.** `PtrIR` gives the pointer instructions as records, and the two
classifications `isAllocation` and `getConstantAllocSize`. `uint64_t` is a number
below `Word`; products and sums are taken modulo `Word`. The name tables are
reduced to one name per table. `BoundRules` holds the conditions under which one
known pointer makes another one known; both analyses apply them.

**Context-free analysis.** `FunctionCode` is a function as the analysis sees it.
`ContextFree` has one action per class of instruction and one for the end of a
sweep; its state is the state of the loop. `BoundInference` is the abstract
specification: derive one justified fact after the other in any order, stop when
there is none left. `ContextFree` implements it (`ImplementsInference`).
`FunctionRun` gives the result its meaning: once the analysis is done, the
function executes, in any control flow, over pointers that are an object size
and an offset (`PointerValues`).

**Interprocedural analysis.** `ModuleIR` adds functions, blocks, arguments and
globals. `ObjectPass` keeps the activations of the recursive `objectPass` on a
stack; `Dequeue` starts a block, one action per instruction class walks through
it, `EnterCall` pushes an activation, `EndBlock` compares and propagates,
`Return` joins the exits into `local` and hands the answer to the caller. Any
block may leave the worklist, and the loop over the unordered exits may stop
after any subset (`JoinedExits`). `ModuleRun` executes the analysed module from
`main`, with a call stack; `InBound` is `annotateValue`.

| code | model |
|---|---|
| `boundTemp`, `exactTemp`, `exactBounds` | fields `bound`, `exact`, `bounds` of the activation |
| `next`, the position in the block | `node` (`Idle` between blocks), `k` |
| `callsites`, `argsCall` | `argsCall`, `NotCalled` for a site that is not in `callsites` |
| an absent entry of `local` | `NotSeen` |
| `retSet[0]` of an empty vector | any word (`Results`) |
| `UNBOUND` (line 510) | the value it really has, `DYNBOUND_ATTR` |

**Solvers.** `DataFlow` takes the client's meet and transfer as constant
operators and solves in both directions. `setup` is the client's: it enqueues
the boundary nodes or all nodes. `MonotoneClient` says what a client needs for its
solution to be the greatest. `Dominators` is `DominatorAnalysis::setup`, one
action per block.

**Call graph.** `CallGraphSCC` keeps the activations of the recursive `dfs` on a
stack and takes the successors in any order. The node of unknown callees is
`External`, and its index is the 0 that `operator[]` creates.

**Cloning.** `CallIR` is a module reduced to its calls: a function is its name,
its kind and its instructions. `FunctionDB` has the weights and the two `skip`
tests. `FunctionClone` first runs `buildSCC` (its steps are those of
`CallGraphSCC`, in any order of the adjacency sets) and then walks through
`main`; the activations of `getClonedFunction` are a stack of walks.

| code | model |
|---|---|
| `inst`, `ic` of an activation | `k`, `ic` of the last walk |
| `continue` (199, 226) | `PassOver`, which does not count |
| `getFunction(nameSuff)` | `Named(funs, NewName)`; a name is a base and the numbers between its underscores |
| lines 158-160, then 203 or 232 | `Redirect` |
| lines 162-187 | `Create`, which copies the body as it is now |
| `return clone`, then 203 or 232 | `Return` |
| `cg[callee]` for a function the graph does not have | `LookUpUnknown` |

`ContextTree` is the abstract specification. It knows neither names nor a stack:
a context is a sequence of calls from main, calls inside a component add nothing
to it, and the copies that exist are a set that grows along the calls until none
is missing. Its components are defined by reachability, not by the search.
`FunctionClone` implements it (`ImplementsContexts`).

**Memory annotator.** `MemoryAnnotator` keeps the three nested iterators (`fn`,
`bb`, `pos`) and the module that grows under them; one action per `annotate`
function, `PassOver` for what the pass does not look for, and `EnterFunction`,
which copies main (`CloneFunction`). An instruction has a number, which stands
for its value. The trackers drop the prefix `__track_` and the arguments that are
sizes and alignments.

Every module that is executed has a module `MC...` that gives the constants
their values; `SampleFunctions` and `SampleModules` hold the programs. The
definitions headed "Mutant" are plausible mistakes in the definition that follows
them; each makes a property fail, which shows that the property can.

## 3. The runs

| run | what is enumerated | what it shows |
|---|---|---|
| `context_free` | 15^3 functions: three instructions laid out above the array they derive from, `Word` = 16 | `SweptClean`, `Justified`: the flag and the entries are right after every instruction; `ImplementsInference`: exactly the derivable facts; `Terminates` |
| `function_run` | 7 allocations (constant, variable, wrapping) by 22 x 22 forward derivations | `InboundsSound` |
| `step_back` | a step back from the start and from the middle of an array | `InboundsSound` fails |
| `object_pass` | a function with a loop and at most one recursive call, in 200 variants, called in two contexts; three exits, joins, mutual recursion, endless loops, library calls | `Propagated`, `BoundsCurrent`, `OutsGrow`, `AnalysisTerminates` in every worklist order |
| `module_run` | the same modules, executed with up to three activations | `LocalSound`, `AccessesInBounds`; all are `WellTyped` and `StepsForward`, 114 of the 214 `FollowsCalls` (`SamplesAssumption`) |
| `recursion` | `f` returns what `g` returns, `g` may use what `f` returns | `AccessesInBounds` fails |
| `dominators` | every flow graph with four blocks (one may loop on itself) | `GreatestSolution`, `StrictDominance`, `Terminates` |
| `data_flow` | every flow graph with three nodes, a gen-kill client, both directions, both setups | `Solved`, `BestSolution`, `WalkEnds` |
| `call_graph_scc` | every call graph with three functions and unknown callees; those with four where none calls itself | `ComponentsClosed`, `SearchEnds` |
| `phantom_edges` | main calls f, f calls a declared function | `IdsAreSCCs` fails |
| `function_clone` | modules of up to six functions: every way in which main, f and g call each other twice; chains deeper than `K`; names that differ by numbers; main called, alone, or missing; `full_clone` on and off | `SameProgram`, `ContextsApart`, `ContextsAcyclic`, `AllRedirected`, `LookupsKnown`; `ImplementsContexts`: exactly one copy per context; `CloningEnds` |
| `memory_annotator` | 22 instructions followed by 23, the second using the first, in front of a return of a main that has another one; main between other functions, and no main | `DefinedBeforeUse`, `TrackersInPlace`, `CloneReportsAsMain`, `CastsValid`, `AnnotationEnds` |

**Bounds.** `Word` = 16 keeps every wrap within reach: the offset -4 is 12, and
calloc(6, 3) wraps to 2. Three derivations against the layout order need up to
four sweeps. Two call sites in `main`, one of which passes an unknown pointer,
give each callee two contexts; a loop with a call in it is visited often enough
for a call to be entered, entered again with better attributes and reused.
`ObjectSizes`, `Offsets` and `MaxDepth` bound the executed program: an offset
outside `Offsets` ends a path, and three activations reach a recursive call
below itself. Objects are smaller than `IntWord` / 2. `K` is 2 where the code has 10, so that a
chain of four calls is cut off; `Threshold` is the code's 10, which one call or
four loads pass. The annotator treats each instruction on its own; two in a row,
the second using the first, show what one insertion does to the next. No run has a state
constraint; every run ends by itself, so deadlock is not checked: a finished
analysis has no next step.

**Fairness.** `WF_vars(Next)` everywhere, and only there: each pass is one
sequential loop that keeps running. Nothing is assumed of the order in which
blocks or successors are taken.

**Assumptions about the executed program.** A null pointer is not among the
values: the analyses count the result of an allocator as in bounds without a
test. An object of run-time size has room for one pointee. An object whose
constant size does not fit into the address space is not created. A function of
the `retArg` tables returns its argument itself (`strchr` does not). Argument and
parameter types agree. A call through a pointer returns anything and enters no
function of the module. No function of the module has a name that the tables
have (`WellFormed` of `ModuleIR`).

**Assumptions about the cloned and annotated program.** No function has a name
that a clone may get (`NamesAssumption`: f next to f_1_2_, or f next to f_1_2),
and none that a tracker has. `main` returns an `int`. The annotated program is in SSA form (`WellFormed`): an
operand from the same block stands in front of its use, phis apart, its own
conversions are of no class the pass looks for, and a return ends its block
(LLVM's verifier takes no other: a return is a terminator).

**A main that is called.** `cloneMain` redirects calls in `main` itself. If `main`
is also called, a later clone of `main` copies calls that already lead to clones,
and the call graph is asked for a clone: `LookUpUnknown`, an assertion of LLVM.
`LookupsKnown` shows that this is the only way to get there; `ContextsApart` and
`CloningEnds` exclude such programs, the other properties hold for them, too.

**Recursion.** The samples are programs whose analysis ends. `argsCall`
remembers only the last attributes of a call site: for f(p) that calls f(p + 1)
and f(p) from two sites, or f(a, b) that calls f(b, a), the analysis alternates
between two contexts for ever. There is no finite model of that.

## 4. The proofs

All proofs hold for every value of the constants that satisfies the named
assumptions of the modules.

**`Induction`.** The library states induction with an operator as parameter, which
the provers cannot instantiate. This module states it about sets: inclusion
orders finite sets well (a theorem of the library), so a set of naturals has a
least element (`LeastNatural`), holds all naturals if it holds 0 and successors
(`NaturalsIn`), a step can be iterated (`Iteration`), and a closure is reached after
as many rounds as there are nodes (`Closure`).

**`ContextFree_proofs`.** The inductive invariant is `SweepInv`: `TypeOK`,
`SweptClean`, `Justified`, and that a finished analysis is at the end of a sweep
with `changed` false. `Justified` is what makes it inductive: a bound
that is computed again from a justified bound is the same bound
(`ExactBoundStable`), so no visit takes back what others rest on, and
what a pointer earns it earns from then on (`Monotone`). From the invariant follow
`TypeCorrect`, `ContainersJustified`, `ChangedFlagCorrect`, and, step by step
under the refinement mapping `done <- (pc = "done")`,
`SweepsImplementInference`: every action derives one fact, or stops at
the fixpoint, or stutters. `ContextFreeSound` is about the execution
(`FunctionRun`): if every function is `WellTyped` and `StepsForward`, then
`InboundsSound` always holds. The invariant adds that a pointer in `transitives` is
exactly `bounds` bytes before the end of its object. `StepsForward` (no negative
constant offset, no type of more than half the address space) is what the code
needs and does not test; `step_back` shows that it cannot be dropped.

**`ObjectPass_proofs`.** `PassPropagates`, for every module and every order of
every worklist: in each activation on the stack, a block that was visited and does
not wait is up to date with its predecessors, and the successors of a visited
block were visited or wait. The invariant `PassInv` carries along that the
activations below the last one wait at a call (`Calling`), that the block an activation
is in the middle of is one of its function (`InBlock`), and that exact facts are
bound facts (`Nested`). `Carried` says of a block that is being visited again what
`Propagated` says of the others: when nothing comes of the visit, its successors
are not queued.

Then the promise itself, `LocalIsSound` and `AccessesStayInBounds`: whatever main is
given, whichever way the branches go and whatever unknown code returns, a value of
`local` addresses a whole pointee in every activation, and no access whose check is
left out leaves its object. The theorems assume that every module is `Analysable`,
which is three things. `WellTyped` is what the front end guarantees. `StepsForward`
is the hypothesis of `ContextFreeSound`, and sizes that fit an int. `FollowsCalls`:
no recursion, and no call of a variadic function with a body. The run `recursion`
shows that recursion cannot be allowed, and `step_back` shows for the same range
test in the context-free analysis that steps back cannot; a variadic callee is not
analysed at all (line 652), so what it calls would be called in contexts nobody
looked at.

The argument does not follow the analysis and the execution side by side. It first
says what values there can be: with arguments `C`, the function f may have the
pointer p in v if p is made by the instruction v from what its operands may be, and
so on through the calls (`Means`; the largest such set, hence a definition without
recursion, and one that holds once and for all). A claim of the analysis is then a
claim about this set: `InBounds` and `ExactAt` of a value, for all arguments that
match the attributes f was called with (`Matches`). Three observations carry it.

- A fact is about a value, not about a place in the program, and it is derived from
  facts that are true; so the union of what the predecessors know (line 579) does no
  harm, and the order of the worklist does not matter (`InstClaims` to `CallTrue`).
- An answer is kept per call site with the attributes it was given for
  (`MemoInv`). While the call is on the stack the entry is the placeholder, and
  nobody reads it: without recursion a call site that waits is not met again
  (`Depth` falls along the stack).
- `local` is joined over contexts that were analysed one after the other. A context
  is `Covered` if `local` is honest about it and every call in it, from a block that
  can be reached, leads to a covered context. This is again a largest set, so
  taking values out of `local` never uncovers a context (`CoveredKept`), and an
  activation of the analysis that returns covers all contexts it stands for
  (`ReturnCovers`).

`FlowInv` puts this together over the stack of `objectPass`: the facts of every
activation are true, the calls it has visited lead to covered contexts
(`CallsCovered`), and each waits for the answer of the next (`Waits`). `RunInv` is
about the execution: every activation has values of the set `Means` with the
arguments it was called with (`Sensible`, `Linked`), and is in a covered context
once the analysis is over. That the loop over the exits stops at any unknown
value (`JoinedExits`), that an exit without a return reads as 0, and that a
function without an exit answers anything are all part of it: whoever calls such
a function never goes on (`AnswerTrue`).

**`Dominators_proofs`.** `GreatestSolutionFound`: sweeping only takes away
(`Shrinking`), never below any solution (`AboveSolutions`), and blocks behind an
unchanged sweep are settled (`Settled`). `DominanceIsStrict`: what
clients are told is dominance by paths. The blocks that every path passes are a
solution, so the greatest has them all; and it has no block that a path passes by,
because what is reached without a block (`Without`) is a closure.

**`DataFlow_proofs`.** `EmptyWorklistSolves`: a visited node that is not waiting
is up to date (`UpToDate`), and the dependents of a visited node were visited or
are waiting (`Covered`). Nothing is assumed of meet and transfer, so the theorem
is about every client. `MonotoneClientsBest`: if the client is a `MonotoneClient`,
the maps are always above every solution at the nodes visited so far
(`AboveSolutions`), so that what the walk ends with is the greatest one. That the
loop of `meetAllPred` is monotone (`FoldMonotone`) is an induction over its
iterations; that the recursive definition behind `FoldLeft` has a solution at all
(`FoldingExists`) has to be proved first.

**`CallGraphSCC_proofs`.** `SearchFindsComponents`: two vertices of the call graph
get the same id exactly if each can reach the other along the edges that `dfs`
walks, for every graph and every order of the successors. `low` need not be the least number that can be reached,
as the textbook has it, only a bound that is itself reached (`LowReaches`) and that
covers the edges walked so far (`EdgesSeen`, `MinCovers`). `IdsAreSCCsOfKnownCalls`
is the positive side of the run `phantom_edges`: if every callee is known, the ids
are the components of the program.

**`FunctionClone_proofs`.** First the names, for modules of every size and whatever
ids the components get: `CloneTypeCorrect`, `CloningKeepsProgram`,
`CloningLooksUpKnown`, `CloningRedirectsAll`. `getFunction` takes
whatever has the name of the clone it looks for, so a call keeps its meaning only
if a name belongs to copies of one function. A clone is named after its function
and its context (`NamedAfter`), a context has an even number of pieces, and from
`NamesAssumption` follows that two such names can only be equal for the same
function (`CloneNamesApart`) and are new to the program (`CloneNameNew`). The
inductive invariant `CloneInv` adds what the stack of walks rests on: a walk waits
at a call of what is copied above it (`WalksWait`), no two walks are in one
function (`WalksTyped`), in front of a walk the body is still that of the program
(`Ahead`), the originals keep their bodies (`OriginalsKept`), and a call that is
not redirected has a walk in front of it (`Redirected`). `Create` copies a body
that is still the program's, which needs that main is not called;
`CloningLooksUpKnown` holds because of it. Besides `NamesAssumption` the theorems
assume `ModulesAssumption` (calls lead to functions of the module, and names are
unique) and `InstsAssumption` (the kinds of instructions are told apart).

Then the contexts, once the search has given the components their ids. `TreeInv`
adds to `CloneInv` that the ids are the components (`SearchKept`, from
`CallGraphSCC_proofs`), that every name stands for one context and every context for
one copy (`OneForEach`), that the calls of a copy are counted as the walk counts
them (`Counted`), and that what a copy asks for behind the walks is there
(`Supplied`), each walk waits for the copy that the tree asks for (`WaitsForCopy`),
and a call of a clone is one at which the tree asks for it (`EnteredBy`). The ids of
the callers in a context get smaller (`Descending`), so a context never comes back
to a component it has left. From it follow `CloningLeavesComponents`,
`CloningSeparatesContexts` (a clone is entered from one call, besides those inside
its component; here main must not be called), and `CloningImplementsContexts`, step
by step: `Create` is `Copy`, the end of main, or the start of a module without one,
is `Finish`, every other step stutters.

**`MemoryAnnotator_proofs`.** `AnnotatorInv`: every block is a `GoodBlock` — numbers
of its own, at least the operands the pass reads, and everything the pass reads or
inserts behind what it uses. One lemma (`InsertGrows`) says what an insertion keeps
and where the rest of the block goes; each `annotate` function is a chain of
insertions of which the next one knows where the last one stands. The copy of main
(`CloneGood`) needs numbers for two `insertvalue` per return that no other block
takes. From it follow `AnnotatorTypeCorrect`, `ValuesThereBeforeUse` and
`ConversionsValid`.

Then what the blocks report. `CompleteInv` says of every function of the program,
and of the copy of main once the walk has entered main, that it is `Walked`:
blocks behind the iterators report what they should; the block the iterators are
in is `Walking`, which is to say it falls into a part `A` the walk has come past
and a rest `C` that is still the end of the block the program had (`A \o C` now,
`D \o C` before, where `A` reports what `D` should); everything in front is as it
was. Two more parts make it inductive. Conversions carry numbers the program
does not have, and the pairs of `insertvalue` stay those the function started
with: otherwise an insertion could change what a tracker in another block is
said to be given, through the lookups of `Resolve` and `Returned`
(`ReportsStay`). What is put behind `Inst` may still be in front of the iterator,
but nothing in it is `Tracked`, so the walk passes over it. Each `annotate` action
is shown to move one instruction from `C` to `D`, and what it reports with its
tracker from the program to `A` (`FreeWalks` to `StoreWalks`). The copy of main is
appended behind the iterators and starts as the other functions do
(`CloneStarted`); what it awaits is what main awaits, with the result twice
(`CloneAwaited`). From it follow `TrackersComplete` and `CloneComplete`.

**Only model-checked.** `BoundsCurrent` and `OutsGrow` of `ObjectPass`, which are not
theorems for every module: a function without an exit answers any word at all
(`Results`). `LocalSound` and `AccessesInBounds` for modules with recursion: those of
`module_run` keep them, the one of `recursion` does not (section 5). All liveness (`Terminates`, `AnalysisTerminates`,
`WalkEnds`, `SearchEnds`, `CloningEnds`, `AnnotationEnds`), which the prover
cannot reach.

## 5. Where the code does not do what it says

- **Stepping back** (`PointerAnalysis.cpp` 249, 260, and the same at 747). The
  comment asks for an offset in range; the test adds a `uint64_t` offset that,
  when negative, wraps past the test. Run `step_back`.
- **The placeholder of a running call** (510, 511, 674). It is named `UNBOUND`
  and holds the mark for "in bounds". The answer of a call site below a recursive
  call may rest on it and is kept. Run `recursion`. Had line 511 assigned to
  `UNBOUND[0]`, the run would not fail.
- **Phantom edges** (`FunctionClonePass.cpp` 100). Calls of unknown functions
  become calls of vertex 0. Run `phantom_edges`.

## 6. Not modelled

Printing, the build, the sample inputs and the run-time library, which keep no
state; `PointerAnalysisExport::isInbound` and the predicates of `DataFlow.h`
181-259, which are tests of an instruction's class; `DataFlowAnalysis::get`, which
dereferences `end()` for a node that was never visited, and which nothing calls;
`getStrideWidth` and `getArraySize` (marked `@unused`).

Left out of what is modelled: `cloneMain` has no return statement although it
promises a `bool` (nothing reads the result); the sizes, strides and alignments
the trackers are given; casts of `float` and `i128`, for which line 263 of
`MemoryAnnotator.cpp` makes an extension that is no valid instruction
(`CastsValid` says what it leaves out); a program that contains the run-time
library (`test/malloc.c` includes `mtrack.h`), whose functions the pass would
annotate like any other.

## 7. The plan

1. Done: every module above, and the proofs of section 4.
2. `BoundsCurrent` for modules in which every function has an exit: it needs that
   better attributes never change an exact answer.
3. A sample module with an object of 2^31 bytes and one with a retArg0 function
   that returns an interior pointer, as runs of their own.
