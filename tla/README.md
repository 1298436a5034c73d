# TLA+ models of mrustc and minicargo

mrustc compiles Rust by way of C; minicargo builds Rust packages with it. This
directory holds TLA+ specifications of the parts of both programs in which a
step depends on what many earlier steps left behind, TLC configurations that
check them on small instances, and proofs that TLAPS checks for every value of
the constants. `PROJECT.json` maps every definition to the lines it models.
Paths below are relative to the root of the repository.

1. [The system](#1-the-system)
2. [What is modelled](#2-what-is-modelled)
3. [The runs](#3-the-runs)
4. [The proofs](#4-the-proofs)
5. [Where code and documents disagree](#5-where-code-and-documents-disagree)
6. [What is left out, and the plan](#6-what-is-left-out-and-the-plan)

## 1. The system

### The programs

| Program | State it keeps | What it does with it |
| --- | --- | --- |
| mrustc (`src/`) | one crate as AST, then HIR, then MIR; metadata of the crates it was compiled against | a fixed sequence of passes (`src/main.cpp`); each rewrites the crate or ends the process |
| minicargo (`tools/minicargo/`) | manifests, a list of packages, a list of jobs, the timestamps of output files | plans what is out of date and runs compilers and build scripts in parallel |
| jobserver (`tools/common/jobserver.cpp`) | a pipe full of tokens, shared with make and all its children | limits the number of compilers on a machine |
| procedural macros (`lib/libproc_macro`) | a child process per macro call | receives and returns tokens over pipes |
| standalone_miri (`tools/standalone_miri`) | an interpreter's memory and stack | runs monomorphised MIR |

Tools talk to each other through files (metadata, C code, depfiles), pipes (the
jobserver, procedural macros), command lines and environment variables
(`MAKEFLAGS`, `MINICARGO_RUN_ONCE`, the variables build scripts set).

### mrustc's passes

| Phase | Sources | What must hold of it | State |
| --- | --- | --- | --- |
| Parse | `src/parse`, `src/ast` | look-ahead returns every token once and in order | not modelled |
| Expand | `src/expand`, `src/macro_rules` | every macro call is expanded or reported; macro processes neither block nor lose tokens | macro calls: **ProcMacro** |
| Resolve Use, Index, Absolute | `src/resolve` | an import means the same whatever the order of modules | globs and the index: **GlobIndex** |
| HIR Lower, Resolve (Bind, UFCS, Aliases, Markings), Lifetime Elision | `src/hir`, `src/hir_conv` | every path is bound once | not modelled |
| Constant Evaluate | `src/hir_conv/constant_evaluation.cpp`, `src/include/int128.h` | a constant has the value the generated code would compute | **ConstArith** |
| Typecheck | `src/hir_typeck` | inference ends; the table of variables has no cycle; types are what the equations say | table and equations: **IvarTable**, **Unify** |
| Expand HIR | `src/hir_expand` | rewrites keep types | not modelled |
| Lower MIR | `src/mir/from_hir.cpp`, `src/mir/mir_builder.cpp` | on every path every value is dropped or moved once, in the right order | **MirLowering** |
| MIR Validate, Cleanup, Borrowcheck, Optimise | `src/mir` | passes keep what lowering established | validation only |
| HIR Serialise | `src/hir/serialise*.cpp`, `deserialise.cpp` | reading gives back what was written | not modelled |
| Trans Enumerate, Auto Impls, Monomorph, Codegen | `src/trans` | everything used is generated once | not modelled |

### minicargo

| Part | State | Operations | What must hold of it | Module |
| --- | --- | --- | --- | --- |
| manifests, repositories | packages, features | load, select features, resolve dependencies | features are the closure of those asked for | not modelled |
| list of packages (`build.cpp:220`) | `m_list`: package, host or target, level | add_package, add_dependencies, sort_list | dependencies come first, nothing twice | **BuildOrder** |
| list of jobs (`build.cpp:324`) | dirty jobs, their names and dependencies; output files | build, handle_dep, start, complete | after a successful build every output is made from the present inputs | **IncrementalBuild** |
| runner (`jobs.cpp`) | waiting, runnable, running and completed jobs; tokens | run_all, wait_one | limits, order, failures, no token lost, always ends | **JobList** |
| jobserver client | held tokens, the pipe | take_one, return_one | no token is lost or made | **JobList** |

### What makes it hard

- *Concurrency.* Compilers and build scripts run in parallel and end in any
  order; several minicargo processes and make take from one pipe.
- *Failure and interruption.* Jobs and spawns fail while others run; minicargo
  exits while its children go on; a build then starts from what they left.
- *Time-outs.* The runner waits for a token with a time-out and reaps its own
  children in between.
- *Two processes and two pipes.* A procedural macro may end, panic or print at
  any point of an exchange in which both sides write into pipes that fill up.
- *Any order.* Types are equated, and modules import from each other, in an order
  nobody chose; the result must not depend on it.
- *Control flow.* The state of a variable at a join of branches depends on
  what each of them did, at any depth; drop flags carry it into the program.
- *Boundaries.* Numbers of every width are computed with on two 64-bit words.

`PROJECT.json` lists each such hazard at its line (40 of them), with the
properties that would notice it going wrong; those without a property say why.

## 2. What is modelled

Modules and what they use; an arrow reads "is extended by".

    JobList -> JobListProps -> JobListProofs, MC_JobList
                               BuildSchedule: abstract, INSTANCE in JobListProps
    BuildOrder -> BuildOrderProofs, MC_BuildOrder
    IncrementalBuild -> IncrementalBuildProofs, MC_IncrementalBuild
    MirBuilder -> MirLowering -> MC_MirLowering
               -> MirBuilderProofs
    Int128 -> ConstArith -> ConstArithProofs, MC_ConstArith
    IvarTable -> Unify -> UnifyProps -> UnifyProofs, MC_Unify
                          TypeEquations: abstract, INSTANCE in UnifyProps
    GlobIndex -> GlobIndexProps -> GlobIndexProofs, MC_GlobIndex
    ProcMacro -> ProcMacroProofs, MC_ProcMacro

Components meet where one assumes what another shows:

- `BuildOrder` shows that dependencies come first in `m_list` and that nothing is
  in it twice (`DependenciesConsidered`, `LibrariesOnce`); `IncrementalBuild`
  takes that as `OrderAssumption`.
- `IncrementalBuild` shows that dirty jobs depend on dirty jobs (`PlanClosed`)
  and gives jobs the names and dependencies the runner compares; `JobList`
  shows for every graph that jobs then run in order. In `IncrementalBuild` the
  runner is its promise: any runnable job may start, in any number.
- `Unify` uses the table of inference variables through the actions of
  `IvarTable`. `TableRespected` says that it does so within `TableSpec`, the
  table's own specification, so that what is shown of the table holds in
  inference.

### JobList, JobListProps: the job runner and the jobserver

Each process of minicargo has a program counter `pc` over the places of
`run_all` at which others can see or change something: the head of the loop, a
`waitpid` that blocks or polls, `select`, `read`, the start of a job, and the
final drain. Local code between two such places is one step with the first.

| State | Code |
| --- | --- |
| `waiting_jobs`, `runnable_jobs`, `running_jobs`, `completed_jobs`, `force_wait`, `failed` | members and locals of `JobList::run_all` of the same names |
| `n_tokens` | the counter of `run_all` |
| `m_held_tokens`, `pool` | the client's stack of bytes; the bytes in the pipe |
| `child` | the process table: a job's process runs, has ended well or badly, was reaped |

`WaitOne` and `Poll` are `wait_one` with and without blocking, followed by
`Release` (the loop that returns tokens, jobs.cpp:142). `Select`, `Read` and
`ReadFails` are `take_one`: between the two another client may empty the pipe,
and a pipe may or may not be non-blocking. `Start` covers the spawn, its failure
(`exit(1)`), a dry run and `MINICARGO_RUN_ONCE`. Make and its other jobs are
`OtherTakes` and `OtherReturns`. Job names are numbers, because the code compares
them for order. Windows' branches are left out: the same loop with other calls.

`BuildSchedule` is what this promises without queues, waits or tokens: a job
begins once, after everything it depends on was built, never after a failure,
and at most so many at a time as there are tokens and processes.
`ImplementsSchedule` is the refinement.

### BuildOrder: the list of packages

`AddPackage` makes one of the calls that `add_package` still has to make, in any
order (the code's is one of them, and depends on manifests); `list` is a set of
entries with their levels. `SortList` sorts by descending level and then as
`sort_list` breaks ties, and removes duplicates. `Key` is `get_key`, by which
`build()` finds dependencies again, and `NeededKeys` are the keys it looks up.
Dev-dependencies of the root are a second walk (`AddRoot`), as in the code.

### IncrementalBuild: what is rebuilt

A job and its output share a name. `ts` holds modification times and `content`
the versions of all sources an output was made from, which the code does not
know; the properties compare the two. `Plan` is `BuildList::build` with
`handle_dep`, `add_job`, `handle_build_script` and `outfile_needs_rebuild`, one
round of the loop over `m_list` after the other (`Considered`). `NeedsRebuild`
compares an output with the compiler and with its depfile, in which mrustc names
the sources and the library of every crate it loaded, also by way of other crates'
metadata (`Depfile`, `Loaded`). For libraries `handle_dep` makes the same
comparisons, so that they tell apart only in tests, whose dev-dependencies
`handle_dep` does not see. Jobs start when what they wait for is done, read their inputs
(`snapshot`), and succeed or fail (`Job_Build::complete`, `Job_RunScript::complete`).
`Abandon` is minicargo's `exit` while jobs run: they go on as `orphans` and end
well or badly, with nobody to clean up after them. `Edit` changes a source or
the compiler. Which of these happen is part of an instance (`faults`).

### MirBuilder, MirLowering: ownership in MIR

`MirBuilder` is the scope stack (`Owning`, `Split`, `Loop` scopes), the state of
each slot (`Invalid`, `Valid`, `Optional(flag)`), and the operations on them as
functions from builder to builder: `EndSplitArm`, `TerminateScope`,
`TerminateScopeEarly`, `CompleteScope`, `Merge`. They emit blocks of drops, moves,
assignments and drop-flag statements.

`MirLowering` has one action per expression of a function body: `Let`, `Assign`,
`MoveOut`, `If`, `Else`, `EndIf`, `Loop`, `EndLoop`, `Break`, `Continue`, `Return`,
`Finish`, each the sequence of builder calls that `from_hir.cpp` makes. A body is
any sequence of them that Rust's rules of initialisation allow; "in" and "out"
of a frame compute these. When the function is complete, `RunBlock` executes its
blocks along every path as `check_full.cpp` does, flags included, and notes
values that are used while invalid, leaked, or dropped out of order.

### Int128, ConstArith: arithmetic in constants

`Int128` writes `U128` and `S128` as pairs of words, with the carries, borrows,
shift-and-add product and long division of `int128.h`; `WordBits` is 64 in the
code. The two loops are recursive functions, one value per turn. The bitwise
operators of C++ are those on the sets of bits that words stand for (`BitsOf`,
`WordOf`). `ConstArith` is one local of an integer type and the statements and
intrinsics that compute on it: read from bytes (sign-extended), `do_arith_checked`,
mask, write. `Fetch` chooses any statement and any operands, that is, the
contents of any constant's MIR.

### IvarTable, Unify: type inference

`IvarTable` is the vector of inference variables of `hir_typeck/helpers.cpp`: a
variable is an alias of another, or a root with a type or, for a literal, a
class. Its actions are `NewIvar`, `IvarUnify`, `SetIvarTo`, `ApplyDefaults` and
`CompactIvar`; `PointedIvar` follows aliases as `get_pointed_ivar` does.

`Unify` is `equate_types` on that table. The recursion of `equate_types_inner` is
`todo`, a stack of the equations still to be looked at; the cases of the code are
actions (`AlreadyEqual`, `NeverIgnored`, `BothUnknown`, `OneUnknown`,
`Decompose`). Around it are the passes of `Typecheck_Code_CS`: equations until
nothing changes, then the defaults of literals (`Defaults`), the check for loops
(`CheckForLoops`; a walk in the code, its result here) and `compact_ivars`, which
shortens aliases and expands types slot by slot (`Compact`, with `at` for the slot
it has come to). Types are a variable or a constructor (`Constructors`) with
arguments, nested to `MaxNesting` (`TypeRefs`). What is equated is any pair of types
over the variables (`TypesAssumption`): the rules that choose them depend on the whole
language. Going through a type, to look for a variable (`Vars`, `visit_ty_with`) or to
replace the variables (`Subst`, `expand_ivars`), is a recursive function of the types,
about which one can prove.

`TypeEquations` is what equations mean: of all ways to give the variables types,
those that are left. `NothingLostOrAdded` is the refinement: each step leaves the
set of solutions as it is or narrows it by one equation, literal or default.
`ErrorsJustified` is the other half: where the compiler gives up, no solution is left in
which the literals are numbers.

Left out: coercions, associated and erased types, const generics, sized flags,
defaults other than those of literals, and `set_ivar_to` with a type that is
itself unknown, which no caller passes. A nested `!` on the right is let through
by the code in any place; no solution is claimed then.

### GlobIndex: names imported by globs

`Base` fills each module's index with its items and named imports. Then, module
by module, each glob is followed (`UseStmt`) by calls of `Submod`, which copy what
the importer may see and go on with the globs of the module they copied from;
`stack` is the guard against recursion and `populated` the mark by which a
complete module's globs are not followed again. Visibilities are paths of
modules or `Global`; `VisContains` compares them as `ast.cpp` does (section 5).
One of the index's four namespaces is modelled, since they are filled alike;
enums and other crates' modules are modules without globs.

`Meanings` in `GlobIndexProps` is what globs mean, the least sets of bindings
closed under them; `Incoming` is all that may come to a module by them, without
regard to visibility and to what the modules on the way bind themselves, to tell
names that have one meaning (`Clear`) from those that do not.

### ProcMacro: calling a procedural macro

Two processes and two pipes. The compiler starts the macro's crate, defines a
span, waits for the byte that says the macro was found (`CheckGood`), sends one
stream, or two for an attribute, each with its end (`Send`), and parses the answer
(`Receive`) until the empty symbol or, for items, a closing brace (`ParseDone`);
the destructor waits for the child (`WaitChild`). The macro's process is
`libproc_macro`'s `main`: `Start`, `Read`, `Run`, `Write`, `Exit`. Either may end at
any point: the compiler at an error, the child by a panic, an unknown name, or
because nobody reads what it writes.

A message is a token or a mark of the protocol. The code writes bytes, a token
in several calls; both ends read exactly the bytes of one message, so nothing
is seen of its parts. The child's output buffer is part of `unwritten`: it delays
messages and keeps their order.

| State | Code |
| --- | --- |
| `pc`, `good`, `m_eof_hit` | where `ProcMacro_Invoke` and its caller are; `check_good`; the member of the same name |
| `unsent`, `taken` | what is left to send of the call; tokens the parser was given |
| `child_stdin`, `child_stdout` | the two pipes |
| `child`, `streams`, `output`, `unwritten` | where `main` is; what `recv_token_stream` returned or has so far; the macro's result; what is left of its answer |

`KindsAgree` restricts the properties to macros used as what they are, except that
the parser is given what any macro returned (`AnswerExact`). The code
does not check it (a TODO, src/expand/proc_macro.cpp:1590): an attribute that is
called as `m!(..)` waits for a second stream, and the compiler for its answer, for
ever; a function-like macro used as an attribute is given the attribute's input
only, and the item is lost, or the compiler killed by a write to a pipe that
nobody reads. `LeftBehind` is the other state no one leaves: the parser stopped at
an unmatched closing brace, and `waitpid` comes before the pipes are closed, so
that a child with more to say than the pipe holds is waited for while it waits.

## 3. The runs

| Run | Instance | Distinct states | Shows |
| --- | --- | --- | --- |
| `joblist_modes` | three processes, seven jobs, two tokens; -j2, run-once, dry run | 480 681 | safety of the runner in every mode, with failing jobs and spawns and a pipe that may be non-blocking |
| `joblist_live` | two processes, four jobs, one token, all graphs | 42 350 | termination, tokens coming home |
| `order` | four packages, all acyclic graphs, dev-dependencies on the root's users | 474 826 | dependencies first, one job per library |
| `incr_builds` | three packages, two edits, three builds; failures, exits, scripts, but no build that ends between a script and its library | 2 414 230 | success means fresh; stale outputs are noticed; nothing to do after success; inputs ready; plans closed |
| `incr_stale` | a script's package and one that fails | violation | a stale library is taken for clean |
| `mir_bodies` | two variables and an argument, five operations, two nested ifs; one variable, seven operations, two nested loops | 5 151 247 | no leak, no value used or dropped twice, order of drops |
| `mir_nested` | one variable, six operations, nested ifs | violation | a moved value is dropped |
| `const_ops` | words of 3 bits, types of 2, 3 and 6 bits, signed and unsigned | 269 480 | arithmetic, division, shifts, casts and rotations are exact, with the exceptions that the properties name |
| `const_rem` | signed types of a word | violation | signed remainders have the wrong sign |
| `unify_equate` | three variables, three equations | 42 357 | types are what the equations say, finite, and literals are numbers; every equation is answered |
| `glob_imports` | four modules, every choice of up to three globs | 3 085 544 | globs miss nothing, complete modules are complete, entries stay, following them ends |
| `macro_calls` | pipes of two messages, streams of up to four tokens | 59 660 | streams arrive whole, failures have a cause, calls end |

**The runner.** Two jobs that run and one that waits are the least at which a
release in the middle, a token for the next job and the implicit token all occur
in one process; three processes compete for them. `TokenLedger` and
`WithinTokens` are about the loop at jobs.cpp:142, `NoStartAfterFailure` and
`FailureReported` about one failure among several running jobs. Tokens are
interchangeable, so symmetry is used in the run without liveness.

*Fairness.* `Terminates` and `TokensComeHome` assume that the operating system
runs a process that can run (`WF` of its step); that a compiler ends; that make's
other jobs give back what they took; and that a reader blocked on the pipe is
woken when bytes keep coming (`SF` of `Read`): a blocked reader waits in a queue
of the kernel, so it cannot be passed over for ever. Nothing is assumed about
make taking tokens or about which child exits first. With a non-blocking pipe or
an `exit(1)`, tokens may be lost for good, and liveness is not claimed.

**Order.** Four packages allow a package reached by paths of three lengths, a
proc macro (always built for the host) between two scripts, and a
dev-dependency that depends on the root's own library. `LevelsIncrease` is the
invariant by which `ConsideredFirst`, the assertion at build.cpp:347, holds.

**Incremental builds.** A chain, a triangle, and two independent dependencies;
an edit before the second build and one before the third, in between any job
failing or minicargo leaving. A third build is where mistakes of the second
show: an output that is newer than it should be. Every write has its own time;
sources change only while nothing is compiled; otherwise no tool that compares
timestamps could be right. Jobs fail in every graph, those of a script's package,
of what it needs and of a package beside it. Minicargo exits in the graphs of
libraries, and where a script's package has no library of another (with one
there are too many states: 3.2 million for that graph alone, which passes too).
Every graph is there without exits as well, because `RebuildIsNoop` is about those
(what runs on may write later). No build ends while a script
is at work or its library is yet to be made (`CarefulSpec`, `Halfway`): what a
failure then leads to is `incr_stale`, what an exit then leads to `AbandonShapes`
(section 5). `InputsReady` speaks of the jobs of
one build. What an earlier one left behind may write a library while a job of
the next reads it: `r \notin orphans` in its place is violated in `incr_builds`.
Two more instances are kept in `MC_IncrementalBuild` (set `Topologies` to them,
with `Spec`): section 5.

**MIR.** `mir_bodies` has two sets of bodies, because of what the code gets wrong
outside them: `Again` has no if inside an if (`mir_nested`); `Once` does not assign
a variable again after it was moved (a flag taken over from the other path,
section 5). All start a loop again only with the slot states its head assumes,
and leave it only by breaks that saw every change (`MayRepeat`, `BreaksSawAll`):
otherwise see section 5. Seven operations hold a loop with a conditional move, a
break and an assignment after it. A loop is executed for as many rounds as the
flags distinguish.

**Arithmetic.** A word of three bits has every carry, borrow and sign boundary of
one of 64. Every operand of every type is tried. What is not exact is named in
the properties and listed in section 5.

**Type inference.** Three variables are the least with an alias of an alias, and
with a type that names itself through another; nested types, two literals of
one class with `!`, and two of different classes are three sets of types.
Solutions are counted over six types without variables (`Grounds`), which tell
apart what the equations can say. Types nest no deeper than six (`MaxNesting`: where
`Compact` would build one that does, it is not taken), and a stack of six calls
(`MaxCalls`, above which no call is answered) holds every equation of finite types,
as `Answered` itself shows: a call for which there is no room is not answered. Once a
type contains itself, following it need not end before the next check for loops,
in the model as in the code, and `Answered` leaves exactly that case out (`~FiniteTypes`);
equations that contradict each other are within it, and end in an error. Fairness: one thread that goes on with
what it has begun.

**Globs.** Four modules, of which one is nested, allow cycles through private,
public and `pub(crate)` globs, a chain that is followed through a module not yet
complete, and two paths to the same item. `NothingMissing` is about items that
are imported with one visibility (`OneVisibility`), because of the union
described in section 5. Fairness: one thread.

**Macro calls.** Inputs of no, one, two and four messages and outputs of up to four
meet pipes of two messages, so that each side has to wait for the other in either
direction; a closing brace comes first, last, in the middle or not at all.
Fairness: both processes are scheduled (`WF`), and a macro ends (`Run` is a step).
That the compiler meets an error and gives up is possible at any step, but
no fairness makes it happen.
One call at a time is all there is: the compiler has one thread.

Each property of a passing run has a plausible mistake in `PROJECT.json`
("mutants") that breaks it; the mutated operators stand in the modules before
those they replace, so that a reader sees what each property notices.

## 4. The proofs

| Theorem | Module | For all | Argument |
| --- | --- | --- | --- |
| `TypeCorrect` | JobListProofs | processes, jobs, tokens, graphs, modes | one step per action; the only hard case is that `n_tokens` never goes below zero: the release loop keeps at most what is held (`KeptEnough`) |
| `LedgerCorrect` | JobListProofs | same | with types: counter, stack and pipe change together in `Release` and `Read`, and bytes taken elsewhere come from the pipe |
| `TokensCoverJobs` | JobListProofs | same | `WithinTokens` is inductive once it also says that a process about to start a job has a token for it |
| `EveryJobTracked` | JobListProofs | same | each step moves a job between two queues of one process, or none (`StepShapes`) |
| `FailuresReported` | JobListProofs | same | a child is only reaped together with the report of its result, and the flag is never cleared (`Monotone`) |
| `ReturnsClean` | JobListProofs | same | `Bounded`: past the loop nothing is running, and then the release keeps no token |
| `LimitKept` | JobListProofs | same | with `Bounded`: who may start a job is below its limit |
| `SuccessIsComplete` | JobListProofs | well-ordered graphs | the loop cannot end because the rest is stuck (`NothingStuck`): a job that waits for none of the others would be runnable |
| `ParallelismBounded` | JobListProofs | same as `TypeCorrect` | an injection of running jobs into seats: one per token, one per process |
| `RunnerImplementsSchedule` | JobListProofs | same | each action begins or finishes a job of `BuildSchedule`, fails, or stutters; from all of the above (`Sound`) |
| `DependenciesFirst` | JobListProofs | same | runnable and running jobs stay covered because `completed_jobs` only grows |
| `FailureStopsStarts` | JobListProofs | same | needs that `pc` never stands at a start once `failed` is set |
| `WalkCorrect` | BuildOrderProofs | graphs, cyclic ones too | a call is pending or made good at its level or deeper; an entry is only replaced by a deeper one (`DoneStable`) |
| `SortedDeepestFirst` | BuildOrderProofs | same | at the sort nothing is pending, so every dependency is listed strictly deeper |
| `DependenciesConsidered` | BuildOrderProofs | acyclic or not, host and target builds mixed | the kept entry of an instance is the deepest (`DeepestKept`), places increase along the order of the sort and are all taken (`PlacesAreOrder`), so what is deeper comes first; a forced proc macro has the key it is asked for with (`ForcedKey`) |
| `LibrariesOnce` | BuildOrderProofs | same, the root no proc macro, not both `--target` and `-Z emit-mmir` | entries in two places are two instances, which share a key only as host and target builds of a proc macro, or without a cross-compiler: there all are native (`NativeInv`) |
| `PlanIsRight` | IncrementalBuildProofs | graphs with an order as `BuildOrder` makes it, all timestamps | by induction over the rounds, the plan is right about the outputs the loop has come to (`Right`, `Below`): each is dirty exactly when it is old or looks at a dirty one, since what it looks at came before (`LooksLower`) |
| `PlansAreClosed` | IncrementalBuildProofs | same, any edits, builds and faults | a plan is right, and jobs only start in its order (`PlanFollowed`) |
| `InputsAreReady` | IncrementalBuildProofs | same, with `NoDevTests` and `RootScript`, builds that leave no script behind (`LeavesNoScript`) | what a job reads, it or something it looks at looks at (`ReadsThrough`), so that is settled when the job starts; what is settled is complete (`WrittenInv`) |
| `RebuildDoesNothing` | IncrementalBuildProofs | as `PlansAreClosed`, with `NoDevTests` | what a build is done with is not old and stays so (`OrderInv`): only jobs that wait for it are still to be written. The runner stops early only after a failure (`AllDone`) |
| `SuccessIsFresh`, `StaleIsNoticed` | IncrementalBuildProofs | as `InputsAreReady`, without `MINICARGO_IGNTOOLS`, builds that do not end between a script and its library (`CarefulSpec`) | `IInv2`, below |
| `MergeOnThisPath`, `MergeOnOtherPaths` | MirBuilderProofs | states, flags, values | if both states describe a slot, the merged state does on both paths; except for a flag taken over |
| `LessExact`, `AddExact`, `SubExact`, `NegExact` | ConstArithProofs | word sizes | case on the carry of the low word; a sum modulo the square of the word is one of two values, and comparing it with an operand tells which |
| `ShlExact`, `ShrExact`, `SShrExact` | ConstArithProofs | word sizes, amounts | what leaves a word is what the other takes in (`MovedUp`, `MovedDown`); a negative number shifted by more than a word is left out, where the code loses the sign (`SShrNonNegative` has the others) |
| `MulExact`, `DivExact` | ConstArithProofs | word sizes | invariants of the loops, by induction over their turns, below |
| `SLessExact`, `SMulExact`, `SDivExact` | ConstArithProofs | word sizes, without the pair that `u_abs` takes for positive (`Excepted`) | the sign is the highest bit and absolute values are the sizes of the integers |
| `TypesHold` | ConstArithProofs | word sizes, integer types | each operator gives a pair, also for the operands it is wrong about |
| `WrapsAroundHolds`, `OverflowNoticedHolds`, `DivisionExactHolds`, `ShiftsKeepSignHolds`, `ValuesKeptHolds` | ConstArithProofs | same, all operands | reading extends the sign (`ReadExact`), both masks keep the remainder modulo the number of values (`MaskExact`, `MaskSExact`), which divides the square of the word (`WithinLimit`); so the exact result of the operands and that of the integers they stand for are congruent |
| `NoLoopEver` | UnifyProofs | any number of variables, any order | among any variables one is a root or an alias of another outside; unifying two roots keeps that true. The two sides must have different roots, which `TableIsRespected` shows of `Unify` |
| `LookupsEnd` | UnifyProofs | same | the set of slots a lookup visits holds a root, since the aliases do not loop, and only one |
| `EquatedForever` | UnifyProofs | same | a step that makes a root an alias gives all variables that led to it the new root; compaction keeps roots (`CompactForest`) |
| `TableIsRespected`, `InferenceKeepsEqual` | UnifyProofs | any types, equations and passes | each step of inference is a step of the table or leaves it alone (`StepRefines`): an unknown type that `get_type` returns is a root's own (`UnknownIsRoot`), so that two that differ are two roots |
| `LiteralsGetTypes` | UnifyProofs | same | `TypesInv` and `LiteralInv`: types are over the variables there are; the class a variable was made with is that of its root as long as the root is unknown, and then its type fits; inference ends only after a pass in which no default was given |
| `EquateKeepsSolutions`, `RejectsUnsolvable` | UnifyProofs | any closed set of terms `T` and any values `w` of them that are equal just when the terms are built alike from equal ones, any values literals may have (`Interprets`) | the values that satisfy the table and the calls still to answer (`Solves`) are the same after a call as before: a lookup returns a term with the value of its variable (`RootHolds`, `GetTypeHolds`), the root that is made an alias or set said no more before than its class, which the other side has now or fits, and arguments stand for what they are arguments of. `EquateKeepsSolutions` leaves out the steps that let a nested `!` pass (`LetsNeverPass`), which do add solutions; `RejectsUnsolvable` the errors for a type that names its own variable (`GivesUp`), whose absurdity is a matter of terms: `RejectionsAreJustified` |
| `TypesAreFinite` | UnifyProofs | any number of variables, types, equations and passes | `LoopsInv`: from the check for loops on, following types comes to an end; expanding the type of a slot keeps that, since the roots it then names are named by one it named before (`VarsSubst`, `CompactKeepsFinite`) |
| `NothingIsLost` | UnifyProofs | same, and any types to solve with (`Grounds`), for behaviours in which no nested `!` is let through | the solutions of the table are the valuations that solve it as `EquateKeepsSolutions` says (`MeaningIs`): types have equal values just when they are built alike from types with equal values (`ValuesInterpret`). A new literal, an equation and the defaults narrow them by what they say; expanding a type replaces variables by what has their value (`SubstSubst`, `CompactSolves`), which needs that types are finite |
| `RejectionsAreJustified` | UnifyProofs | same, with nested `!` too | a type that is not built like the other has another value (`RejectIsRight`). One that contains its own variable, directly or through others, has none: its value would be nested in itself (`NoDescent`). Two classes of literals have only `!` in common, and an unknown root that has a class is that of a variable of a literal (`BornInv`) |
| `FirstStays`, `DeclarationsWin` | GlobIndexProofs | trees of modules, what they declare and import | an index only grows, and by `AddItems`, which keeps the entry of a name |
| `CompleteStays` | GlobIndexProofs | same | a module that is marked before its globs are followed has private ones (`MarkedRightly`), what they bring is for itself, and a module before it in pre-order is not within it |
| `NothingIsMissing` | GlobIndexProofs | same | `FollowInv`, below |
| `ExpansionCorrect` | ProcMacroProofs | streams, sizes of the pipes, both kinds of macro | what a side has received, what is in the pipe and what is yet to be written follow each other in the script of the other side without a gap (`Back` for the answer, `Forth` for the call); the child's place in the script is where its streams end (`Seen`) |
| `FailureCorrect` | ProcMacroProofs | same | a child that ends while the compiler writes has read the whole script, so nothing is left to write; one that ends before its answer was whole had none |

*Why timestamps are enough.* The code knows times only; what an output was made
from is not written anywhere. The invariant that connects the two speaks of one
output and what it reads: an output that is complete and no older than anything
it reads is fresh if those are (`LocallyFresh`). An edit keeps that, because a
source it makes newer is known to whatever reads it (`ContentInv`: an output names
the sources its inputs name), so that either an input is no longer fresh or the
output is now older than one. A job that ends keeps it, because those that read
it become older than it. A plan compares an output with what it looks at, which
is not all it reads: the rest it reads through those (`ReadsThrough`), and
not being older is transitive, except that a library is not compared with its
script's output (`ScriptsOlder`). So among the outputs that a plan leaves out
the first that is not fresh would be locally fresh, a contradiction
(`CleanIsFresh`); and when a build ends well all of its jobs are done.

The hypotheses are the places where it is not true. Jobs fail and minicargo exits
at any time, in graphs with scripts too, but not between the start of a script
and the end of its library (`EndsOutsideScripts`): a build that ends there may leave
a library older than its script's output, which is what `incr_stale` shows, or a
script that outlives its minicargo. So at any other time the library is no older
(`ScriptsOlder`), and what is left behind are compilers, which replace an output
when they are done, and only if they succeed. `InputsAreReady` needs only that no
script is left behind (`LeavesNoScript`). `RootScript` excludes a root with a script and no
library, which does not wait for the script (build.cpp:494), and `NoDevTests` tests
with dev-dependencies, which they do not wait for (`TestShapes`); `RebuildDoesNothing`
needs `NoDevTests` too, since a test that was built before its dev-dependency is
rebuilt after a success. Section 5 has all of these. `PlanIsRight` and
`PlansAreClosed` need none of them. `PlanIsRight` is
a proof by induction over data, as `NothingIsMissing` is: sets take the place of
the library's operators (`NaturalInduction`).

*Why constants are what the machine would compute.* The loop of `mul128_o` adds
b * 2^i for each bit i of a: after n turns `o` is the product of b with the n low
bits of a, modulo the square of the word (`OneMoreBit`), and the loop stops early
only when a has no more bits (`SpentExact`). In that of `div128_o` a = q * b + r
throughout, with r below twice the shifted b, which is b times the mask
(`DivisionStep`); when the mask has come down to one, r is below b. The shift it starts from is
the least that makes b more than half of a (`ShiftsUpExact`), so that neither it
nor the mask loses a bit. That the recursive functions take those
turns is shown by `Iteration`: a loop defined by its first value and its step
exists and is the only one, by induction over a set of numbers
(`NaturalInduction`). The rest is arithmetic of remainders (`SameRemainders`,
`RemainderOfRemainder`). The exceptions are in the properties themselves, where
the code differs: the `i128` -2^64, shifts of a negative one to the right by more than a
word, and rotations of a word-wide value, of which only those by nothing are right.

*Why the recursion guard loses nothing.* `Wildcard__submod` returns at once for
a module whose call has not returned yet. The invariant `FollowInv` speaks of one name and
the module at hand: whatever one of its begun globs leads to is in its index, or a call
still to be done leads there by a way that avoids the modules whose calls will not have
returned when it is made. When the call is made, its module either shows the name, which is then
copied, or leads on by one of its globs, and on a way that does not come back to it
(`FindsOn`: otherwise the modules that lead there avoiding it would be
closed under leading there, and it is not among them). So when nothing is left
to be done nothing is missing, provided complete modules have what their globs
would bring: that is the same claim about a module done before (`DoneInv`), or `CompleteStays`'
argument for one marked early. `SourceInv`, that every entry was written in
a module the globs lead to, shows that the entry is the right one, since the name has one meaning, and
`OneVisibility` that it may be seen. Meanings are least by induction over rounds (`MeaningsLeast`).

`Incoming` looks behind what the modules on the way bind themselves because the
claim is false otherwise: for `ShadowCrate` (section 5), which has more imports
than the run's crates.

Assumptions: `ConstantsAssumption` (finite sets and the types of the constants)
and `PrivateServerAssumption` of `JobList`; the types of `BuildOrder`'s constants, and that
no two packages share name and version, by which jobs are named;
`TopologyAssumption` (types) and `OrderAssumption` of `IncrementalBuild`: the list has no
duplicates, dependencies come first and those of the root are in it;
`WordAssumption` of `Int128` (a word has a bit or more) and `TypesAssumption` of
`ConstArith` (integers fit a word or fill two); `PreorderAssumption`,
`GlobalAssumption` and `CratesAssumption` of `GlobIndex` (modules in
pre-order, the form of declarations and globs; a private glob is for its module);
`BoundsAssumption`, `ConstructorsAssumption` (the defaults of literals are types, variables
are none), `TypesAssumption` (what is equated are types over the variables there are)
and `GroundsAssumption` (types to solve with; `!` has no arguments) of `Unify` and
`UnifyProps`; `ProcMacroAssumption`
(marks are no tokens, a pipe holds at least one message). TLC evaluates all of
them on every run. `SuccessIsComplete` is for dependencies that are well-ordered
(`WellOrdered`: every set of jobs has one that depends on none of them), which
is what `MC_JobList` calls acyclic. The types of `JobList`, of the walk of
`BuildOrder`, of `IvarTable`, of `GlobIndex` and of `ProcMacro` are proved and not repeated in the
runs; `MirLowering`'s references are part of `NoInvalidUse`.

Only model-checked: liveness and fairness (`Terminates`, `TokensComeHome`,
`Answered`, `Ends`, `CallEnds`), which need ENABLED; how
`MirLowering` executes what it emits (`NoLeak`, `LastDeclaredFirst`,
`NoInvalidUse`), whose folds over statements and scopes need induction and whose
invariant would have to describe every path of a half-built function;
that a call of `equate_types` ends (`Answered`). What `Unify` does with whole types is
proved by induction on how deep they nest: `TypeInduction` says that a set of types
that has each type whose arguments it has is the set of all of them, and follows from
`NaturalInduction`, that of the natural numbers. Both speak of a set and not of a
formula, so that the provers can use them; `VarsDef` and `SubstDef` show with it that
the functions that go through a type are what their definitions say, a fact the library
has for functions of natural numbers only.

## 5. Where code and documents disagree

Shown by runs:

1. *A moved value is dropped* (`mir_nested`, src/mir/mir_builder.cpp:1448). When an
   arm ends, its parent's state is looked up with one arm skipped; where the arm
   itself has no entry for the slot, the enclosing arm is skipped instead. In
   `if a { drop(x); if b { x = new } }` the moved `x` is believed valid.
2. *The sign of a remainder* (`const_rem`, src/include/int128.h:332). `-1i32 % -2` is
   1 in a constant and -1 in generated code (src/trans/codegen_c.cpp:735).
3. *A library older than its script's output is clean* (`incr_stale`,
   tools/minicargo/build.cpp:439) if the build that ran the script failed later.

Shown by instances kept beside the runs:

- `AbandonShapes` (for `Topologies`) breaks `StaleNoticed`: os.cpp:211 truncates a script's
  output file and only `complete(false)` renames it, so a minicargo that exits
  (jobs.cpp:257) leaves a partial file that looks up to date, against
  build.cpp:807 "On failure, remove the output (to force a rebuild next time)".
- `TwiceCrates` (for `Crates` of `MC_GlobIndex`) breaks `NeverHidden`:
  `Visibility::contains` compares the wrong way round (src/ast/ast.cpp:204), so
  that `inplace_union` narrows a visibility where it should widen it: after
  `pub(crate) use a::x;` a private `use a::*;` of the same module makes `x`
  private, against src/ast/item.hpp:63 "Updates this visibility such that
  `contains(x)` returns true".
- `ShadowCrate` (for `Crates` of `MC_GlobIndex`) breaks `OnlyMeanings`: the globs of a
  module that is not complete are followed (src/resolve/index.cpp:531) also for
  names which the module binds itself where the importer may not see them. With
  `use b::x; pub use c::*;` in `a`, `use a::*; use b::*;` in the root takes the `x` of `c`, and not
  that of `b`; from an `a` that is complete it could not be had. `SomeCrates`
  breaks `OnlyMeanings` too: `Submod` gives what it copies the visibility of the import,
  so that a `pub` glob shows a private item that the importer may see to everyone.
- `TestShapes` (for `Topologies`, with `TestMode`) breaks `InputsReady`: a test waits
  for its package's library only (build.cpp:504), though dev-dependencies are
  passed to the compiler (:960), against build.cpp:519 "Now that all libraries are
  done, build the binaries (if present)". With two builds and an edit it breaks
  `RebuildIsNoop` and `SuccessMeansFresh` too: the test, older than the dev-dependency
  in its depfile, is built again after a success, or was built from the
  dev-dependency as it was before.

Met while modelling and excluded by a named condition:

- A compiler that outlives its minicargo (jobs.cpp:257) may write a library while a
  job of the next build reads it: nothing in the next build waits for it.
  `InputsReady` is about the jobs of one build, and `StaleNoticed` and
  `SuccessMeansFresh` count such a write as made at once.
- Duplicates in the list of packages are removed per package and host, but
  `get_key` and `get_output_dir` (build.cpp:58, :282) name a build script's job by
  its package alone: cross-compiling a package with a script that host and target
  both need gives two jobs of one name, which write the same files.
  `OneJobPerLibrary` is about libraries only. A root that is a proc macro is pushed
  as a target package (:299) and `get_key` names it as a host package: if its
  dev-dependencies need it, it has two jobs of one name (`ProcMacros = {1, 3}`).
- A macro's kind is not checked, and its destructor may wait for ever (section 2,
  `KindsAgree`, `LeftBehind`).
- Types that name themselves through other variables make `equate_types_inner`
  recurse without end if they are equated before the next check for loops
  (`Answered`); `ivar_unify` says of it "TODO: Assert that setting this won't cause
  a loop" (src/hir_typeck/helpers.cpp:875).
- A slot valid on one path takes over the other path's drop flag, which may have
  been cleared since (mir_builder.cpp:1088; `Reuses`). In
  `if c {} else { drop(x) }; if d { x = new }` the new value is leaked; the
  repository's README admits "still some possible leaks" (README.md:126).
- A loop's head assumes the slot states of its entry; a body that ends in others
  is lowered as if it did not (`MayRepeat`). After a loop the states are those of
  the last break (from_hir.cpp:818; `BreaksSawAll`).
- `u_abs` returns -2^64 unchanged (int128.h:340): products and quotients of that
  i128 are wrong. A negative i128 shifted right by more than 64 loses its sign in
  the low word (:369).
- `mul_with_overflow` of unsigned types misses results that wrap to above both
  operands (20u8 * 20; constant_evaluation.cpp:1745). Signed
  `add_with_overflow` only notices overflow of i128 (:1810), and so does
  `sub_with_overflow`, which masks magnitudes (127i8 - -1 is 128, and 128 fits
  eight bits; :1821). Saturating signed addition clamps to 0 and -1 (:1812).
- A shift by the width itself passes the test (:1652). `rotate_left` and
  `rotate_right` leave 64-bit values as they are (:2684 tests the width for 64).
  `bitreverse` shifts once more after the last bit (:2668; not modelled).
- With `-Z emit-mmir` a library may wait for a dropped job (build.cpp:423), and
  constructor and `build()` disagree about cross-compilation (:326). A binary
  without a library ignores its script's job (:494). Cyclic dependencies recurse
  without end (:253).

## 6. What is left out, and the plan

Not modelled because it is text or data: the grammar, formatting, mangling,
generated C, manifests' syntax, command lines, depfiles' syntax. Not modelled
because it depends on the whole type language: trait selection, the rules of
inference, monomorphisation of types. `PROJECT.json` lists every component.

Within the modelled parts: Windows' process handling; `Partial` and `MovedOut`
states, temporaries, freeze scopes, match guards and short-circuit operators in
MIR; floats, pointers, counting bits, memory and calls in constants; script
overrides and host/target outputs in incremental builds; the rules, coercions
and traits of inference; the other namespaces, exported macros and anonymous
modules of the index; the encoding of tokens between compiler and macro.
Of that encoding, reading shows three faults that no model here is about:
`send_int` writes signed values without the zig-zag `get_i128v` expects
(src/expand/proc_macro.cpp:346), and the compound operators `-=`, `<<=` and `>>=` are
sent as `-`, `<=` and `>=`.

Next, most important first:

| Module | Of | Question | Abstract specification |
| --- | --- | --- | --- |
| MirLowering, extended | from_hir_match.cpp, mir_builder.cpp | match arms and guards, partial moves | drops as Rust defines them |
| StringPool | rc_string.cpp | is interning unique and the cached order stable? | a set of strings |
| TokenStream | parse/tokenstream.cpp | is every token returned once, in order, with its hygiene? | a sequence and a position |
| Features | tools/minicargo/manifest.cpp | is the closure complete, whatever the order? | closure of a relation |
| EvalOrder | constant_evaluation.cpp:896 | is each constant evaluated once, and are cycles found? | - |
| EnumList | trans/enumerate.cpp | is everything reachable listed once? | reachability |

Theorems next: inductiveness of references in `MirBuilder`.
