# A verification development for jmake

jmake is a GNU Make clone in Rust (`src/`, 23,000 lines).  This directory holds
TLA+ models of its build engine, the TLC configurations that check them on
small makefiles, and theorems, checked by the TLA+ proof system, about every
makefile.  Paths below are relative to the repository.

## How to run

    tlc -workers 2 -config ParallelScheduler.cfg MCParallelScheduler.tla
    tlapm ParallelScheduler_proofs.tla

`PROJECT.json` lists each run (module, configuration, properties, whether a
violation is expected), the source lines each definition stands for, the
mutations each property was seen to catch, the hazards the properties answer,
and the theorems.

## Inventory

| Component | Source | State it keeps | Operations | What makes it correct |
|---|---|---|---|---|
| Parallel scheduler | `src/exec/parallel.rs` | plans, the graph and its reverse, node states, ready queue, running count, error and drain flags, intermediate list | `new`, `find_initial_ready`, `should_launch`, `pop_ready`, `recv_result`, `handle_completion`, `propagate_completion`, `has_work`, `final_error` | no recipe before what it needs, none twice, none lost, `.WAIT` respected, the loop never blocks for nothing, the exit status tells the truth |
| Worker pool | `parallel.rs` `spawn_workers`, `execute_job*` | one job each | take a job under the receiver's lock, run it, send the result | a job taken is a result sent; end when the job channel closes |
| Parallel dispatch loop | `src/exec/mod.rs` `build_targets_parallel`, `build_job_from_plan` | the scheduler, the two channels | launch, complete without a job, wait, join, report, delete intermediates | same |
| Sequential build | `mod.rs` `build_targets_sequential`, `build_target`, `build_target_inner`, `build_with_rules` | `built`, `failed_targets`, `building` and its stack, `circular_dropped`, errors | one depth-first walk per goal | every target once, prerequisites first, cycles broken, what is reported up to date is up to date |
| Out-of-date test | `mod.rs` `file_mtime`, `effective_mtime`, `needs_rebuild`, the pre-check of `build_with_rules` | `mtime_cache` | cached stat, eviction after a recipe | never decides on a stale time |
| Plan collection | `mod.rs` `collect_plans`, `record_leaf_plan`, first half of `execute_recipe` | `pending_plans` and the staging vectors | the sequential walk with recipes recorded instead of run | the plans are the graph the sequential walk would have followed |
| Recipe execution | `mod.rs` `execute_recipe`, `run_cmd_with_error_handling`; `parallel.rs` `execute_job_*` | none kept | expand, split, prefix flags, run, delete on error | stop at the first failure, exit status, `-`, `+`, `.ONESHELL` |
| Pattern and implicit rules | `mod.rs` `find_pattern_rule*`, `build_with_pattern_rule`, `src/implicit_rules.rs` | `pattern_rule_cache` | search, chain, stem substitution | the first rule that applies; the cache never answers for another state |
| Grouped and double-colon targets | `mod.rs` `build_with_rules_grouped`, `build_with_double_colon_rules` | `grouped_covered` | one recipe for several targets, several recipes for one | the group's recipe runs once |
| Target-specific variables | `mod.rs` `collect_target_vars` and the frames of `build_with_rules` | `inherited_vars_stack` | push before the prerequisites, pop after, on every path | a prerequisite sees its requester's frame; the stack is balanced |
| Intermediate deletion | `mod.rs` `delete_intermediate_files` | `intermediate_built` | filter, order, remove | everything made on the way is removed, nothing else |
| Makefile inclusion and remaking | `src/eval/mod.rs` `try_update_makefiles`, `do_reinvoke`, include handling | pending includes, `include_imagined`, `include_already_ran`, `MAKE_RESTARTS` | rebuild included makefiles, re-execute | terminates; a recipe already run is not run again |
| Variables | `eval/mod.rs` `set_variable`, `src/types.rs` | `db.variables`, origins, flavours | the six assignments, define, undefine, override, export | the priority of origins |
| Expansion and functions | `eval/expand.rs`, `functions/mod.rs` | recursion guards | text in, text out | agrees with its definition; ends |
| Parser | `src/parser/` | conditional stack, pending rule | lines to rules, assignments, conditionals | balanced conditionals, rule context |
| Command line | `src/cli.rs` | arguments | options, `MAKEFLAGS` in both directions | a sub-make gets its parent's options |
| Signals and temporary files | `src/signal_handler.rs`, `main.rs` | two buffers with their lengths | set, clear, handler | the handler sees a whole buffer or none; the temporary file is removed |

The components interact in one process.  `main` parses the command line, the
evaluator reads makefiles into the database (running `$(shell)` and includes as
it goes), remakes makefiles and possibly re-executes, then hands the database
to the executor.  With `-j 1` the executor walks the graph and runs recipes in
place.  With more jobs it walks the same graph once in plan-collection mode,
gives the plans to the scheduler, and the main thread and the workers then
communicate only over two channels.  Only this last part is concurrent; the
rest is sequential but long-lived and stateful: memo tables, caches and stacks
that must stay consistent over a whole build.
## The modules

| Module | Models | Checked by |
|---|---|---|
| `PlanGraph` | `ParallelScheduler::new`: plans, the injected `.WAIT` barriers, who waits for whom | through `ParallelScheduler` |
| `ParallelScheduler` | scheduler, dispatch loop, workers, both channels | run `scheduler` |
| `OrderedBuild`, `ScheduledBuild` | what a parallel build promises, without queues, threads or channels; the mapping that shows the scheduler to implement it | run `scheduler` |
| `Freshness` | `effective_mtime`, the pre-check of `build_with_rules`, `needs_rebuild`, as functions of the times the executor believes | through `BuildWalk`, `PlanCollection` |
| `BuildWalk` | the sequential build on explicit rules, with its memo, its time cache, grouped targets and the removal of intermediate files | run `walk` |
| `PlanCollection` | graph resolution, `collect_plans`: the same walk recording plans, with double-colon rules and target-specific variables | through `ParallelBuild` |
| `ParallelBuild` | `build_targets_parallel` from end to end: `PlanCollection` composed with `ParallelScheduler`, beside the sequential build of the same makefile | run `parallel` |
| `RecipeExecution`, `RecipeContract` | one recipe, run by the main thread or planned and run by a worker; what a recipe promises | run `recipe` |
| `FileNames` | names as sequences of pieces, `match_pattern`, `apply_stem` | through `RuleBase`, `ImplicitRules` |
| `Variables` | `set_variable`, `define`, `undefine`, `export` | through `MakefileReader` |
| `RuleBase` | `register_rule` and what it does to the tables of `MakeDatabase` | through `MakefileReader`, `ImplicitRules` |
| `MakefileReader` | reading: files, includes, `$(eval)`, conditionals, `define`, open rules | run `reader` |
| `Remake` | `try_update_makefiles`, `build_include_prerequisites`, `do_reinvoke` | run `remake` |
| `ImplicitRules`, `ImplicitBuild` | the search for a pattern rule and its cache; the build by pattern rules, twice over | run `patterns` |
| `TermSignal` | the SIGTERM handler against the code that writes its buffers; the temporary file through `exec` | run `signals` |
| `Sublists` | the members of a list that are in a set, in order | through `RecipeExecution` |
| `SequenceFacts`, `ParallelScheduler_proofs`, `BuildWalk_proofs`, `RecipeExecution_proofs`, `TermSignal_proofs`, `Remake_proofs`, `RuleBase_proofs`, `MakefileReader_proofs` | theorems | the proof system |
| `MC...` | the makefiles, recipes and line alphabets of the runs | |

### ParallelScheduler

The main thread is a program counter over the loop of `build_targets_parallel`;
each worker has its own state; `jobs` and `results` are the two channels.
`sched` is the state of the Rust struct (`states`, `ready_queue`,
`running_count`, `has_error`, `draining`, `intermediate_built`).  There is one
action per step another thread can observe: `LaunchJob`, `CompleteWithoutJob`,
`AwaitResult`, `HandleCompletion`, `LeaveLoop`, `Return` of the main thread,
`TakeJob`, `FinishJob`, `ExitWorker` of a worker.  `propagate_completion`, which
recurses through dependents that are up to date, is one step, as in the code,
where nothing else touches the scheduler meanwhile; what it settles is written
as the least set closed under its step (`Settled`).

Abstractions.  A plan's prerequisite lists are sets, since only membership
matters to the graph.  Nodes are released into the queue in any order (the code
iterates over hash maps), and whether a mark *Failed* of one visited node is
seen by the next depends on that order too (`FailureMarks`).  What a recipe does
is one step of a worker with either result.  Barrier names are assumed not to
be target names.

### BuildWalk and Freshness

The recursion of `build_target` is an explicit stack.  A frame is a call of
`build_with_rules` or `build_with_rules_grouped` under way: its target, the list
it works through, the lists that follow, and whether a prerequisite was rebuilt
or failed.  `ret` is what the last call returned.  An action is what the code
does between two calls:

| Action | Code |
|---|---|
| `Memoized` | the tests of `built` and `failed_targets` at the head of `build_target` |
| `DropCycle` | its test of `building` |
| `Leaf` | the end of `build_target_inner`: a file without a rule |
| `EnterFresh`, `FinishFresh` | the pre-check finds the target fresh; its order-only prerequisites are built, then `Ok(false)` |
| `EnterSingle`, `EnterGroup` | the other two entries |
| `Resume`, `Abandon` | a prerequisite's result is taken, or ends the frame |
| `NextList`, `BuildSiblings` | the next list of prerequisites: of an intermediate file passed over, of a sibling |
| `FailPrereqs`, `NoRecipe`, `Skip`, `RunEmpty`, `RunRecipe`, `RecipeFails` | the ways a frame ends |
| `NextGoal`, `GoalFails`, `Finish` | the goal loop and its two exits, with `delete_intermediate_files` |

`view` is what `file_mtime` answers; a test comes with the set of files it asks
for, computed with the early exits of the code, and these enter `mtime_cache`.

Abstractions.  Times are naturals; no file is newer than the start of the
build, and each recipe runs later than any before it.  A recipe writes the
files the makefile gives it or, if it fails, all of them or none.  The rules of
a single-colon target are one rule, as the executor merges them on entry.  Left
out: VPATH and GPATH, `-W`, `-n`, `-q`, `-t`, second expansion, `.DEFAULT`,
`.SECONDARY`, `.NOTINTERMEDIATE`, `.PRECIOUS`, `.EXTRA_PREREQS`, `--shuffle`,
`-l` libraries, and targets already remade while makefiles were included.

### PlanCollection and ParallelBuild

Graph resolution is a function of what make is given, because nothing runs
meanwhile: `BuildTarget` takes the walk's state and returns the one after the
call.  Most operators are what `build_with_rules` or
`build_with_double_colon_rules` does between two calls, under the name of what it
decides: `FoundFresh` (the pre-check's early return, which inserts a plan of its
own), `BuildNeeds` (the push of the target's variables, the prerequisites, the
order-only ones, and the pop on both exits), `AfterNeeds`, `Deciding` (the plan
that is inserted whether or not the recipe is to be run), `PlanRecipe`
(`execute_recipe` completing that plan), `PlanRule` and `FinishFamily` (the
virtual nodes of a double-colon target and the marker that ends them), `Leaf`
(`record_leaf_plan`).  With `collecting` false the same operators run the recipes:
that is the sequential build to compare with.

`ParallelBuild` has the actions `ResolveGraph` and `RefuseGraph` (collection has
ended, with plans or with an error), `SetUpScheduler` (`new` and
`find_initial_ready`) and `Building`, which are the actions of
`ParallelScheduler`, whose recipes end as is given.  The value of a variable is
the list of the targets that have put a word in it.

Left out here: grouped targets, `.EXTRA_PREREQS`, pattern rules, second
expansion; pattern-specific variables, `override`, `?=` and export marks.

### RecipeExecution

`phase` leads from `start` to `running` directly, or through `planned` and `queued`
with `-j` (`CollectPlan`, `Dispatch`).  `Touch` is `-t`; `Expand` takes the next
line of the makefile, and for each of its commands comes `SkipEmpty`, `Preview`
(`-n`), `Run`, `Fail` or `CannotSpawn`; `Finish` returns.  `exec/mod.rs` and
`exec/parallel.rs` have a copy of the loop each; where they differ, the
definition distinguishes `job.parallel`: the worker has the expanded text where
the main thread has the line as written (`Rejoined`).  `cached` and `disk` are what
`mtime_cache` and the file system say of the target.  The text of commands, the
environment and the layout of what is echoed are left out.

### Variables, RuleBase, MakefileReader

A makefile's text is not fixed beforehand: each line that is read is one of an
alphabet.  `frames` is the stack of parsers: the makefile, an included file, a
text of `$(eval)`.  `ReadLine` is one turn of `process_parsed_lines` (the
conditional or `define` block it falls into first, then what kind of line it
is, then the drain of `eval_pending`); `Drain` and `EndOfText` end a text, `Raise`
carries an error out of the frames, `StartFile` and `SkipFile` are the loop of
`read_makefiles`.  `register_rule` is one function from database to database, in
the order of its cases: conflicts, special targets, the default goal, the
cancelling of pattern rules, suffix rules, merging.  `set_variable` likewise, for
six flavours against every origin; the value of `:=` is expanded before the rule above
is registered (`Immediate`), so that `.DEFAULT_GOAL := $(EMPTY)` gives the goal up and
`.DEFAULT_GOAL = $(EMPTY)` says that there is none (`SetGoal`).  The goal from before
`MAKEFILES` comes back only if that names a file (`restores`).  Left out: the words
inside a line, continuation lines, comments and quoting, target-specific variables,
`private`, what `MAKEFLAGS` sets off, and `-I`; values that refer to `.DEFAULT_GOAL`, and
`.DEFAULT_GOAL != command` (`KeepsGoalApart`).

### Remake

One image after another of the process.  `ReadMakefile` and `AllRead` read;
phase A walks `makefile_list` (`SkipListed`, `EnterListed`, `KeepListed`,
`RemakeListed`, `EndListed`), the prerequisites of a makefile being built on a
stack (`PassOver`, `GoDown`, `ComeBack`); the includes that could not be read are
settled or queued (`SettlePending`, `EnterPending`, `QueuePending`, `EndPending`),
their recipes end one by one or, with `-j`, in any order (`FinishRecipe`,
`EndRecipes`), and are judged (`Judge...`, `EndResults`); then the process executes
itself (`Reinvoke`, `CannotReinvoke`) or the build begins.  A recipe writes its
file, another one, or nothing, or fails.

### ImplicitRules and ImplicitBuild

`find_pattern_rule` is an operator on the database, the files that are there and
the targets under way: its three passes, terminal rules, rules for any file,
stems with directories, VPATH, chains.  `pattern_rule_cache` keeps the answers and
`mtime_cache` the times: each test comes with the set of what it looks up, rules and
times, computed with the early exits of the code, and these enter the caches
(`Remembering`).  A recipe replaces the remembered time of its own target only, as in
`BuildWalk`, so that those of its siblings and peers may be old.
`ImplicitBuild` is the walk of `BuildWalk` with `build_with_pattern_rule` in the
place of `build_with_rules` (`Enter`, `Resume`, `Abandon`, `Skip`, `Run`,
`RunNothing`, `RecipeFails`; an explicit rule is `BuildExplicit`), with the peers of
a pattern rule and grouped siblings, the goal loop, the deletion of intermediate
files, and a second build (`Again`) after a first that succeeds.

### TermSignal

The handler is a process of its own (`Sigterm`, `LoadMessageLength`,
`WriteMessage`, `Unlink`, `Raise`) that may start between any two steps of any
thread.  A message is copied word by word (`CopyWord`) before its length is
stored (`StoreLength`); `clear_term_message` clears the length only, so old words
stay in the buffer.  The main thread reads a makefile from standard input into a
temporary file (`ReadMakefile`, `CopyPath`, `StorePath`, `HoldPath`), has included
files remade, executes itself (`do_reinvoke`) or not, builds, returns through
`main` (`RemoveFile`, `clear_temp_stdin_path`) or exits.

## The runs

| Run | Question | Expected |
|---|---|---|
| `scheduler` | order, queue, accounting, `.WAIT`, completeness and end of the parallel build; does it implement `OrderedBuild`? | holds |
| `walk` | memo, cycles, groups, order, failure, cache, freshness, a second build, deletion and end of the sequential build | holds |
| `parallel` | does make `-j` remake what make does and fail when make does (`AsSequential`)?  Does a recipe ever overtake one beneath it (`NothingStartsEarly`)?  Has each recipe the right variables (`VariablesHandedDown`)? | holds |
| `recipe` | deletion on error and remembered times (`TargetAsLeft`), `-n` and `-q` (`AskingFaithful`), and the contract, on both ways to run a recipe | holds |
| `reader` | do the tables agree with the lines that were read, in the order in which they were read? | holds |
| `remake` | does the build begin on makefiles as they are and with all that are required (`BuildsOnMakefiles`)?  Does remaking end? | holds |
| `patterns` | does the build keep what the search promised; does a recipe for several files run once; is what was asked for fresh, and a second build idle? | holds |
| `signals` | does the handler write a whole message, and is the temporary file gone? | holds |
| `keep_going` | with `-k -j`, are targets that do not depend on a failed one built? | violated |
| `wait_cycle` | do injected barriers never deadlock? | violated |
| `missing_rule` | is a missing rule reported with `-k -j`? | violated |
| `stale_makefile` | is a makefile that was remade always read again? | violated |

A violated run checks one statement a comment or document of the repository
makes and the code does not keep; `PROJECT.json` quotes each.

### What the properties assume

Several properties have premises; each excludes a case listed below under
*Divergences*, or one where the property would be wrong of any make.

- `UpToDateAtEnd` (`Plain`): recipes write their own targets and nothing else
  (`SelfMaking`, `OwnOutput`), no file is missing below one that is there
  (`NoHoles`), no phony target is there as a file (`NoPhonyFiles`), there are no
  grouped targets (`Ungrouped`), and no chain of prerequisites is longer than
  `effective_mtime` looks down (`Shallow`); no cycle was cut.  Beyond each of them a
  build can return success and leave a target older than what it needs.
- `NullBuild` (`NothingToDo`): nothing the goals lead to is phony; each file that is
  there, and each that is called for whatever its state (goals, order-only
  prerequisites, what grouped targets need), is not older than what it needs and
  what the missing ones among that are made of, all the way down.
- `CacheFresh` leaves out targets that failed: `execute_recipe` returns before it
  evicts them.  `GroupRunsOnce` leaves out two targets of a group one of
  which is made on the way to the other: needed by it, by a sibling, or by what
  these need.  `IntermediatesRemoved` speaks of targets without siblings.
- `AsSequential` (`Comparable`): no holes; no cycle in the plans; nothing without a
  rule under `-k`; no failure beneath an order-only prerequisite; a double-colon
  target has a recipe in every rule, and if it has several rules it does not
  exist at first.
- `VariablesHandedDown`: along paths of normal prerequisites; a target found fresh
  pushes nothing for its order-only ones.
- `BuildsOnMakefiles`: about makefiles changed by their own recipe; one changed as
  a prerequisite of another is run `stale_makefile`.
- `FreshAtEnd`, `SecondBuildIdle`: recipes make what they should (`Tidy`), files made
  by one recipe are there together (`Whole`), no circle of pattern rules, no goal
  makes the source of an earlier goal (`Sourced`), every pattern rule has a
  recipe, and for the second build, no terminal rules and no phony targets.
- `RegisteredInOrder`, `DefaultGoalIsFirst`, `CommandLineHolds`, `MergedWhole`: see
  *Divergences*, Reading.
- `MessageWhole`: while recipes of includes run one after the other, which without
  `-j` they do.  `TempRemoved` after SIGTERM: once the image that wrote the file has
  registered its path.

### Bounds, and why they are enough

*scheduler.*  Two workers; every acyclic set of plans over three targets, and
larger shapes of up to five for diamonds, chains of up-to-date targets,
order-only edges and up to three `.WAIT` groups.  Two workers suffice for two
results to arrive in either order with a third target waiting; the theorems
hold for any number.  `-l` is a choice at every test.

*walk.*  Four files, three of them with rules: over a hundred makefiles times the
initial times 0 (absent), 1 and 2 of each file, which give every order of four
files up to ties of three, times `-k`, `-B` and every subset of failing recipes.
Three levels of rules are what the three out-of-date tests need to disagree:
they look one level down, one level and the sources, or all the way.
`MaxDepth` is 2 where the code has 10: with it `effective_mtime` looks exactly as
far as the longest chain over four files goes, so that the run meets the limit,
and with one level less (fault `GivingUpEarly`) `UpToDateAtEnd` is violated.

*parallel.*  Five files and two workers: three levels below a goal, two branches,
and a file for order-only edges; every order of times that puts a made file
before or after its source, each file missing or not.  `MaxDepth` is 2, which no
such makefile exceeds.  `-l` is in run `scheduler`.

*recipe.*  Two lines and three commands: a failure before, between and after
other commands, and a line that expands to several.

*reader.*  Four lines from one of six alphabets, one per question, so that an
alphabet holds every line that can interfere with the question; includes two
deep where the code allows 200 (`MaxDepth`).  `Lines` are all lines that occur, in the
alphabets and in the texts for `$(eval)`; `IsLine` types them.

*remake.*  `Makefile`, two included files and one source.  No recipe is run after
12 writes (`MaxClock`); a behaviour that met this bound would be reported as one
that does not end.

*patterns.*  Seven files of one stem, which is a chain of three rules with a
second way at two of its links; two builds.  `MaxDepth` is 10 as in the code; only
`effective_mtime` on a circle of pattern rules comes down to it.

*signals.*  Two recipes with messages of up to two words (2047 bytes in the
code): a long message, a short one and none; two further images.

### Fairness

`Terminates` of `ParallelScheduler` assumes weak fairness of the main thread and
of each worker: they are threads of the operating system, a blocked receive is
woken when its channel has something, and recipes end.  `Terminates` of
`BuildWalk` and `RemakingEnds` assume weak fairness of `Next`: one thread that waits
for nothing but a recipe.  Nothing is assumed about outcomes.  `RemakingEnds`
includes recipes that a phony or missing prerequisite forces in every image, as
long as they leave a current file alone, and `-W`; not makefiles that need each
other in a circle, nor a forced recipe that changes its file each time.

### Faults

Each property is shown able to fail: for each, `PROJECT.json` names a definition
and a wrong form of it (in the modules these are marked *A fault*), and with
the wrong form the run reports the property violated.  They are bugs one could
make in that code: an eviction or a memo entry forgotten, order-only
prerequisites left out, an error overwritten by a later success, a target found
fresh left without a plan, a stack not popped on an early return.

## The theorems

Eight modules hold theorems.  Those of the scheduler are about every set of plans, every number of workers
and every outcome; those of the walk about every set of files, every makefile,
cyclic ones included, all initial times and every outcome.  Their assumptions
are those of the modules, which the runs evaluate too: plans are finite and a
plan's `.WAIT` groups are lists of its prerequisites, there is at least one
worker (`IsPlanMap`, `WorkersAssumption`); a makefile is well-formed, in
particular grouped targets are siblings of each other (`IsMakefile`).

The invariant of `ParallelScheduler_proofs` is a conjunction of named parts:

- `TypeOK` and `GraphOK`: types, and that the graph is finite and what
  `PlanGraph` computes;
- `QueueMatchesStates`: the ready queue lists exactly the `Ready` nodes, once;
- `OnePlaceEach`, `InFlight`: each running node is in one channel or one worker,
  and `running_count` counts them;
- `PrereqsFirst`: a node past waiting has all its prerequisites done;
- `ErrorsKnown`, `PhaseKnown`: `has_error` and the program counter agree with the
  states;
- `NothingForgotten`: a node whose prerequisites are all done does not wait.
  This is the hard part.  It holds again only after the whole of
  `propagate_completion`, so its proof follows that recursion: what is settled is
  shown to be closed under settling.

From it follow the safety properties of run `scheduler` (`TypeCorrect`,
`NeverTooEarly`, `Accounted`, `NoHang`), further facts no run needs to check
(`QueueExact`, `NothingLost`, `NothingRunsAtExit`, `StatusTruthful`,
`OnlyForward`), and with a minimal-counterexample argument on the graph
`NothingLeftUndone` (if the graph with its barriers has no cycle, a build that
returns success is complete; `wait_cycle` shows what happens if it has one) and
`WaitOrder` (the barriers of a list chain its groups).
Its last part, `Refinement`, shows that the detailed scheduler implements
`OrderedBuild`.

The theorems of `BuildWalk_proofs`, but for the last two (`NothingDone`,
`LeftUpToDate`), do not open the out-of-date tests: they hold whatever `Freshness`
answers.  Neither "no recipe twice" (`Once`) nor `DepthFirst`
is inductive; the invariant adds what the stack and the memo know of each other:

- `Chain`: the call stack is a chain of requests without repetition, and what has
  been answered is never entered;
- `CallPending`, `Answered`: the target a frame is waiting for is still on its
  list when the answer arrives, and a result that is returned is in the memo;
- `Progress`: each prerequisite of a frame's target is answered or still on the
  frame's list, and a failed one is remembered by the frame.  With an empty list
  this gives what must hold when a recipe runs;
- `Apart`, `GroupFrames`: the siblings a frame will mark are not under way at or
  below it, so marking them never gives a target under way a result;
- `LogMet`: a target whose recipe ran is answered and not under way, and so is
  never entered again; all it needs was answered when it ran.  A prerequisite
  whose recipe runs later was therefore answered while under way, which only the
  cut of a cycle does: this is `DepthFirst`;
- `FailuresKnown`: a failed target has an entry in `built` only where a cycle was
  cut or through its group, hence `NoneBuiltOnFailure`;
- `EndKnown`, `Noted`: intermediate targets made so far are noted, and nothing
  happens after the end, hence `IntermediatesRemoved`.

`CacheFresh` is inductive with the types.  Every one of these conjuncts was
model-checked on the instance of run `walk` before it was proved.

`GroupOnce` needs more: that a frame calls only for what is beneath its target
(`AskedInv`), so that targets further up the stack lie beneath those further down
(`Nested`); that no sibling of a target under way is under way, and each is answered
or on the list its frame will mark (`GroupHeld`); and that once the recipe of a
group has run its siblings stay answered (`GroupMet`).  `Beneath` is closed over
siblings.  An earlier form of `GroupRunsOnce` only excluded targets that need one
another; the proof failed on a target needed on the way to its own sibling
(`a b &:`, `a: src`, `src: b`: b's recipe runs for b and again for a), TLC confirmed it,
and that makefile is now among those of run `walk` (`Tangled`).

`NothingDone` opens the tests.  Nothing that the goals lead to looks newer, at any
depth of `effective_mtime`, than it is: a file that is there has its own time, one
that is not has at most any time that bounds what it is made of (`Fits`, carried
from each level to the one above by `FitsAbove`).  So the pre-check passes what is
called (`FoundFresh`), `needs_rebuild` would too (`NotStale`), and the walk never
leaves its initial state but for its stack and memo (`Idle`).  This proof, too,
corrected the property: the premise looked two levels down, and TLC found, with
six files, a chain of three deleted intermediate files below which the source is
newer; and of grouped targets it has to ask more, see *Divergences*.

`LeftUpToDate` is about what a build leaves behind, and most of what it leaves was
never visited.  `Sound` is the largest set of files that at the start were there and
not older than what they need, all of which is in the set again.  The argument has
two halves.  First, what the walk passes over without a visit is sound: if the
pre-check finds a target fresh, each prerequisite's effective time is its own, which
`TellsAbove` carries up one level of `effective_mtime` at a time, along a rank that
falls with each prerequisite (`EffectiveTells`, `FreshSound`).  Second, the walk
(`Promised`):

- `Times`: a file none of whose recipes ran is as it was and remembered as such if at
  all, what a recipe made is later than the start, and no time believed lies between;
- `SoundLeft`, `SoundAnswer`, `SteadyFrames`: what is sound is never made, never fails,
  and answers "reused"; of what is not, but is under way, the time is in the cache (the
  pre-check put it there), so that a recipe that fails changes nothing that is believed;
- `PrereqsBuilt`: what is built is sound, or all it needs is built, so that
  everything the goals need is one or the other at the end;
- `Settled`: a target that is built and not sound is not older than what it needs nor,
  where that is missing or was made and may be deleted, than what that is made of.
  When its recipe runs this is the clock; when `needs_rebuild` spares it, it is that
  the times it believed are those on disk;
- `NotedRan`: only what was made is deleted at the end; `GoalsMet`: without an error,
  the goals done with are built.

Deleting the intermediate files at the end turns `Settled` into `UpToDateAtEnd`.  TLC
checked each part on the instance of run `walk` first.  The attempt corrected the
property again: it was stated without `NoPhonyFiles`, `Ungrouped` and `Shallow`, with
a `MaxDepth` that no makefile of the run reached, and random makefiles
of five files showed that it does not hold there (*Divergences*, Sequential build).

The theorems of `RecipeExecution_proofs` are about every recipe, of any number of
lines and commands, and every setting of the options; of the commands only that
they are not the empty one and not the script (`NothingAssumption`,
`JobsAssumption` types the jobs).  Its invariant:

- `BeforeInv`: nothing has happened before the loop begins, and what a worker has of
  the lines is `Rejoined`;
- `AskingInv`: of what is still to be run and of all that was, it is known in which
  line of the makefile it stands, and under `-n` that this line asks to be run;
- `TargetInv`: what the target is like while commands run, from which `TargetAsLeft`
  follows when they are over;
- `ShowInv`: what `-n` has shown and what it still has to show are the commands of the
  recipe, in order.

These are statements about lists that grow on one side and shrink on the other.
`SequenceFacts` proves what is needed of `Select`, `FlattenSeq` and the like by
induction on the length: its lemmas `LeastNumber`, `Counting` and
`SequenceInduction` take a set where the library's induction theorems take an
operator, and `Recursion` opens a recursive function.  `Refinement` shows that both
executors implement `RecipeContract`.  What the contract has still to run
(`Owed` in the proofs) is the selection, from the lines the executor goes by, of what
will be run; a step of the executor removes its head, or leaves it alone.

The theorems of `TermSignal_proofs` are about any number of included files, recipes,
words of a message and restarts (`MakersAssumption`, `LongestAssumption`,
`GivenAssumption`).  `HandlerInv` says which threads a signal can stop and where;
`FileInv` how the path, its length and the file go together at each stage;
`MessageInv`, which is claimed only where recipes are made one after the other,
that the first `copied` words of the buffer are those of the message being copied,
and that the length is zero until all are there.  With several threads it is
false, and so is `MessageWhole`: hence the premise of both.

The theorems of `Remake_proofs` are about every set of files and whatever the
makefiles say (`RemakeAssumption`).  Its invariant:

- `ReadInv`: a makefile that was read is still there, and if it was remade since, a
  new image will come of it;
- `ItemInv`: what an item's outcome says of its file;
- `EarlierInv`, `WalkInv`: no line before the one whose recipe is queued requires the
  same file;
- `FailedInv`: for a file whose recipe failed there is an item whose result is the
  error;
- `JudgedInv`: what phase C has gone past is in order.

Half of `BuildsOnMakefiles` follows as it stands (`NoneStale`).  The other, that no
build begins without a required file, is proved for makefiles in which, where
several lines name one file, only the first may require it (`RequiredFirst`).  The
proof attempt showed why: phase B keeps the first item of a file
(`or_insert`, `eval/mod.rs:4356`), and a later line that requires the file is passed
over as `SiblingAlreadyRan` if any recipe was queued for it (4471), whatever became
of that recipe.  TLC confirms that `-include a`, `-include a`, `include a` leads to a
build without `a`, if the prerequisite of `a` fails when the first line is worked on,
succeeds at the second, and the recipe then fails.  In the instance of run
`remake` no file is required after two lines that do not.

The theorems of `MakefileReader_proofs` are about every set of lines that are lines
(`LinesAssumption`), every environment and command line (`SetupsAssumption`), every
list of built-in rules, and any number of files, however they include one another.
Much of the work is typing: `register_rule` with its merging, cancelling and special
targets is a pure function of some hundred lines, and that it gives a database again
is shown operator by operator, in `RuleBase_proofs`, which also says what of the
database and of a growing history each operator leaves alone.  The invariants are

- `Types`, `Depth`: the types of `ReaderTypeOK`, with two things they do not hold without:
  a parser is in a recipe exactly when a rule is open, and has siblings only beside
  one (`Coherent`); there are never fewer pattern rules than
  `builtin_pattern_rules_count` says are built in (`Base`), since `register_rule`
  counts back from the end of the list;
- `Branches`: `OneBranch` of the waiting parsers, too;
- `Kept`: beside the command line's variables, that a `define` block that is still
  open and says `override` is among `overrides`, since what it defines is set
  only at its `endef`;
- `Agreeing`: the database is one of `Sound`: every ordinary target's single rule fits
  what the registered rules of it say (`Whole`), `SplitAt` divides the pattern rules into
  the built-in ones, which come first, and the others (`Tidy`), no file is marked in
  contradictory ways (`Apart`); and the rules still open, of every parser, were read from
  a line.  The last is needed because what tells a built-in rule from another is that it
  has no line, and an open rule is appended to `pattern_rules` only later.  `register_rule`
  treats the targets of a rule one after the other, a name given twice is merged with
  itself, and only the merged rule is in the database while the history has them all:
  `Whole` is therefore shown to be kept by each registration of one target in one rule
  (`Merge`), and then for the targets of the rule by induction on their number.
- `Ordered`: the history is in order, nothing in it is below the line read last, and
  `.SECONDEXPANSION` is told as it says (`LogFine`); the open rules of the parser at work
  lie below all that is registered, and below the open rules of every parser that waits
  for it, and so on down the stack (`Fine`); and a parser that has, or will have, queued
  text to read before its own next line has only rules open that a conditional had
  exposed (`Hot`).  A rule is registered when the next one begins or its file ends, so
  that the order of the history says nothing until the rules still open are placed, too;
- `GoalDue`: as long as no error occurred and nothing was exposed, the default goal is
  the one that the history from `reset_at` on gives or, if it gives none, the open rule.
  The open rule lies below the line at which the goal was last given up.  This needs
  `Ordered`: the goal is given up at a line that no registered rule is below, and what
  waiting parsers register later must not come before it.

The last two proofs are the longest of the project.  That each of the kinds of line, ends
of a text and errors keeps `Ordered` and `GoalDue` is one lemma each, and all of them rest on
what `register_rule` and the closing of a rule do to the history (`FlushFine`, `GoalClosed`).
TLC checked both invariants on the instance of run `reader` first.

What stays with TLC: liveness (`Terminates` twice, `RemakingEnds`), which with
`ENABLED` is out of the proof system's reach, and the invariants of `ParallelBuild` and
`ImplicitBuild`.
`PlanCollection`, `ImplicitRules` and `ImplicitBuild` contain recursive
operators over data, which the proof system cannot follow; recursive functions,
as in `Freshness`, `RuleBase` and `Sublists`, it can.

## Divergences

Where the code does something else than what its comments or documents say, or
than GNU make does.  The first four are runs; the rest are in the models, and
were seen when a property had to be given a premise, or while reading.

*Parallel build.*

- After any failure nothing more is launched, with `-k` too (run `keep_going`,
  `parallel.rs:1073`).
- A `.WAIT` barrier can be injected into a target that the barrier waits for; make
  then returns success with its goal unbuilt (run `wait_cycle`, `parallel.rs:731`).
- With `-k` a missing rule is reported, forgotten, and make returns success
  without building the goal (run `missing_rule`, `mod.rs:927`).
- A circular dependency, which the walk drops, stays in the plans: nothing on it
  is ever ready, and make returns success.  Two double-colon rules of a target
  that share a prerequisite make such a circle as well, since the prerequisite's
  plan is made to wait for the first rule's node (`mod.rs:3009`).
- The prerequisites of a double-colon rule without a recipe are in no plan
  (`mod.rs:2925`): if nothing else reaches them they are not built, and no one
  waits for them.
- The comment at `mod.rs:2843` says that all rules of a double-colon target are
  judged by its state when the build began.  With `-j` they are; without, only
  whether it existed is kept, and a later rule is judged by the time after an
  earlier one ran.  With `-k` a double-colon recipe that fails is passed over
  without `-j` (exit 0) and reported with it.
- A failure beneath an order-only prerequisite is ignored without `-j` and fails
  the dependents with it.
- A recipe that expands to nothing counts as a remade target in graph resolution,
  so its dependents are rebuilt with `-j` only.
- Graph resolution judges by the files as they were.  `all: a b; a: c; b: a`, where
  `a` has no recipe and `c` is missing below it: make remakes `b`, make `-j` does not.
- Of a grouped target only the first has a plan: what depends on a sibling is not
  ordered after the recipe.  `.EXTRA_PREREQS` are planned but named by no plan.
- The order-only prerequisites of a target that is found fresh do not see its
  target-specific variables (`mod.rs:1753` comes before the push).
- The scheduler's list of intermediate files is merged only after the error
  return (`mod.rs:725`), so a failing parallel build leaves them.
- A worker takes the expanded text for the line as written (`mod.rs:834`,
  `parallel.rs:208`): a `-` before a line applies to all its commands, and a line
  with `$(MAKE)` is not run under `-n -j2`.
- The environment of a job is computed with an empty variable stack
  (`mod.rs:838`), and `SHELL` is not treated specially there.

*Sequential build.*

- Cutting a cycle writes `built` for a target that is under way (`mod.rs:1061`,
  against the comment at 182).
- With `-k` a failed group marks its siblings as built (`mod.rs:2698`), and what
  needs them goes on.
- A file that is missing two levels down, or a deleted intermediate file, can be
  passed over by the pre-check (`mod.rs:1703`, 1696), and the target stays older
  than what it is made from.
- `effective_mtime` gives up 11 levels down and answers that there is no time
  (`mod.rs:4977`), which its callers take for a file without sources: a target found
  fresh stays older than a source that far down (fault `GivingUpEarly` shows it one
  level nearer).
- A phony target that is there as a file is judged by its date
  (`mod.rs:4990`; that it is phony is asked only at 5045).  With `e: d`, `d: c`, `.PHONY: c`
  and all three present in order, c's recipe is not run for `e` on its own, since `e` is
  found fresh; with the goals `e d`, `d` is made after `e` was found fresh, and `e` stays
  older than `d`.
- After the recipe of a group its siblings' remembered times stay
  (`mod.rs:5927`), and its targets are not noted as intermediate.
- The order-only prerequisites of a target's prerequisites are not visited when
  the target is found fresh (`mod.rs:1722`).
- A grouped target is not pre-checked (`mod.rs:1250`): a deleted intermediate file it
  needs is made again though it is up to date, which a plain target is spared.
- A grouped target that is needed on the way to its own sibling has its recipe run
  for each of the two (`mod.rs:1147` looks at what is built when the first is entered).

*Reading.*

- An export or unexport line before the definition of a variable is forgotten
  when the variable is defined (`eval/mod.rs:3178`, against the comment at 2408).
- A recipe line may follow an export, undefine, define or conditional line
  (`parser/mod.rs:147`).
- `.SECONDARY: x` after `.SECONDARY:` forgets that all files are secondary;
  `.DEFAULT_GOAL ?= x` changes the goal though it is defined, and `.DEFAULT_GOAL != cmd`
  takes the command, not what it prints, for the goal (`eval/mod.rs:3356`); `define` gets past the
  protection of an override; an `else if` is evaluated in a dead branch.
- What `$(eval)` queues in a conditional line is not read after that line, since the
  conditional branches `continue` before the drain (`eval/mod.rs:1922`), but after the
  next one; if that is a recipe line the open rule is not registered first (2518).
  The rules of the text then come before the one above them, against the document
  of `process_parsed_lines` (1441: the order relative to surrounding rules is
  preserved) and the comment at 2493.  `RegisteredInOrder` and `DefaultGoalIsFirst` except
  these rules (`exposed`).
- `.DEFAULT_GOAL` from the command line is overwritten by the first rule
  (`eval/mod.rs:2069`, 2804); `CommandLineHolds` excepts it.
- The first rule of a target is stored as it is (`eval/mod.rs:3095`), so that a
  prerequisite it names twice, or both as normal and as order-only, stays there
  twice; `MergedWhole` speaks of rules that name each once.

*Makefiles that are made.*

- A makefile remade as a prerequisite of another does not restart make (run
  `stale_makefile`, `eval/mod.rs:4178`).
- With `-j` the recipes of all missing includes start at once, though one may need
  another's file (`eval/mod.rs:4591`), and they call `set_term_message` from several
  threads, against the rule at `signal_handler.rs:52`.
- An unreadable file included twice, with a recipe that does nothing, restarts
  make for ever, as do makefiles that need each other in a circle.
- A required include is passed over in silence if a sibling's recipe was run for
  it, or its own for an earlier line that did not require it, even when that recipe
  failed (`eval/mod.rs:4471`).

*Pattern rules.*

- A peer of a pattern rule is marked as built when its target is found fresh
  (`mod.rs:3331`) or, with `-k`, when the recipe failed; siblings of a grouped rule
  are marked as not rebuilt though they were remade.
- The passes of the search differ from their comments in what they test
  (explicit rules in the third; empty recipes in the pre-check), and the rule
  with the shortest stem is taken where the document of `implicit_rules.rs` has
  the first.
- An intermediate file that was there before the build is deleted, and a second
  build may then choose another rule.

*Signals.*

- Only the image that wrote the temporary file registers it: after make has
  executed itself SIGTERM leaves it, against `signal_handler.rs:8`.
- The exits of `$(error)`, of an unterminated reference and of `-q` do not go
  through the end of `main`, and leave the file, too.
- `signal_handler.rs` and `exec/mod.rs:5454` say that `set_term_message` is called for
  recipes; only those of includes call it.

## What is left, in order

1. Grouped targets, pattern rules and `.EXTRA_PREREQS` in `PlanCollection`.
2. `-W`, VPATH and second expansion in the walk.
3. The export marks of target-specific variables, from the stack to the
   environment of a job.

## Not modelled

- Expansion and functions (`eval/expand.rs`, `functions/`): text in, text out, with
  no state between calls.  What `$(eval)` does to the state is in `MakefileReader`.
- Option parsing (`cli.rs`) and `MAKEFLAGS`: text.
- The system boundary (`io_traits.rs`): hands calls on.  How files, recipes and
  `exec` may answer is in the models that use them.
- `--shuffle`, `-o`, `-l` libraries, `.DEFAULT`, archive members: variations of the walk
  that add no interaction of their own.
- Grouped double-colon rules.
- Tests, benchmarks and packages: not part of the program.
