---------------------------- MODULE ParallelBuild ----------------------------
(***************************************************************************)
(* build_targets_parallel from end to end: graph resolution makes the      *)
(* plans (PlanCollection), the scheduler and its workers carry them out    *)
(* (ParallelScheduler).  What they do is compared with what the sequential *)
(* build does of the same makefile.                                        *)
(***************************************************************************)
EXTENDS ParallelScheduler, PlanCollection

CONSTANT Given     \* what make may be given

ASSUME GivenAssumption == Files \subseteq Targets /\ \A g \in Given : IsGiven(g)

VARIABLES
  given,       \* what this make was given
  phase,       \* graph resolution, setting up the scheduler, or building
  collected,   \* what graph resolution left behind
  reference    \* what the sequential build would do: its log and its outcome

inputs == <<given, collected, reference>>

(* Nothing is resolved yet; the scheduler's variables stand empty. *)
BuildInit ==
  /\ given \in Given
  /\ phase = "resolve" /\ collected = <<>> /\ reference = <<>>
  /\ plans = <<>> /\ prereqs_of = <<>> /\ roots = Range(given.mk.goals)
  /\ keep_going = given.keep_going
  /\ states = <<>> /\ ready_queue = <<>>
  /\ running_count = 0 /\ has_error = FALSE /\ draining = FALSE
  /\ intermediate_built = {}
  /\ jobs = <<>> /\ results = <<>> /\ worker = [w \in Workers |-> Idle]
  /\ pc = "dispatch" /\ outcome = "none" /\ removed = {}

(* What the sequential build of g does. *)
Sequentially(g) ==
  LET v == BuildTargetsSequential(g)
  IN  [log |-> v.state.log, outcome |-> IF v.failed THEN "error" ELSE "ok"]

Resolving ==
  /\ phase = "resolve"
  /\ collected' = Collected(given) /\ reference' = Sequentially(given)
  /\ UNCHANGED <<given, roots, keep_going, sched, channels, removed>>

(* With -k an error has been printed, and is left with an empty message,   *)
(* which collect_plans takes for none. *)
MayGoOn == ~collected'.failed \/ keep_going

(* Phase 1 gives the plans, from which new() makes the graph. *)
ResolveGraph ==
  /\ Resolving /\ MayGoOn
  /\ plans' = collected'.plans /\ prereqs_of' = PrereqsOf(collected'.plans)
  /\ phase' = "set up"
  /\ UNCHANGED <<pc, outcome>>

(* Or it met an error to stop at: make returns it. *)
RefuseGraph ==
  /\ Resolving /\ ~MayGoOn
  /\ phase' = "build" /\ pc' = "ended" /\ outcome' = "error"
  /\ UNCHANGED <<plans, prereqs_of>>

(* Phase 2. *)
SetUpScheduler ==
  /\ phase = "set up"
  /\ FindInitialReady(InitialStates, ready_queue', states')
  /\ phase' = "build"
  /\ UNCHANGED <<inputs, resolved, running_count, has_error, draining,
                 intermediate_built, channels, pc, report>>

(* The file a node stands for. *)
FileOf(n) == IF n \in Files THEN n ELSE n[2]

(* The recipe a worker runs ends as is given. *)
FinishGivenJob(w) ==
  /\ FinishJob(w)
  /\ Last(results').ok = (FileOf(worker[w]) \notin given.failing)
  /\ Last(results').rebuilt = (worker[w] \notin Files \/ given.mk.recipe[worker[w]] = "cmd")

(* Phase 3. *)
Building ==
  /\ phase = "build"
  /\ \/ MainThread
     \/ \E w \in Workers : TakeJob(w) \/ FinishGivenJob(w) \/ ExitWorker(w)
     \/ Ended
  /\ UNCHANGED <<inputs, phase>>

BuildNext == ResolveGraph \/ RefuseGraph \/ SetUpScheduler \/ Building

BuildSpec == BuildInit /\ [][BuildNext]_<<vars, inputs, phase>>
-----------------------------------------------------------------------------
(* Properties.                                                             *)

LoggedNodes(log) == {log[i].node : i \in DOMAIN log}
Remade == {n \in Node : states[n] = "Rebuilt"}

Lists(rule) == Range(rule.prereqs) \cup Range(rule.order_only)

(* The double-colon rules of f that can get a plan. *)
Planned(f) == {i \in DOMAIN given.mk.rules[f] : given.mk.rules[f][i].recipe = "cmd"}

(* What the files that the walk has been to wait for.  A double-colon rule *)
(* without a recipe gets no plan: nothing waits for what it lists.         *)
Listing ==
  [f \in Files |->
     IF collected.built[f] = "no" THEN {}
     ELSE IF given.mk.rules[f] # <<>> THEN UNION {Lists(given.mk.rules[f][i]) : i \in Planned(f)}
     ELSE Range(given.mk.prereqs[f]) \cup Range(given.mk.order_only[f])]

ListedBy(n) == IF n \in Files THEN Listing[n] ELSE Lists(given.mk.rules[n[2]][n[3]])

(* No file is there without what it is made from. *)
NoHoles ==
  \A d \in given.mk.ruled : given.disk[d] > 0 =>
    \A p \in Range(given.mk.prereqs[d]) : given.disk[p] > 0 \/ p \in given.mk.phony

(* The sequential build passes over errors of order-only prerequisites. *)
OrderOnlySucceed ==
  \A f \in Files : given.failing \cap Reachable(Listing, Range(given.mk.order_only[f])) = {}

(* Graph resolution judges all of a file's double-colon rules by the file  *)
(* as it was, the sequential build by what the rules before them made; and *)
(* a rule without a recipe takes what it lists out of the graph.           *)
FamiliesAlike ==
  \A f \in Files : /\ Planned(f) = DOMAIN given.mk.rules[f]
                   /\ Cardinality(Planned(f)) > 1 => given.disk[f] = 0

(* Where the two builds are alike: the plans have no cycle, with -k        *)
(* nothing lacks a rule, every recipe has a command.                       *)
Comparable ==
  /\ NoHoles /\ OrderOnlySucceed /\ FamiliesAlike
  /\ Acyclic(prereqs_of)
  /\ ~(collected.failed /\ keep_going)
  /\ \A f \in Files : given.mk.recipe[f] # "empty"

(* make -j fails when make does and, if it does not, remakes exactly what  *)
(* make does (collect_plans, then build_targets_parallel). *)
AsSequential ==
  pc = "ended" /\ Comparable =>
    /\ outcome = reference.outcome
    /\ outcome = "ok" => Remade = LoggedNodes(reference.log)

(* A recipe starts only when every planned recipe beneath its target has   *)
(* ended: whatever lies between them, up to date or without a recipe.      *)
NothingStartsEarly ==
  \A n \in Executing :
    LET beneath == Reachable(Listing, ListedBy(n))
    IN  \A m \in LoggedNodes(collected.log) : FileOf(m) \in beneath => states[m] \in DoneStates

(* The value at the end of a path: the words of the targets from the last  *)
(* one that sets the variable, but for what is private to earlier ones.    *)
ValueAlong(path) ==
  LET vars_of == given.mk.vars
      visible == {i \in DOMAIN path : path[i] \in DOMAIN vars_of /\
                                       (vars_of[path[i]].is_private => i = Len(path))}
      setters == {i \in visible : ~vars_of[path[i]].append}
      first   == IF setters = {} THEN 1 ELSE Max(setters)
      words   == [i \in DOMAIN path |-> IF i \in visible /\ i >= first THEN <<path[i]>> ELSE <<>>]
  IN  (IF setters = {} THEN <<"global">> ELSE <<>>) \o FlattenSeq(words)

(* Those who set it are on the path for a normal prerequisite of theirs.   *)
(* (One that is found fresh hands nothing to its order-only ones.)         *)
HandsDown(path) ==
  \A i \in 1 .. Len(path) - 1 :
    path[i] \in DOMAIN given.mk.vars => path[i + 1] \in Range(given.mk.prereqs[path[i]])

(* A recipe has the variables of the targets that were being built when it *)
(* was planned and no other's, whatever failed before it; the stack of     *)
(* them is empty at the end.                                               *)
VariablesHandedDown ==
  phase # "resolve" =>
    /\ \A e \in Range(collected.log) : HandsDown(e.path) => e.value = ValueAlong(e.path)
    /\ collected.inherited_vars_stack = <<>>

(* exec/mod.rs:923: "If the sequential pass failed (e.g., missing rule),   *)
(* propagate the error."                                                   *)
MissingRuleReported ==
  pc = "ended" /\ collected.failed => outcome = "error"
=============================================================================
