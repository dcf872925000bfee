------------------------- MODULE ParallelScheduler -------------------------
(***************************************************************************)
(* The parallel build of `jmake -j N`: the main thread's dispatch loop     *)
(* (Executor::build_targets_parallel, after graph resolution), the         *)
(* scheduler it drives (exec/parallel.rs) and the pool of worker threads   *)
(* that run the recipes.  The threads share nothing but two channels: jobs *)
(* go to the workers, results come back.  An action is what one thread     *)
(* does between two channel operations.                                    *)
(***************************************************************************)
EXTENDS PlanGraph, SequencesExt

CONSTANTS
  Workers,        \* the worker threads; there are -j of them
  Idle, Exited,   \* what a worker without a job is
  Makefiles,      \* [plans, roots] records: what graph resolution may hand over
  LoadReadings    \* {FALSE} without -l; with it, whether the load is too high

ASSUME WorkersAssumption == IsFiniteSet(Workers) /\ Workers # {}
ASSUME MarkersAssumption == Idle \notin Targets /\ Exited \notin Targets
                            /\ Idle # Exited
ASSUME MakefilesAssumption ==
  \A m \in Makefiles : IsPlanMap(m.plans) /\ m.roots \subseteq Targets
ASSUME LoadAssumption == LoadReadings \subseteq BOOLEAN

VARIABLES
  plans, prereqs_of,  \* the plan map and the graph built from it
  roots,              \* the goals of this make
  keep_going,         \* -k
  states,             \* what the scheduler knows of every node
  ready_queue,        \* nodes to launch, first in first out
  running_count,      \* jobs handed out and not yet reported
  has_error,
  draining,           \* launch nothing more
  intermediate_built, \* intermediate files made, to delete at the end
  jobs, results,      \* the two channels
  worker,             \* the job each worker is executing
  pc,                 \* where the main thread is
  outcome,            \* what build_targets_parallel returned
  removed             \* the intermediate files it deleted

resolved == <<plans, prereqs_of, roots, keep_going>>
channels == <<jobs, results, worker>>
sched == <<states, ready_queue, running_count, has_error, draining,
           intermediate_built>>
report == <<outcome, removed>>
vars == <<resolved, sched, channels, pc, report>>

Node == DOMAIN prereqs_of
max_jobs == Cardinality(Workers)

(* NoState is a node absent from the map; Done and Rebuilt are             *)
(* TargetState::Done(false) and Done(true).                                *)
NoState == "none"
DoneStates == {"Done", "Rebuilt"}
TargetState == {NoState, "Ready", "Running", "Failed"} \cup DoneStates

JobResult == [target : DOMAIN plans, rebuilt : BOOLEAN, ok : BOOLEAN]

(* The types: no more jobs run than there are workers, and only targets   *)
(* with a plan are ever jobs.                                              *)
TypeOK ==
  /\ IsPlanMap(plans) /\ roots \subseteq Targets /\ keep_going \in BOOLEAN
  /\ DOMAIN plans \subseteq Node /\ prereqs_of \in [Node -> SUBSET Node]
  /\ states \in [Node -> TargetState]
  /\ ready_queue \in Seq(Node)
  /\ running_count \in 0 .. max_jobs
  /\ has_error \in BOOLEAN /\ draining \in BOOLEAN
  /\ intermediate_built \subseteq Targets
  /\ jobs \in Seq(DOMAIN plans) /\ results \in Seq(JobResult)
  /\ worker \in [Workers -> DOMAIN plans \cup {Idle, Exited}]
  /\ pc \in {"dispatch", "wait", "join", "ended"}
  /\ outcome \in {"none", "ok", "error"} /\ removed \subseteq Targets
-----------------------------------------------------------------------------
(* Which nodes a completed one lets go.  s is a states map.                *)

AllPrereqsDone(s, n) == \A p \in prereqs_of[n] : s[p] \in DoneStates

AnyPrereqFailed(s, n) == \E p \in prereqs_of[n] : s[p] = "Failed"

(* Nodes that are Done as soon as their prerequisites are, with no job.    *)
(* A barrier is not one: its plan has needs_rebuild and no recipe.         *)
UpToDate(n) == n \in DOMAIN plans /\ ~plans[n].needs_rebuild

(* s with the nodes of S done. *)
MarkDone(s, S) == [n \in Node |-> IF n \in S THEN "Done" ELSE s[n]]

(* A fault: settled nodes do not wake their own dependents. *)
VisitedOnce(V, D) == V

(* The nodes looked at once V are looked at and the nodes of D are Done. *)
Visited(V, D) == V \cup {n \in Node : prereqs_of[n] \cap D # {}}

SettledBy(s, V, D) ==
  { n \in Visited(V, D) : /\ s[n] = NoState
                          /\ UpToDate(n)
                          /\ AllPrereqsDone(MarkDone(s, D), n) }

(* The up-to-date nodes that visiting V turns Done, one after the other,   *)
(* each visiting its own dependents: the least set closed under SettledBy. *)
Settled(s, V) ==
  { n \in Node : \A D \in SUBSET {m \in Node : s[m] = NoState /\ UpToDate(m)} :
                   SettledBy(s, V, D) \subseteq D => n \in D }

(* A fault: the prerequisite that has just completed is enough. *)
NewlyReadyAny(s, V) ==
  { n \in V : /\ s[n] = NoState /\ ~UpToDate(n)
              /\ prereqs_of[n] = {} \/ \E p \in prereqs_of[n] : s[p] \in DoneStates }

(* Among the visited nodes, those to queue, once s has its Done nodes. *)
NewlyReady(s, V) ==
  { n \in V : s[n] = NoState /\ ~UpToDate(n) /\ AllPrereqsDone(s, n) }

(* Sets of visited nodes marked Failed because a prerequisite has failed.  *)
(* Whether the mark of one is seen by the next depends on the order of     *)
(* dependents_of, which is that of a hash map; no set of them is there     *)
(* only because its members are.                                           *)
FailureMarks(s, V) ==
  LET pending == {n \in V : s[n] = NoState}
  IN  { F \in SUBSET pending :
          /\ {n \in pending : AnyPrereqFailed(s, n)} \subseteq F
          /\ \A S \in (SUBSET F) \ {{}} : \E n \in S :
               AnyPrereqFailed(s, n) \/ prereqs_of[n] \cap (F \ S) # {} }

(* Visits V: settles what is up to date, queues what is ready, and marks   *)
(* what cannot be built.  The scheduler's state before is s and q.         *)
Visit(s, q, V) ==
  LET settled == Settled(s, V)
      done    == MarkDone(s, settled)
      visited == Visited(V, settled)
      ready   == NewlyReady(done, visited)
  IN  \E order \in SetToSeqs(ready), failed \in FailureMarks(done, visited) :
        /\ ready_queue' = q \o order
        /\ states' = [n \in Node |-> CASE n \in ready  -> "Ready"
                                       [] n \in failed -> "Failed"
                                       [] OTHER -> done[n]]

DependentsOf(t) == {n \in Node : t \in prereqs_of[n]}

(* propagate_completion: after an error without -k it visits nothing.      *)
PropagateCompletion(s, t) ==
  IF has_error /\ ~keep_going
  THEN states' = s /\ UNCHANGED ready_queue
  ELSE Visit(s, ready_queue, DependentsOf(t))
-----------------------------------------------------------------------------
(* Initial states: graph resolution has handed over a plan map, new() has  *)
(* built the graph and find_initial_ready has filled the queue.            *)

(* new(): an up-to-date target with no planned prerequisites is Done.      *)
InitialStates ==
  MarkDone([n \in Node |-> NoState],
           {n \in Node : UpToDate(n) /\ prereqs_of[n] = {}})

(* find_initial_ready visits what the goals reach.  Its queue is in        *)
(* breadth-first order; here it is in any order.  s is the states map      *)
(* before, found and q are the map and the queue after.                    *)
FindInitialReady(s, q, found) ==
  LET reached == Reachable(prereqs_of, roots)
      settled == Settled(s, reached)
      done    == MarkDone(s, settled)
      ready   == NewlyReady(done, Visited(reached, settled))
  IN  /\ q \in SetToSeqs(ready)
      /\ found = [n \in Node |-> IF n \in ready THEN "Ready" ELSE done[n]]

Init ==
  /\ \E m \in Makefiles : plans = m.plans /\ roots = m.roots
  /\ keep_going \in BOOLEAN
  /\ prereqs_of = PrereqsOf(plans)
  /\ FindInitialReady(InitialStates, ready_queue, states)
  /\ running_count = 0 /\ has_error = FALSE /\ draining = FALSE
  /\ intermediate_built = {}
  /\ jobs = <<>> /\ results = <<>> /\ worker = [w \in Workers |-> Idle]
  /\ pc = "dispatch" /\ outcome = "none" /\ removed = {}
-----------------------------------------------------------------------------
(* The main thread.                                                        *)

(* A fault: a failure does not stop the launching. *)
ShouldLaunchDraining(overloaded) ==
  /\ ready_queue # <<>>
  /\ running_count < max_jobs
  /\ ~(overloaded /\ running_count >= 1)

(* A fault: one job too many. *)
ShouldLaunchOneMore(overloaded) ==
  /\ ~draining
  /\ ready_queue # <<>>
  /\ running_count <= max_jobs
  /\ ~(overloaded /\ running_count >= 1)

(* overloaded is the answer read_load_average gives, if -l asks it. *)
ShouldLaunch(overloaded) ==
  /\ ~draining
  /\ ready_queue # <<>>
  /\ running_count < max_jobs
  /\ ~(overloaded /\ running_count >= 1)

(* A fault: the queue of a draining scheduler counts as work. *)
HasWorkDraining == running_count > 0 \/ ready_queue # <<>>

HasWork ==
  /\ ~(draining /\ running_count = 0)
  /\ running_count > 0 \/ ready_queue # <<>>

(* build_job_from_plan: a barrier or a plan with no recipe makes no job. *)
HasJob(n) == n \in DOMAIN plans /\ plans[n].recipe

(* A fault: the launched node stays in the queue. *)
PopReadyPeeking == ready_queue

PopReady == Tail(ready_queue)

(* Hands the head of the queue to the workers. *)
LaunchJob ==
  /\ pc = "dispatch"
  /\ \E overloaded \in LoadReadings : ShouldLaunch(overloaded)
  /\ HasJob(Head(ready_queue))
  /\ states' = [states EXCEPT ![Head(ready_queue)] = "Running"]
  /\ ready_queue' = PopReady
  /\ running_count' = running_count + 1
  /\ jobs' = Append(jobs, Head(ready_queue))
  /\ UNCHANGED <<resolved, has_error, draining, intermediate_built,
                 results, worker, pc, report>>

(* A node with no job is Done at once.  Its dependents are queued, the     *)
(* up-to-date ones too: they will turn out to have no job either.          *)
CompleteWithoutJob ==
  /\ pc = "dispatch"
  /\ \E overloaded \in LoadReadings : ShouldLaunch(overloaded)
  /\ ~HasJob(Head(ready_queue))
  /\ LET done  == [states EXCEPT ![Head(ready_queue)] = "Done"]
         ready == { n \in DependentsOf(Head(ready_queue)) :
                      done[n] = NoState /\ AllPrereqsDone(done, n) }
     IN  \E order \in SetToSeqs(ready) :
           /\ ready_queue' = PopReady \o order
           /\ states' = [n \in Node |-> IF n \in ready THEN "Ready" ELSE done[n]]
  /\ UNCHANGED <<resolved, running_count, has_error, draining,
                 intermediate_built, channels, pc, report>>

(* No more to launch for now: block on the result channel. *)
AwaitResult ==
  /\ pc = "dispatch"
  /\ \E overloaded \in LoadReadings : ~ShouldLaunch(overloaded)
  /\ HasWork
  /\ pc' = "wait"
  /\ UNCHANGED <<resolved, sched, channels, report>>

(* The loop is over.  drain_running finds nothing to wait for, because     *)
(* without work running_count is 0.  Dropping the scheduler closes jobs.   *)
LeaveLoop ==
  /\ pc = "dispatch"
  /\ \E overloaded \in LoadReadings : ~ShouldLaunch(overloaded)
  /\ ~HasWork
  /\ pc' = "join"
  /\ UNCHANGED <<resolved, sched, channels, report>>

(* The files the recipe of t makes that are to be deleted at the end. *)
IntermediatesOf(t) ==
  (IF plans[t].is_intermediate THEN {t} ELSE {}) \cup plans[t].intermediate_also_make

(* handle_completion of a success. *)
RecordSuccess(r) ==
  /\ PropagateCompletion(
       [states EXCEPT ![r.target] = IF r.rebuilt THEN "Rebuilt" ELSE "Done"],
       r.target)
  /\ intermediate_built' = IF r.rebuilt
                           THEN intermediate_built \cup IntermediatesOf(r.target)
                           ELSE intermediate_built
  /\ UNCHANGED <<has_error, draining>>

(* A fault: every dependent is marked, whatever its state. *)
RecordFailureAll(r) ==
  /\ states' = [n \in Node |->
                  IF n = r.target \/ n \in DependentsOf(r.target) \cup Range(ready_queue)
                  THEN "Failed" ELSE states[n]]
  /\ has_error' = TRUE /\ draining' = TRUE
  /\ UNCHANGED <<ready_queue, intermediate_built>>

(* handle_completion of a failure.  The direct dependents fail with it;    *)
(* draining is set with -k too.                                            *)
RecordFailure(r) ==
  /\ states' = [n \in Node |->
                  IF n = r.target \/ (states[n] = NoState /\ n \in DependentsOf(r.target))
                  THEN "Failed" ELSE states[n]]
  /\ has_error' = TRUE /\ draining' = TRUE
  /\ UNCHANGED <<ready_queue, intermediate_built>>

(* recv_result, then handle_completion of what it returned. *)
HandleCompletion ==
  /\ pc = "wait" /\ results # <<>>
  /\ running_count' = running_count - 1
  /\ IF Head(results).ok THEN RecordSuccess(Head(results))
                         ELSE RecordFailure(Head(results))
  /\ results' = Tail(results)
  /\ pc' = "dispatch"
  /\ UNCHANGED <<resolved, jobs, worker, report>>

(* Every worker has been joined.  delete_intermediate_files works on the   *)
(* executor's own list, which collect_plans has cleared; the scheduler's   *)
(* list is merged into it only when there was no error.                    *)
Return ==
  /\ pc = "join"
  /\ \A w \in Workers : worker[w] = Exited
  /\ pc' = "ended"
  /\ outcome' = IF has_error THEN "error" ELSE "ok"
  /\ removed' = IF has_error THEN {} ELSE intermediate_built \ roots
  /\ UNCHANGED <<resolved, sched, channels>>
-----------------------------------------------------------------------------
(* A worker thread.                                                        *)

(* The shared receiver's lock lets one idle worker at a time take a job. *)
TakeJob(w) ==
  /\ worker[w] = Idle /\ jobs # <<>>
  /\ worker' = [worker EXCEPT ![w] = Head(jobs)]
  /\ jobs' = Tail(jobs)
  /\ UNCHANGED <<resolved, sched, results, pc, report>>

(* How execute_job may end: a recipe that fails has run a command. *)
JobOutcomes == [rebuilt : BOOLEAN, ok : {TRUE}] \cup [rebuilt : {TRUE}, ok : {FALSE}]

FinishJob(w) ==
  /\ worker[w] \notin {Idle, Exited}
  /\ \E o \in JobOutcomes :
       results' = Append(results, [target |-> worker[w], rebuilt |-> o.rebuilt,
                                   ok |-> o.ok])
  /\ worker' = [worker EXCEPT ![w] = Idle]
  /\ UNCHANGED <<resolved, sched, jobs, pc, report>>

(* recv on the closed and empty job channel ends the thread. *)
ExitWorker(w) ==
  /\ worker[w] = Idle /\ pc = "join" /\ jobs = <<>>
  /\ worker' = [worker EXCEPT ![w] = Exited]
  /\ UNCHANGED <<resolved, sched, jobs, results, pc, report>>
-----------------------------------------------------------------------------
(* The make has returned to its caller. *)
Ended == pc = "ended" /\ UNCHANGED vars

MainThread ==
  \/ LaunchJob \/ CompleteWithoutJob \/ AwaitResult \/ LeaveLoop
  \/ HandleCompletion \/ Return

WorkerThread(w) == TakeJob(w) \/ FinishJob(w) \/ ExitWorker(w)

Next == MainThread \/ (\E w \in Workers : WorkerThread(w)) \/ Ended

Spec == Init /\ [][Next]_vars

(* Neither the main thread nor a worker stops while it can go on.  A       *)
(* worker goes on from FinishJob because every recipe ends.                *)
FairSpec == Spec /\ WF_vars(MainThread) /\ \A w \in Workers : WF_vars(WorkerThread(w))
-----------------------------------------------------------------------------
(* Properties.                                                             *)

Queued == Range(ready_queue)
InJobs == Range(jobs)
Executing == Range(worker) \ {Idle, Exited}
InResults == {results[i].target : i \in 1 .. Len(results)}
Busy == {w \in Workers : worker[w] \notin {Idle, Exited}}
RunningNodes == {n \in Node : states[n] = "Running"}

(* A node is queued, started or done only when every prerequisite of it in *)
(* the graph, barriers included, is done: a recipe never reads a file that *)
(* is still being made, and a failed node holds back all that needs it.    *)
PrereqsFirst ==
  \A n \in Node : states[n] \notin {NoState, "Failed"} => AllPrereqsDone(states, n)

(* The queue holds exactly the Ready nodes, each of them once, so that no  *)
(* target is launched twice and none is forgotten.                         *)
QueueMatchesStates ==
  /\ IsInjective(ready_queue)
  /\ Queued = {n \in Node : states[n] = "Ready"}

(* Every Running node is in exactly one place, a channel or a worker, and  *)
(* running_count counts them: no completion is lost or counted twice.      *)
InFlight ==
  /\ RunningNodes = InJobs \cup Executing \cup InResults
  /\ running_count = Cardinality(RunningNodes)
  /\ running_count = Len(jobs) + Len(results) + Cardinality(Busy)

(* A target is where its state says and nowhere else: in the queue once,   *)
(* in a channel or a worker, or settled.                                   *)
Accounting == QueueMatchesStates /\ InFlight

(* The main thread blocks on the result channel only when a worker owes it *)
(* a result (the hang that has_work's comment reports).                    *)
NeverWaitsInVain ==
  pc = "wait" => InJobs \cup Executing \cup InResults # {}

(* .WAIT: a target of a later group starts after every planned target of   *)
(* the earlier groups is done, unless another plan lists it unguarded.     *)
WaitRespected ==
  \A t \in DOMAIN plans :
    LET groups == plans[t].wait_groups
    IN  \A i, j \in 1 .. Len(groups) : i < j =>
          \A u \in groups[i] \cap DOMAIN plans :
            \A v \in (groups[j] \cap DOMAIN plans) \ GloballyUnguarded(plans) :
              states[v] \notin {NoState, "Failed"} => states[u] \in DoneStates

(* When make returns, no recipe is running and no result is unread.        *)
QuietExit ==
  pc \in {"join", "ended"} =>
    running_count = 0 /\ InJobs \cup Executing \cup InResults = {}

(* make reports an error exactly when the recipe of some target failed.    *)
ErrorReported ==
  pc = "ended" => (outcome = "error" <=> \E n \in Node : states[n] = "Failed")

(* When make returns success, all that the goals need is done, provided    *)
(* the graph with its barriers has no cycle.                               *)
BuildComplete ==
  pc = "ended" /\ outcome = "ok" /\ Acyclic(prereqs_of) =>
    \A n \in Reachable(prereqs_of, roots) : states[n] \in DoneStates

LegalMoves ==
  ({NoState} \X {"Ready", "Done", "Failed"})
    \cup ({"Ready"} \X {"Running", "Done"})
    \cup ({"Running"} \X {"Done", "Rebuilt", "Failed"})

(* A node moves only forward.  In particular a recipe runs at most once,   *)
(* and what is done or failed stays so.                                    *)
OneWay ==
  [][\A n \in Node : states'[n] # states[n] => <<states[n], states'[n]>> \in LegalMoves]_vars

(* Every make returns, however its recipes end.                            *)
Terminates == <>(pc = "ended")

(* PARALLELISM_PLAN.md and the header of exec/parallel.rs: with -k the     *)
(* build continues for all targets that do not depend on a failed one.     *)
KeepGoingBuildsTheRest ==
  pc = "ended" /\ keep_going /\ Acyclic(prereqs_of) =>
    \A n \in Reachable(prereqs_of, roots) :
      states[n] \notin DoneStates =>
        \E f \in Reachable(prereqs_of, {n}) : states[f] = "Failed"

(* The header of exec/parallel.rs: no barrier is injected that would cause *)
(* a deadlock.  If the makefile has no cycle, success means all is done.   *)
BarriersNeverDeadlock ==
  pc = "ended" /\ outcome = "ok" /\ Acyclic(MakefileGraph(plans)) =>
    \A n \in roots \cap DOMAIN plans : states[n] \in DoneStates
=============================================================================
