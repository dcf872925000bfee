--------------------------- MODULE ScheduledBuild ---------------------------
(***************************************************************************)
(* The parallel scheduler implements OrderedBuild.  A target that is       *)
(* absent or Ready is still to do, whatever queue it is in.                *)
(***************************************************************************)
EXTENDS ParallelScheduler

StatusOf(st) == CASE st \in {NoState, "Ready"} -> "todo"
                  [] st = "Running"            -> "running"
                  [] st \in DoneStates         -> "made"
                  [] st = "Failed"             -> "failed"

Contract == INSTANCE OrderedBuild WITH
              Target <- Targets,
              Slots <- max_jobs,
              needs <- MakefileGraph(plans),
              recipe <- {t \in DOMAIN plans : plans[t].recipe},
              status <- [t \in DOMAIN plans |-> StatusOf(states[t])],
              returned <- IF outcome = "none" THEN "no" ELSE outcome

(* A recipe starts only when all its makefile prerequisites are made, at   *)
(* most -j at once, once, and never after a failure without -k; make       *)
(* returns when nothing runs, with an error exactly when something failed. *)
ImplementsContract == Contract!Spec
=============================================================================
