-------------------------- MODULE RecipeExecution --------------------------
(***************************************************************************)
(* One recipe, from execute_recipe on.  Without -j the main thread runs    *)
(* its lines; with -j it only puts them into a plan, makes a Job of the    *)
(* plan later, and a worker runs that.  exec/mod.rs and exec/parallel.rs   *)
(* each have their own copy of the loop over the lines.                    *)
(*                                                                         *)
(* A line of the makefile expands to sub-lines, one command each.  The     *)
(* characters @ - + may stand before the line in the makefile (own) and    *)
(* before each command once expanded (prefix).                             *)
(***************************************************************************)
EXTENDS Naturals, SequencesExt, Sublists

CONSTANTS Commands,  \* what the shell is given
          Nothing,   \* no command: only make functions, or white space
          Script,    \* all the lines of a .ONESHELL recipe
          Jobs       \* the recipes, with the options and special targets

ASSUME NothingAssumption == Nothing \notin Commands /\ Script \notin Commands

Flags == {"@", "-", "+"}
SubLine == [prefix : SUBSET Flags, command : Commands \cup {Nothing}]
Line == [own : SUBSET Flags, calls_make : BOOLEAN, subs : Seq(SubLine)]
IsJob(j) ==
  /\ j.lines \in Seq(Line)
  /\ \A k \in DOMAIN j.lines : /\ j.lines[k].subs # <<>>
                               /\ j.lines[k].own \subseteq j.lines[k].subs[1].prefix
  /\ \A option \in {"parallel", "touch", "dry_run", "silent", "one_shell", "bourne",
                    "ignore_errors", "delete_on_error", "precious", "phony"} :
       j[option] \in BOOLEAN

ASSUME JobsAssumption == \A j \in Jobs : IsJob(j)

VARIABLES
  job,             \* the recipe and the options
  phase,           \* "start", "planned" and "queued" with -j, "running", "done"
  lines,           \* the lines as the executor has them
  todo,            \* the sub-lines left
  output,          \* what was echoed and run
  disk, cached,    \* the target: what is there, what mtime_cache says
  any_cmd_ran, any_recipe_ran, verdict

vars == <<job, phase, lines, todo, output, disk, cached, any_cmd_ran,
          any_recipe_ran, verdict>>

Files == {"absent", "old", "new"}
Ends == {"ran", "ignored", "failed"}
Event == [what : {"echo"} \cup Ends, command : Commands \cup {Script}]
Due == [command : Commands \cup {Nothing, Script},
        silent : BOOLEAN, ignore : BOOLEAN, run : BOOLEAN]

(* The types of the state: only with -j is there a plan, and a recipe that  *)
(* is over has a result.                                                   *)
TypeOK ==
  /\ IsJob(job) /\ lines \in Seq(Line)
  /\ phase \in {"start", "planned", "queued", "running", "done"}
  /\ todo \in Seq(Due) /\ output \in Seq(Event)
  /\ disk \in Files /\ cached \in Files \cup {"unread"}
  /\ any_cmd_ran \in BOOLEAN /\ any_recipe_ran \in BOOLEAN
  /\ verdict \in {"none", "rebuilt", "reused", "error"}
  /\ phase \in {"planned", "queued"} => job.parallel
  /\ phase = "done" <=> verdict # "none"
-----------------------------------------------------------------------------
(* Reading the lines.                                                      *)

(* A fault: -n does not hold for a line that ignores errors. *)
FlagsMisread(line, sub) ==
  LET flags == line.own \cup sub.prefix
  IN  [command |-> sub.command,
       silent |-> "@" \in flags /\ ~job.dry_run,
       ignore |-> "-" \in flags \/ job.ignore_errors,
       run |-> ~job.dry_run \/ flags \cap {"+", "-"} # {} \/ line.calls_make]

(* The flags of a sub-line: its own, and those the line has.  With -n only *)
(* lines with + and calls of make are run, and all is shown.               *)
Flagged(line, sub) ==
  LET flags == line.own \cup sub.prefix
  IN  [command |-> sub.command,
       silent |-> "@" \in flags /\ ~job.dry_run,
       ignore |-> "-" \in flags \/ job.ignore_errors,
       run |-> ~job.dry_run \/ "+" \in flags \/ line.calls_make]

(* All lines are expanded before the first command is run. *)
SubLines(recipe) ==
  FlattenSeq([k \in DOMAIN recipe |->
    [s \in DOMAIN recipe[k].subs |-> Flagged(recipe[k], recipe[k].subs[s])]])

(* What is left of the prefix characters in the script: a line that holds  *)
(* nothing else is not empty to a shell that takes them for code.          *)
InScript(recipe, k) ==
  \E s \in DOMAIN recipe[k].subs :
    LET sub == recipe[k].subs[s]
        stripped == s = 1 /\ (k = 1 \/ job.bourne)
    IN  sub.command # Nothing \/ (~stripped /\ sub.prefix # {})

(* With .ONESHELL the lines are one script, and the flags of the first     *)
(* line, which - and @ are, hold for it.                                   *)
WholeScript(recipe) ==
  LET first == recipe[1].subs[1].prefix
  IN  IF \A k \in DOMAIN recipe : ~InScript(recipe, k) THEN <<>>
      ELSE <<[command |-> Script, silent |-> "@" \in first,
              ignore |-> "-" \in first \/ job.ignore_errors, run |-> ~job.dry_run]>>

Reading(recipe) == IF recipe = <<>> THEN <<>>
                   ELSE IF job.one_shell THEN WholeScript(recipe) ELSE SubLines(recipe)

(* The worker's copy of a line is the expanded text: what stood in the     *)
(* makefile, $(MAKE) included, is gone, and the first command's prefix is  *)
(* taken for the line's own.                                               *)
Rejoined(recipe) ==
  [k \in DOMAIN recipe |-> [recipe[k] EXCEPT !.own = recipe[k].subs[1].prefix,
                                             !.calls_make = FALSE]]

(* A fault: only the first sub-line counts. *)
FirstOnly(recipe) == \E k \in DOMAIN recipe : recipe[k].subs[1].command # Nothing

(* With -q a target is out of date if its recipe has a command: what the   *)
(* expanded line holds after its leading prefix characters.                *)
recipe_has_real_commands(recipe) ==
  \E k \in DOMAIN recipe : \E s \in DOMAIN recipe[k].subs :
    \/ recipe[k].subs[s].command # Nothing
    \/ s > 1 /\ recipe[k].subs[s].prefix # {}
-----------------------------------------------------------------------------
(* The two ways to the loop over the lines.                                *)

(* A fault: plans are made without -j. *)
CollectPlanAlways ==
  /\ phase = "start"
  /\ lines' = Rejoined(job.lines)
  /\ phase' = "planned"
  /\ UNCHANGED <<job, todo, output, disk, cached, any_cmd_ran, any_recipe_ran, verdict>>

(* execute_recipe while the plans are collected.  collect_plans takes back *)
(* that a recipe ran.                                                      *)
CollectPlan ==
  /\ phase = "start" /\ job.parallel
  /\ lines' = Rejoined(job.lines)
  /\ phase' = "planned"
  /\ UNCHANGED <<job, todo, output, disk, cached, any_cmd_ran, any_recipe_ran, verdict>>

(* A result of the recipe: the worker's goes to handle_completion. *)
Return(result) ==
  /\ phase' = "done" /\ verdict' = result /\ todo' = <<>>
  /\ UNCHANGED <<job, lines>>

(* build_job_from_plan makes no job of a plan without a recipe. *)
Dispatch ==
  /\ phase = "planned"
  /\ IF lines = <<>> THEN Return("reused")
     ELSE phase' = "queued" /\ UNCHANGED <<job, lines, todo, verdict>>
  /\ UNCHANGED <<output, disk, cached, any_cmd_ran, any_recipe_ran>>

(* The lines are at hand, and are to be executed. *)
Begun == IF job.parallel THEN phase = "queued" ELSE phase = "start"

(* A fault: the time is remembered. *)
Remembering == UNCHANGED cached

(* invalidate_mtime_cache, which a worker cannot call. *)
Forget == IF job.parallel THEN UNCHANGED cached ELSE cached' = "unread"

(* Instead of running its recipe, -t makes the target new. *)
Touch ==
  /\ Begun /\ job.touch
  /\ IF job.dry_run THEN UNCHANGED <<disk, cached>> ELSE disk' = "new" /\ Forget
  /\ any_recipe_ran' = TRUE
  /\ Return("rebuilt")
  /\ UNCHANGED <<output, any_cmd_ran>>

Expand ==
  /\ Begun /\ ~job.touch
  /\ phase' = "running"
  /\ todo' = Reading(IF job.parallel THEN lines ELSE job.lines)
  /\ UNCHANGED <<job, lines, output, disk, cached, any_cmd_ran, any_recipe_ran, verdict>>
-----------------------------------------------------------------------------
(* The loop over the lines, and the one script.                            *)

next == Head(todo)
Running == phase = "running" /\ todo # <<>>

(* What a command echoes, and what became of it. *)
Showing(ends) ==
  LET event(what) == [what |-> what, command |-> next.command]
  IN  output' = output \o (IF next.silent \/ job.silent THEN <<>> ELSE <<event("echo")>>)
                       \o [k \in DOMAIN ends |-> event(ends[k])]

SkipEmpty ==
  /\ Running /\ next.command = Nothing
  /\ todo' = Tail(todo)
  /\ UNCHANGED <<job, phase, lines, output, disk, cached, any_cmd_ran,
                 any_recipe_ran, verdict>>

(* -n: the command is shown, and counts as run. *)
Preview ==
  /\ Running /\ next.command # Nothing /\ ~next.run
  /\ Showing(<<>>)
  /\ todo' = Tail(todo) /\ any_cmd_ran' = TRUE
  /\ any_recipe_ran' = (any_recipe_ran \/ (next.command = Script /\ ~job.parallel))
  /\ UNCHANGED <<job, phase, lines, disk, cached, verdict>>

Starting ==
  /\ Running /\ next.command # Nothing /\ next.run
  /\ any_cmd_ran' = TRUE
  /\ any_recipe_ran' = (any_recipe_ran \/ ~job.parallel)

(* The command has ended well, or its failure is ignored; it may have made *)
(* the target.                                                             *)
Run ==
  /\ Starting
  /\ Showing(<<"ran">>) \/ (next.ignore /\ Showing(<<"ignored">>))
  /\ disk' \in {disk, "new"}
  /\ todo' = Tail(todo)
  /\ UNCHANGED <<job, phase, lines, cached, verdict>>

(* A fault: a precious target is deleted too. *)
DeletingAlways(file) == IF job.delete_on_error THEN "absent" ELSE file

(* .DELETE_ON_ERROR; the worker does not ask whether the target is phony. *)
Deleting(file) ==
  IF job.delete_on_error /\ ~job.precious /\ (job.phony => job.parallel)
  THEN "absent" ELSE file

(* A fault: the next command is tried. *)
FailGoingOn ==
  /\ Starting /\ ~next.ignore
  /\ Showing(<<"failed">>)
  /\ \E file \in {disk, "new"} : disk' = Deleting(file)
  /\ todo' = Tail(todo)
  /\ UNCHANGED <<job, phase, lines, cached, verdict>>

(* The command fails, and so does the recipe. *)
Fail ==
  /\ Starting /\ ~next.ignore
  /\ Showing(<<"failed">>)
  /\ \E file \in {disk, "new"} : disk' = Deleting(file)
  /\ Return("error")
  /\ UNCHANGED cached

(* The shell cannot be started.  Only for a command of its own is the      *)
(* error ignored when asked; nothing is deleted.                           *)
CannotSpawn ==
  /\ Starting
  /\ Showing(<<>>)
  /\ IF next.ignore /\ next.command # Script
     THEN todo' = Tail(todo) /\ UNCHANGED <<job, phase, lines, verdict>>
     ELSE Return("error")
  /\ UNCHANGED <<disk, cached>>

(* The loop is over. *)
Finish ==
  /\ phase = "running" /\ todo = <<>>
  /\ IF any_cmd_ran /\ ~job.dry_run THEN Forget ELSE UNCHANGED cached
  /\ Return(IF any_cmd_ran THEN "rebuilt" ELSE "reused")
  /\ any_recipe_ran' = (any_recipe_ran \/ (job.parallel /\ any_cmd_ran))
  /\ UNCHANGED <<output, disk, any_cmd_ran>>
-----------------------------------------------------------------------------
Init ==
  /\ job \in Jobs /\ phase = "start" /\ lines = <<>> /\ todo = <<>> /\ output = <<>>
  /\ disk \in {"absent", "old"} /\ cached = disk
  /\ any_cmd_ran = FALSE /\ any_recipe_ran = FALSE /\ verdict = "none"

Next ==
  \/ CollectPlan \/ Dispatch \/ Touch \/ Expand \/ SkipEmpty \/ Preview
  \/ Run \/ Fail \/ CannotSpawn \/ Finish

Spec == Init /\ [][Next]_vars
-----------------------------------------------------------------------------
(* What execute_recipe and execute_job promise.                            *)

Done(results) == phase = "done" /\ verdict \in results
Events(whats) == Select(output, {e \in Event : e.what \in whats})
Named(list) == [k \in DOMAIN list |-> list[k].command]
started == Named(Events(Ends))

(* The lines a recipe's executor goes by. *)
ahead ==
  IF phase = "done" \/ job.touch THEN <<>>
  ELSE IF phase = "running" THEN todo
  ELSE Reading(IF job.parallel THEN Rejoined(job.lines) ELSE job.lines)

(* Both executors start the commands of the recipe one by one, in order,   *)
(* and nothing after a failure that is not to be ignored.                  *)
Contract == INSTANCE RecipeContract WITH
  Commands <- Commands \cup {Script},
  todo <- LET wanted == Select(ahead, {s \in Due : s.command # Nothing /\ s.run})
          IN  [k \in DOMAIN wanted |->
                 [command |-> wanted[k].command, ignore |-> wanted[k].ignore]],
  ran <- Events(Ends)
ImplementsContract == Contract!Spec

(* Where .DELETE_ON_ERROR holds, a failed command's target is gone; a      *)
(* target that was there goes in no other way.                             *)
DeletedOnError ==
  LET asked == job.delete_on_error /\ ~job.precious /\ ~job.phony
  IN  /\ Done({"error"}) /\ Events({"failed"}) # <<>> /\ asked => disk = "absent"
      /\ disk = "absent" /\ (Events({"failed"}) = <<>> \/ job.precious)
           => cached \in {"absent", "unread"}

(* Once the recipe has run, what mtime_cache says of the target is not     *)
(* older than what the recipe did to it (X1 of exec/mod.rs).               *)
CachedTimeRight ==
  Done({"rebuilt", "reused"}) /\ ~job.parallel /\ ~job.dry_run => cached \in {"unread", disk}

(* What a recipe leaves of its target, and what is remembered of it, are   *)
(* right however the recipe ends (execute_recipe, execute_job). *)
TargetAsLeft == DeletedOnError /\ CachedTimeRight

(* Under -n a command is run only if some prefix or call of make of its    *)
(* line asks for it, and the file stays as it is if none does.             *)
DryRunHarmless ==
  LET asks(line) == line.calls_make \/ \E s \in DOMAIN line.subs : "+" \in line.subs[s].prefix
      exempt == UNION { {line.subs[s].command : s \in DOMAIN line.subs} :
                          line \in {l \in Range(job.lines) : asks(l)} }
  IN  job.dry_run => /\ Range(started) \subseteq exempt \ {Nothing}
                     /\ exempt = {} => disk = cached

(* Line by line, -n shows every command that would be run, even a silent   *)
(* one, in order.                                                          *)
DryRunShows ==
  LET subs == FlattenSeq([k \in DOMAIN job.lines |-> job.lines[k].subs])
      commands == Select(subs, {s \in SubLine : s.command # Nothing})
  IN  Done({"rebuilt", "reused"}) /\ job.dry_run /\ ~job.silent /\ ~job.one_shell /\ ~job.touch
        => Named(Events({"echo"})) = Named(commands)

(* A target whose recipe would run something is never up to date to -q. *)
QuestionHidesNothing ==
  started # <<>> /\ ~job.one_shell => recipe_has_real_commands(job.lines)

(* -n tells all and does nothing, and -q hides nothing, whoever executes   *)
(* the recipe.                                                             *)
AskingFaithful == DryRunHarmless /\ DryRunShows /\ QuestionHidesNothing
=============================================================================
