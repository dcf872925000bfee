------------------------------- MODULE Remake -------------------------------
(***************************************************************************)
(* Remaking makefiles.  MakeState::run reads the makefiles, and            *)
(* try_update_makefiles then makes those that are out of date or missing.  *)
(* If it has changed one, the process executes itself again and all is     *)
(* read anew; otherwise the build begins.                                  *)
(***************************************************************************)
EXTENDS Naturals, FiniteSets, SequencesExt

CONSTANTS Files, Setups,
          MaxClock     \* bound: no recipe is run after this many writes

Line == [file : Files, ignore : BOOLEAN]
Rules == [kind : {"none", "skip", "imagined", "rule"}, explicit : BOOLEAN, recipe : BOOLEAN,
          prereqs : Seq(Files), siblings : SUBSET Files]

ASSUME RemakeAssumption ==
  /\ MaxClock \in Nat /\ "Makefile" \in Files
  /\ \A setup \in Setups :
       /\ setup.mk.includes \in [Files -> Seq(Line)]
       /\ setup.mk.rules \in [Files -> Rules] /\ setup.mk.by \in [Files -> Files]
       /\ setup.mk.named \in BOOLEAN
       /\ setup.files \in [Files -> 0..2]

VARIABLES
  mk,                \* the makefiles' text, the options, what recipes may do
  files, clock,      \* modification times, 0 if absent, and the latest one
  restarts,          \* 0 in the first image, MAKE_RESTARTS is read only for that
  phase,
  agenda,            \* include lines that were met and are still to be read
  makefile_list,     \* what was read, [file, time]
  pending_includes,  \* what could not be, [file, ignore]
  todo,              \* what the loop at work has still to look at
  stack, visited,    \* the calls of build_include_prerequisites
  prereq_error,      \* its first_error
  include_recipe_ran, include_imagined, include_already_ran,
  work_items, recipe_results,
  any_really_rebuilt,
  first, remade, failed   \* history: times when this image began; files whose
                          \* own recipe changed them, and those where it failed

outside == <<mk, files, clock>>
lists == <<makefile_list, pending_includes, agenda>>
walk == <<stack, visited, prereq_error>>
notes == <<include_recipe_ran, include_imagined, include_already_ran>>
work == <<work_items, recipe_results>>
history == <<first, remade, failed>>
vars == <<outside, restarts, phase, lists, todo, walk, notes, work, any_really_rebuilt, history>>

Exists(f) == files[f] > 0
Readable(f) == Exists(f) /\ f \notin mk.unreadable
IsRead(f) == \E i \in DOMAIN makefile_list : makefile_list[i].file = f

(* The rules there are after the files of makefile_list have been read.    *)
NoRule == [kind |-> "none", explicit |-> FALSE, recipe |-> FALSE,
           prereqs |-> <<>>, siblings |-> {}]
RuleOf(f) == IF IsRead(mk.by[f]) THEN mk.rules[f] ELSE NoRule

(* A double-colon rule without prerequisites is "skippable"; one without   *)
(* recipe and prerequisites makes its target "imagined".                   *)
find_include_rule(f) == RuleOf(f)
HasAnyRule(f) == RuleOf(f).explicit
HasExplicitRule(f) == RuleOf(f).explicit /\ RuleOf(f).kind = "rule"

Outputs(f) == {f} \cup RuleOf(f).siblings

(* What the recipe of f may do: write its files and end well or not.  It   *)
(* leaves alone what is there and newer than all that f needs, unless it   *)
(* is an eager one.                                                        *)
Writes(f, g) ==
  f \in mk.eager \/ ~Exists(g) \/ \E p \in Range(RuleOf(f).prereqs) : files[p] > files[g]

Endings(f) ==
  [ok : IF f \in mk.may_fail THEN BOOLEAN ELSE {TRUE},
   wrote : {W \in {{}, {f}, Outputs(f)} : \A g \in W : Writes(f, g)}]

RunsRecipe(f, end) ==
  /\ clock < MaxClock
  /\ files' = [g \in Files |-> IF g \in end.wrote THEN clock + 1 ELSE files[g]]
  /\ clock' = IF end.wrote = {} THEN clock ELSE clock + 1
  /\ UNCHANGED mk
-----------------------------------------------------------------------------
(* Reading.  Each image begins with read_makefiles.                        *)

Include(f, ignore) == [file |-> f, ignore |-> ignore]

(* The default makefile is among the pending includes from the start. *)
ToRead == <<Include("Makefile", ~mk.named)>>
PendingAtFirst == IF mk.named THEN <<>> ELSE <<Include("Makefile", TRUE)>>

Init ==
  /\ \E setup \in Setups : mk = setup.mk /\ files = setup.files
  /\ clock = 2
  /\ phase = "reading" /\ restarts = 0
  /\ agenda = ToRead /\ pending_includes = PendingAtFirst /\ makefile_list = <<>>
  /\ todo = <<>> /\ stack = <<>> /\ visited = {} /\ prereq_error = FALSE
  /\ include_recipe_ran = {} /\ include_imagined = {} /\ include_already_ran = {}
  /\ work_items = <<>> /\ recipe_results = <<>> /\ any_really_rebuilt = FALSE
  /\ first = files /\ remade = {} /\ failed = {}

(* A file and what it includes; a file that cannot be read is left for     *)
(* later.                                                                  *)
ReadMakefile ==
  /\ phase \in {"reading", "results"} /\ agenda # <<>>
  /\ LET line == Head(agenda)
     IN  IF Readable(line.file)
         THEN /\ makefile_list' =
                   Append(makefile_list, [file |-> line.file, time |-> files[line.file]])
              /\ agenda' = mk.includes[line.file] \o Tail(agenda)
              /\ UNCHANGED pending_includes
         ELSE /\ agenda' = Tail(agenda)
              /\ pending_includes' = Append(pending_includes, line)
              /\ UNCHANGED makefile_list
  /\ UNCHANGED <<outside, restarts, phase, todo, walk, notes, work, any_really_rebuilt, history>>

AllRead ==
  /\ phase = "reading" /\ agenda = <<>>
  /\ phase' = "listed"
  /\ todo' = [i \in DOMAIN makefile_list |-> makefile_list[i].file]
  /\ UNCHANGED <<outside, restarts, lists, walk, notes, work, any_really_rebuilt, history>>
-----------------------------------------------------------------------------
(* build_include_prerequisites: a frame for each call under way.  Its      *)
(* target is the one whose prerequisites are built, before is the time it  *)
(* had.                                                                    *)

Call(f) == Append(stack, [target |-> f, left |-> RuleOf(f).prereqs, before |-> files[f]])

Top == Last(stack)
Going == Append(Front(stack), [Top EXCEPT !.left = Tail(@)])

Lenient == phase = "listed" \/ Head(todo).ignore

Walking == stack # <<>> /\ Top.left # <<>>

(* Nothing is to be done for the next prerequisite, or nothing can be. *)
PassOver ==
  /\ Walking
  /\ LET p == Head(Top.left)
     IN  /\ \/ p \in visited
            \/ ~HasExplicitRule(p)
            \/ Exists(p) /\ RuleOf(p).prereqs = <<>>
         /\ stack' = Going
         /\ visited' = IF ~Exists(p) /\ HasAnyRule(p) THEN visited \cup {p} ELSE visited
         /\ prereq_error' = \/ prereq_error
                            \/ p \notin visited /\ ~Exists(p) /\ ~HasAnyRule(p) /\ ~Lenient
  /\ UNCHANGED <<outside, restarts, phase, lists, todo, notes, work, any_really_rebuilt, history>>

GoDown ==
  /\ Walking
  /\ LET p == Head(Top.left)
     IN  /\ p \notin visited /\ HasExplicitRule(p)
         /\ ~(Exists(p) /\ RuleOf(p).prereqs = <<>>)
         /\ stack' = Append(Going, [target |-> p, left |-> RuleOf(p).prereqs,
                                    before |-> files[p]])
         /\ visited' = visited \cup {p}
  /\ UNCHANGED <<outside, restarts, phase, lists, todo, prereq_error, notes, work,
                 any_really_rebuilt, history>>

(* A prerequisite that was there is made if one of its own is newer; one   *)
(* that was missing is, unless its recipe ran or waits to be run.          *)
MustMake(frame) ==
  LET p == frame.target
  IN  /\ RuleOf(p).recipe
      /\ IF frame.before = 0 THEN p \notin include_recipe_ran
         ELSE \E q \in Range(RuleOf(p).prereqs) : files[q] > frame.before

(* Errors are kept while the other prerequisites are built. *)
ComeBack ==
  /\ Len(stack) > 1 /\ Top.left = <<>>
  /\ stack' = Front(stack)
  /\ IF MustMake(Top)
     THEN \E end \in Endings(Top.target) :
            /\ RunsRecipe(Top.target, end)
            /\ prereq_error' = (prereq_error \/ ~end.ok)
     ELSE UNCHANGED <<outside, prereq_error>>
  /\ UNCHANGED <<restarts, phase, lists, todo, visited, notes, work, any_really_rebuilt, history>>

(* The call from outside has returned. *)
Walked == Len(stack) = 1 /\ Top.left = <<>>
NotWalking == stack = <<>>
-----------------------------------------------------------------------------
(* First the files that were read.                                         *)

Listed == phase = "listed" /\ todo # <<>>

Applicable(f) ==
  find_include_rule(f).kind = "rule" /\ f \notin include_recipe_ran

SkipListed ==
  /\ Listed /\ NotWalking /\ ~Applicable(Head(todo))
  /\ todo' = Tail(todo)
  /\ UNCHANGED <<outside, restarts, phase, lists, walk, notes, work, any_really_rebuilt, history>>

EnterListed ==
  /\ Listed /\ NotWalking /\ Applicable(Head(todo))
  /\ stack' = Call(Head(todo)) /\ visited' = {Head(todo)} /\ prereq_error' = FALSE
  /\ UNCHANGED <<outside, restarts, phase, lists, todo, notes, work, any_really_rebuilt, history>>

(* A fault: -W makes a file new in every image. *)
NeedsRebuildAlways(f, target_time) ==
  \/ target_time = 0
  \/ \E p \in Range(RuleOf(f).prereqs) :
       \/ p \in mk.phony \cup mk.what_if
       \/ ~Exists(p) /\ HasAnyRule(p)
       \/ files[p] > target_time

(* -W counts only in the first image. *)
NeedsRebuild(f, target_time) ==
  \/ target_time = 0
  \/ \E p \in Range(RuleOf(f).prereqs) :
       \/ p \in mk.phony
       \/ p \in mk.what_if /\ restarts = 0
       \/ ~Exists(p) /\ HasAnyRule(p)
       \/ files[p] > target_time

KeepListed ==
  /\ Listed /\ Walked
  /\ LET f == Head(todo)
     IN ~NeedsRebuild(f, Top.before) \/ ~RuleOf(f).recipe
  /\ stack' = <<>> /\ todo' = Tail(todo)
  /\ UNCHANGED <<outside, restarts, phase, lists, visited, prereq_error, notes, work,
                 any_really_rebuilt, history>>

(* A fault: only a new file counts as changed. *)
Created(f, before) == before = 0 /\ files'[f] > 0

Changed(f, before) == files'[f] \notin {0, before}

RemakeListed ==
  /\ Listed /\ Walked
  /\ LET f == Head(todo)
     IN  /\ NeedsRebuild(f, Top.before) /\ RuleOf(f).recipe
         /\ include_recipe_ran' = include_recipe_ran \cup Outputs(f)
         /\ \E end \in Endings(f) :
              /\ RunsRecipe(f, end)
              /\ any_really_rebuilt' = (any_really_rebuilt \/ (end.ok /\ Changed(f, Top.before)))
              /\ include_already_ran' = IF end.ok /\ ~Changed(f, Top.before)
                                        THEN include_already_ran \cup {f}
                                        ELSE include_already_ran
              /\ phase' = IF end.ok THEN phase ELSE "failed"
              /\ remade' = IF f \in end.wrote THEN remade \cup {f} ELSE remade
              /\ failed' = IF end.ok THEN failed ELSE failed \cup {f}
  /\ stack' = <<>> /\ todo' = Tail(todo)
  /\ UNCHANGED <<restarts, lists, visited, prereq_error, include_imagined, work, first>>

(* An include that must fail again is not worth another image. *)
FatalPending ==
  \E pi \in Range(pending_includes) :
    ~pi.ignore /\ ~Exists(pi.file) /\ find_include_rule(pi.file).kind = "none"

EndListed ==
  /\ phase = "listed" /\ todo = <<>>
  /\ IF any_really_rebuilt /\ ~FatalPending
     THEN phase' = "restarting" /\ UNCHANGED <<todo, pending_includes>>
     ELSE phase' = "pending" /\ todo' = pending_includes /\ pending_includes' = <<>>
  /\ UNCHANGED <<outside, restarts, agenda, makefile_list, walk, notes, work, any_really_rebuilt,
                 history>>
-----------------------------------------------------------------------------
(* Phase A: what is to become of each file that was missing.               *)

Pending == phase = "pending" /\ todo # <<>>

Item(outcome, primary) ==
  [file |-> Head(todo).file, ignore |-> Head(todo).ignore, outcome |-> outcome,
   primary |-> primary, pre |-> files[Head(todo).file]]

Queue(item) ==
  /\ work_items' = Append(work_items, item)
  /\ recipe_results' = Append(recipe_results, "none")
  /\ todo' = Tail(todo)

(* file_to_work_idx: a file's first item, or that of a sibling whose       *)
(* recipe was queued before.                                               *)
WorkIndices(f) ==
  {i \in DOMAIN work_items :
     \/ work_items[i].file = f
     \/ work_items[i].outcome = "RunRecipe" /\ f \in RuleOf(work_items[i].file).siblings}

(* A fault: whatever the first item of the file was, it has a result. *)
OutcomeOfAny(pi) ==
  LET rule == find_include_rule(pi.file)
      indices == WorkIndices(pi.file)
      missing == IF pi.ignore THEN "SiblingAlreadyRan" ELSE "Error"
  IN  CASE Readable(pi.file) -> Item("AlreadyExists", 0)
        [] ~Readable(pi.file) /\ (pi.file \in mk.phony \/ rule.kind \in {"none", "skip"}) ->
             Item(missing, 0)
        [] ~Readable(pi.file) /\ pi.file \notin mk.phony /\ rule.kind = "imagined" ->
             Item("Imagined", 0)
        [] OTHER -> IF indices = {} THEN Item("SiblingAlreadyRan", 0)
                    ELSE Item("SiblingOf", CHOOSE i \in indices : \A j \in indices : i <= j)

OutcomeNow(pi) ==
  LET rule == find_include_rule(pi.file)
      indices == WorkIndices(pi.file)
      primary == CHOOSE i \in indices : \A j \in indices : i <= j
      missing == IF pi.ignore THEN "SiblingAlreadyRan" ELSE "Error"
  IN  CASE Readable(pi.file) -> Item("AlreadyExists", 0)
        [] ~Readable(pi.file) /\ (pi.file \in mk.phony \/ rule.kind \in {"none", "skip"}) ->
             Item(missing, 0)
        [] ~Readable(pi.file) /\ pi.file \notin mk.phony /\ rule.kind = "imagined" ->
             Item("Imagined", 0)
        [] OTHER ->
             IF indices # {} /\ work_items[primary].outcome = "RunRecipe"
             THEN Item("SiblingOf", primary) ELSE Item("SiblingAlreadyRan", 0)

MustWalk(pi) ==
  /\ ~Readable(pi.file) /\ pi.file \notin mk.phony
  /\ find_include_rule(pi.file).kind = "rule" /\ pi.file \notin include_recipe_ran

SettlePending ==
  /\ Pending /\ NotWalking /\ ~MustWalk(Head(todo))
  /\ Queue(OutcomeNow(Head(todo)))
  /\ UNCHANGED <<outside, restarts, phase, lists, walk, notes, any_really_rebuilt, history>>

EnterPending ==
  /\ Pending /\ NotWalking /\ MustWalk(Head(todo))
  /\ stack' = Call(Head(todo).file) /\ visited' = {Head(todo).file} /\ prereq_error' = FALSE
  /\ UNCHANGED <<outside, restarts, phase, lists, todo, notes, work, any_really_rebuilt, history>>

QueuePending ==
  /\ Pending /\ Walked
  /\ LET pi == Head(todo)
         outcome == CASE prereq_error /\ pi.ignore -> "Imagined"
                      [] prereq_error /\ ~pi.ignore -> "Error"
                      [] ~prereq_error /\ RuleOf(pi.file).recipe -> "RunRecipe"
                      [] OTHER -> "PrereqsOnlyNoRecipe"
     IN  /\ Queue(Item(outcome, 0))
         /\ include_recipe_ran' = IF outcome = "RunRecipe"
                                  THEN include_recipe_ran \cup Outputs(pi.file)
                                  ELSE include_recipe_ran
  /\ stack' = <<>>
  /\ UNCHANGED <<outside, restarts, phase, lists, visited, prereq_error, include_imagined,
                 include_already_ran, any_really_rebuilt, history>>

EndPending ==
  /\ phase = "pending" /\ todo = <<>>
  /\ phase' = "recipes"
  /\ UNCHANGED <<outside, restarts, lists, todo, walk, notes, work, any_really_rebuilt, history>>
-----------------------------------------------------------------------------
(* Phase B: the recipes, all at once if -j allows more than one.           *)

recipe_indices == {i \in DOMAIN work_items : work_items[i].outcome = "RunRecipe"}
Unfinished == {i \in recipe_indices : recipe_results[i] = "none"}

MayFinish(i) ==
  i \in Unfinished /\ (mk.jobs > 1 \/ \A j \in Unfinished : i <= j)

FinishRecipe(i) ==
  /\ phase = "recipes" /\ MayFinish(i)
  /\ LET f == work_items[i].file
     IN  \E end \in Endings(f) :
           /\ RunsRecipe(f, end)
           /\ recipe_results' = [recipe_results EXCEPT ![i] = IF end.ok THEN "ok" ELSE "error"]
           /\ remade' = IF f \in end.wrote THEN remade \cup {f} ELSE remade
           /\ failed' = IF end.ok THEN failed ELSE failed \cup {f}
  /\ UNCHANGED <<restarts, phase, lists, todo, walk, notes, work_items, any_really_rebuilt, first>>

EndRecipes ==
  /\ phase = "recipes" /\ Unfinished = {}
  /\ phase' = "results" /\ todo' = [i \in DOMAIN work_items |-> i]
  /\ UNCHANGED <<outside, restarts, lists, walk, notes, work, any_really_rebuilt, history>>
-----------------------------------------------------------------------------
(* Phase C: the outcomes in order.  Files that need no new image are read. *)

Judging == phase = "results" /\ agenda = <<>> /\ todo # <<>>
item == work_items[Head(todo)]

Judged ==
  /\ todo' = Tail(todo)
  /\ UNCHANGED <<outside, restarts, makefile_list, pending_includes, walk, include_recipe_ran,
                 include_already_ran, work, history>>

(* Of the primary item for a sibling, of its own otherwise. *)
Result == recipe_results[IF item.outcome = "SiblingOf" THEN item.primary ELSE Head(todo)]

Unchanged == item.outcome = "RunRecipe" /\ files[item.file] = item.pre

ReadUnlessRead ==
  agenda' = IF IsRead(item.file) \/ ~Readable(item.file) THEN <<>> ELSE <<Include(item.file, item.ignore)>>

JudgeOld ==
  /\ Judging
  /\ \/ item.outcome = "AlreadyExists"
     \/ item.outcome = "RunRecipe" /\ Result = "ok" /\ Exists(item.file) /\ Unchanged
  /\ ReadUnlessRead
  /\ Judged /\ UNCHANGED <<phase, include_imagined, any_really_rebuilt>>

JudgeMade ==
  /\ Judging /\ item.outcome \in {"RunRecipe", "SiblingOf"}
  /\ Result = "ok" /\ Exists(item.file) /\ ~Unchanged
  /\ any_really_rebuilt' = TRUE
  /\ Judged /\ UNCHANGED <<phase, agenda, include_imagined>>

JudgeImagined ==
  /\ Judging
  /\ \/ item.outcome = "Imagined"
     \/ item.outcome \in {"RunRecipe", "SiblingOf"} /\ Result = "ok" /\ ~Exists(item.file)
     \/ item.outcome = "PrereqsOnlyNoRecipe" /\ ~Exists(item.file)
  /\ include_imagined' = include_imagined \cup {item.file}
  /\ Judged /\ UNCHANGED <<phase, agenda, any_really_rebuilt>>

(* A fault: a failed recipe is passed over if its file is there. *)
FailingMissing ==
  \/ item.outcome = "Error"
  \/ item.outcome \in {"RunRecipe", "SiblingOf"} /\ Result # "ok" /\ ~Exists(item.file)

Failing ==
  \/ item.outcome = "Error"
  \/ item.outcome \in {"RunRecipe", "SiblingOf"} /\ Result # "ok"

JudgeFailed ==
  /\ Judging /\ Failing /\ ~item.ignore
  /\ phase' = "failed"
  /\ Judged /\ UNCHANGED <<agenda, include_imagined, any_really_rebuilt>>

JudgeNothing ==
  /\ Judging
  /\ \/ item.outcome = "SiblingAlreadyRan"
     \/ item.outcome = "PrereqsOnlyNoRecipe" /\ Exists(item.file)
     \/ item.outcome \in {"RunRecipe", "SiblingOf"} /\ Result # "ok"
        /\ ~(Failing /\ ~item.ignore)
  /\ Judged /\ UNCHANGED <<phase, agenda, include_imagined, any_really_rebuilt>>

EndResults ==
  /\ phase = "results" /\ agenda = <<>> /\ todo = <<>>
  /\ phase' = IF any_really_rebuilt THEN "restarting" ELSE "building"
  /\ UNCHANGED <<outside, restarts, lists, todo, walk, notes, work, any_really_rebuilt, history>>
-----------------------------------------------------------------------------
(* do_reinvoke: a new image, unless the program cannot be executed.        *)
Reinvoke ==
  /\ phase = "restarting" /\ ~mk.no_exec
  /\ phase' = "reading" /\ restarts' = 1
  /\ agenda' = ToRead /\ pending_includes' = PendingAtFirst /\ makefile_list' = <<>>
  /\ todo' = <<>> /\ stack' = <<>> /\ visited' = {} /\ prereq_error' = FALSE
  /\ include_recipe_ran' = {} /\ include_imagined' = {} /\ include_already_ran' = {}
  /\ work_items' = <<>> /\ recipe_results' = <<>> /\ any_really_rebuilt' = FALSE
  /\ first' = files /\ remade' = {} /\ failed' = {}
  /\ UNCHANGED outside

CannotReinvoke ==
  /\ phase = "restarting" /\ mk.no_exec
  /\ phase' = "failed"
  /\ UNCHANGED <<outside, restarts, lists, todo, walk, notes, work, any_really_rebuilt, history>>

Next ==
  \/ ReadMakefile \/ AllRead
  \/ PassOver \/ GoDown \/ ComeBack
  \/ SkipListed \/ EnterListed \/ KeepListed \/ RemakeListed \/ EndListed
  \/ SettlePending \/ EnterPending \/ QueuePending \/ EndPending
  \/ \E i \in recipe_indices : FinishRecipe(i)
  \/ EndRecipes
  \/ JudgeOld \/ JudgeMade \/ JudgeImagined \/ JudgeFailed \/ JudgeNothing \/ EndResults
  \/ Reinvoke \/ CannotReinvoke

Spec == Init /\ [][Next]_vars

(* One thread, and recipes that end. *)
FairSpec == Spec /\ WF_vars(Next)
-----------------------------------------------------------------------------
(* Every queued recipe has a result when phase C looks for it, and its own *)
(* or its primary's is the one that is found ("PANIC-SAFE").               *)
TypeOK ==
  /\ files \in [Files -> 0..clock] /\ clock \in Nat
  /\ restarts \in {0, 1}
  /\ phase \in {"reading", "listed", "pending", "recipes", "results", "restarting",
                 "building", "failed"}
  /\ \A i \in DOMAIN stack : stack[i].target \in visited
  /\ IsInjective([i \in DOMAIN stack |-> stack[i].target])
  /\ include_already_ran \subseteq include_recipe_ran
  /\ DOMAIN recipe_results = DOMAIN work_items
  /\ \A i \in DOMAIN work_items :
       /\ work_items[i].outcome = "SiblingOf" =>
            /\ work_items[i].primary \in recipe_indices
            /\ work_items[i].primary < i
       /\ recipe_results[i] # "none" => i \in recipe_indices
       /\ phase = "results" /\ i \in recipe_indices => recipe_results[i] # "none"

(* Sooner or later the build begins or make fails, though a phony or       *)
(* missing prerequisite, or -W, forces makefiles' recipes to be run in     *)
(* every image.  The makefiles need one another in no circle.              *)
RemakingEnds == <>(phase \in {"building", "failed"})

(* No build goes by what stood in a makefile before its own recipe changed *)
(* it.                                                                     *)
NoneLeftStale ==
  phase = "building" =>
    \A i \in DOMAIN makefile_list :
      LET read == makefile_list[i] IN files[read.file] # read.time => read.file \notin remade

(* The build begins only if every include line without a dash that was met *)
(* before the makefiles were remade has its file, or a rule whose recipe   *)
(* did not fail.  (Remake_proofs has the makefiles for which this is so.)  *)
RequiredOrError ==
  phase = "building" =>
    \A w \in Range(work_items) : ~w.ignore =>
      /\ w.file \notin failed
      /\ Exists(w.file) \/ w.file \in include_imagined \cup include_recipe_ran

(* The build begins on makefiles that are as they were read, and with all  *)
(* that are required (try_update_makefiles).                               *)
BuildsOnMakefiles == NoneLeftStale /\ RequiredOrError

(* The comment in MakeState::run: if any makefile is rebuilt the process   *)
(* is executed again.                                                      *)
MakefilesFresh ==
  phase = "building" =>
    \A i \in DOMAIN makefile_list : files[makefile_list[i].file] = makefile_list[i].time
=============================================================================
