----------------------------- MODULE BuildWalk -----------------------------
(***************************************************************************)
(* The sequential build of exec/mod.rs: build_targets_sequential calls     *)
(* build_target on each goal, which calls itself on the prerequisites,     *)
(* depth first, and runs recipes on the way back.  The call stack is a     *)
(* variable: a frame is one build_with_rules or build_with_rules_grouped   *)
(* under way, and an action is what happens between two calls of           *)
(* build_target.  Recipes run one at a time, inside the action that        *)
(* decides on them.                                                        *)
(***************************************************************************)
EXTENDS Freshness, SequencesExt

CONSTANTS Makefiles,     \* the makefiles that may be given
          InitialTimes,  \* the times files may have at the start, 0 for none
          Start          \* the time of the start

ASSUME MakefilesAssumption == \A m \in Makefiles : IsMakefile(m)
ASSUME TimesAssumption == Start \in Nat /\ InitialTimes \subseteq 0 .. Start

VARIABLES
  mk, keep_going, always_make,   \* the makefile, -k, -B
  first_disk, disk,              \* modification times, 0 if absent: then, now
  clock,                         \* later than every time on disk
  mtime_cache,                   \* times remembered, Unread if not
  built,                         \* the memo of results
  failed_targets, circular_dropped, intermediate_built,
  stack,                         \* frames of build_target calls
  goals, errors,                 \* goals not yet finished; some failed
  pc, ret,                       \* about to call or returning, with what
  log,                           \* the recipes run, and whether they succeeded
  outcome

given == <<mk, keep_going, always_make, first_disk>>
files == <<disk, clock, mtime_cache>>
memo  == <<built, failed_targets, circular_dropped, intermediate_built>>
calls == <<stack, goals, errors, pc, ret>>
vars  == <<given, files, memo, calls, log, outcome>>

Unread == -1
NotBuilt == "no"                  \* no entry in built
Results == {"reused", "rebuilt"}  \* Ok(false) and Ok(true)

Dep == [file : Files, normal : BOOLEAN]

(* What a frame is doing: only the order-only prerequisites of a target    *)
(* that is up to date, the prerequisites of a target (of a grouped one),   *)
(* or those of its siblings.  agenda is what is left to build of the list  *)
(* at hand, others the lists that come next.                               *)
Frame == [target : Files, phase : {"fresh", "single", "group", "siblings"},
          agenda : Seq(Dep), others : Seq(Seq(Dep)), siblings : Seq(Files),
          rebuilt : BOOLEAN, failed : BOOLEAN]

(* The types of the state. *)
TypeOK ==
  /\ IsMakefile(mk) /\ keep_going \in BOOLEAN /\ always_make \in BOOLEAN
  /\ first_disk \in [Files -> Nat] /\ disk \in [Files -> Nat] /\ clock \in Nat
  /\ mtime_cache \in [Files -> Nat \cup {Unread}]
  /\ built \in [Files -> Results \cup {NotBuilt}]
  /\ failed_targets \subseteq Files /\ circular_dropped \subseteq Files
  /\ intermediate_built \subseteq Files
  /\ stack \in Seq(Frame) /\ goals \in Seq(Files) /\ errors \in BOOLEAN
  /\ pc \in {"call", "return", "end"}
  /\ ret \in Results \cup {"none", "error"}
  /\ log \in Seq([target : Files, ok : BOOLEAN])
  /\ outcome \in {"none", "ok", "error"}
-----------------------------------------------------------------------------
(* The memory of modification times.                                       *)

(* What file_mtime answers. *)
view == [f \in Files |-> IF mtime_cache[f] = Unread THEN disk[f] ELSE mtime_cache[f]]

(* The cache once the files of R have been asked for. *)
Remembering(R) == [f \in Files |-> IF f \in R THEN view[f] ELSE mtime_cache[f]]

(* A fault: the target's remembered time survives its recipe. *)
NotEvicting(cache, t) == cache

Evicting(cache, t) == [cache EXCEPT ![t] = Unread]

Now == clock + 1

Touching(W) == [f \in Files |-> IF f \in W THEN Now ELSE disk[f]]
-----------------------------------------------------------------------------
(* Calls and returns.                                                      *)

top == Last(stack)
building == {stack[i].target : i \in DOMAIN stack}

(* build_target is about to be called on t. *)
Calling(t) ==
  /\ pc = "call"
  /\ IF stack = <<>> THEN goals # <<>> /\ t = Head(goals)
     ELSE top.agenda # <<>> /\ t = Head(top.agenda).file

(* A fault: a target under way is entered again. *)
UnmetAgain(t) == built[t] = NotBuilt /\ t \notin failed_targets

(* It is neither memoized, nor failed, nor under way. *)
Unmet(t) == built[t] = NotBuilt /\ t \notin failed_targets /\ t \notin building

Return(r) == pc' = "return" /\ ret' = r

(* A fault: the siblings are forgotten. *)
NotCovering(b, S) == b

(* The files of S, which are siblings, are marked built and not rebuilt. *)
Covering(b, S) == [f \in Files |-> IF f \in S THEN "reused" ELSE b[f]]

(* A fault: an error is recorded as if it were a result. *)
RecordingErrors(b, t, r) == [b EXCEPT ![t] = r]

(* The return of build_target on t with result r. *)
Recording(b, t, r) == IF r = "error" THEN b ELSE [b EXCEPT ![t] = r]

Record(t, r, covered) ==
  /\ built' = Recording(Covering(built, covered), t, r)
  /\ failed_targets' = IF r = "error" THEN failed_targets \cup {t} ELSE failed_targets

(* The top frame ends with result r. *)
Pop(r, covered) ==
  /\ stack' = Front(stack)
  /\ Record(top.target, r, covered)
  /\ Return(r)

(* The memo answers: Ok with what built holds, Err for what has failed.   *)
Memoized(t) ==
  /\ Calling(t)
  /\ \/ built[t] # NotBuilt /\ Return(built[t])
     \/ built[t] = NotBuilt /\ t \in failed_targets /\ Return("error")
  /\ UNCHANGED <<given, files, memo, stack, goals, errors, log, outcome>>

(* A dependency on a target under way is dropped, and the target counts as *)
(* built from here on.                                                     *)
DropCycle(t) ==
  /\ Calling(t)
  /\ built[t] = NotBuilt /\ t \notin failed_targets /\ t \in building
  /\ built' = [built EXCEPT ![t] = "reused"]
  /\ circular_dropped' = circular_dropped \cup {t}
  /\ Return("reused")
  /\ UNCHANGED <<given, files, failed_targets, intermediate_built, stack,
                 goals, errors, log, outcome>>

(* No rule: the file is there, or the name is phony, or make cannot go on. *)
Leaf(t) ==
  /\ Calling(t) /\ Unmet(t) /\ t \notin mk.ruled
  /\ LET r == IF disk[t] > 0 \/ t \in mk.phony THEN "reused" ELSE "error"
     IN  Record(t, r, {}) /\ Return(r)
  /\ UNCHANGED <<given, files, circular_dropped, intermediate_built, stack,
                 goals, errors, log, outcome>>

Tagged(list, normal) ==
  [i \in DOMAIN list |-> [file |-> list[i], normal |-> normal]]

(* A fault: order-only prerequisites are left out. *)
NormalNeeds(t) == Tagged(mk.prereqs[t], TRUE)

(* The prerequisites of t, those whose result matters first. *)
Needs(t) == Tagged(mk.prereqs[t], TRUE) \o Tagged(mk.order_only[t], FALSE)

(* The prerequisites of which the results are ignored. *)
OrderOnlyNeeds(t) == Tagged(mk.order_only[t], FALSE)
SiblingNeeds(s) == Tagged(mk.prereqs[s], FALSE) \o OrderOnlyNeeds(s)

NewFrame(t, phase) ==
  [target |-> t, phase |-> phase, agenda |-> Needs(t), others |-> <<>>,
   siblings |-> <<>>, rebuilt |-> FALSE, failed |-> FALSE]

Push(frame) ==
  /\ stack' = Append(stack, frame)
  /\ pc' = "call"
  /\ UNCHANGED <<given, disk, clock, memo, goals, errors, ret, log, outcome>>

(* The siblings a grouped target brings with it. *)
SiblingsToBuild(t) ==
  {s \in mk.siblings[t] : built[s] = NotBuilt /\ s \notin building \cup {t}}

(* The pre-check finds t fresh: it is done but for its order-only          *)
(* prerequisites, and those of the deleted intermediates passed over.      *)
EnterFresh(t) ==
  LET check == PreCheck(mk, view, Now, t)
      ofDeleted == [i \in DOMAIN mk.prereqs[t] |->
                      IF Skippable(mk, view, mk.prereqs[t][i])
                      THEN OrderOnlyNeeds(mk.prereqs[t][i]) ELSE <<>>]
  IN  /\ Calling(t) /\ Unmet(t) /\ t \in mk.ruled
      /\ SiblingsToBuild(t) = {}
      /\ ~always_make /\ check.fresh
      /\ mtime_cache' = Remembering(check.reads)
      /\ Push([NewFrame(t, "fresh") EXCEPT
                 !.agenda = <<>>,
                 !.others = Append(ofDeleted, OrderOnlyNeeds(t))])

EnterSingle(t) ==
  LET check == PreCheck(mk, view, Now, t)
  IN  /\ Calling(t) /\ Unmet(t) /\ t \in mk.ruled
      /\ SiblingsToBuild(t) = {}
      /\ \/ always_make /\ UNCHANGED mtime_cache
         \/ ~always_make /\ ~check.fresh /\ mtime_cache' = Remembering(check.reads)
      /\ Push(NewFrame(t, "single"))

(* A grouped target is not pre-checked.  Its siblings come from a hash set. *)
EnterGroup(t) ==
  /\ Calling(t) /\ Unmet(t) /\ t \in mk.ruled
  /\ SiblingsToBuild(t) # {}
  /\ \E order \in SetToSeqs(SiblingsToBuild(t)) :
       Push([NewFrame(t, "group") EXCEPT !.siblings = order])
  /\ UNCHANGED mtime_cache
-----------------------------------------------------------------------------
(* The top frame when a call of its own has returned.                      *)

ReplaceTop(frame) == stack' = [stack EXCEPT ![Len(stack)] = frame]

(* Errors are looked at for the prerequisites of the target only: those of *)
(* order-only prerequisites and of siblings are ignored.                   *)
MustStop == ret = "error" /\ Head(top.agenda).normal /\ ~keep_going

(* A fault: a prerequisite's result overwrites the earlier ones. *)
ResumeForgetting ==
  /\ pc = "return" /\ stack # <<>> /\ ~MustStop
  /\ ReplaceTop([top EXCEPT
       !.agenda  = Tail(@),
       !.rebuilt = IF Head(top.agenda).normal THEN ret = "rebuilt" ELSE @,
       !.failed  = IF Head(top.agenda).normal THEN ret = "error" ELSE @])
  /\ pc' = "call" /\ ret' = "none"
  /\ UNCHANGED <<given, files, memo, goals, errors, log, outcome>>

Resume ==
  /\ pc = "return" /\ stack # <<>> /\ ~MustStop
  /\ ReplaceTop([top EXCEPT
       !.agenda  = Tail(@),
       !.rebuilt = @ \/ (Head(top.agenda).normal /\ ret = "rebuilt"),
       !.failed  = @ \/ (Head(top.agenda).normal /\ ret = "error")])
  /\ pc' = "call" /\ ret' = "none"
  /\ UNCHANGED <<given, files, memo, goals, errors, log, outcome>>

(* The siblings marked when the frame ends before its recipe. *)
CoveredByFailure == IF top.phase = "group" THEN Range(top.siblings) ELSE {}

(* Without -k an error ends the target at once. *)
Abandon ==
  /\ pc = "return" /\ stack # <<>> /\ MustStop
  /\ Pop("error", CoveredByFailure)
  /\ UNCHANGED <<given, files, circular_dropped, intermediate_built, goals,
                 errors, log, outcome>>

(* The top frame has no call left to make on its present list. *)
Listed == pc = "call" /\ stack # <<>> /\ top.agenda = <<>>

NextList ==
  /\ Listed /\ top.others # <<>>
  /\ ReplaceTop([top EXCEPT !.agenda = Head(top.others), !.others = Tail(@)])
  /\ UNCHANGED <<given, files, memo, goals, errors, pc, ret, log, outcome>>

Finishing(phases) == Listed /\ top.others = <<>> /\ top.phase \in phases

(* build_with_rules returns Ok(false) for a target the pre-check passed. *)
FinishFresh ==
  /\ Finishing({"fresh"})
  /\ Pop("reused", {})
  /\ UNCHANGED <<given, files, circular_dropped, intermediate_built, goals,
                 errors, log, outcome>>

(* With -k, a target one of whose prerequisites failed fails. *)
FailPrereqs ==
  /\ Finishing({"single", "group"}) /\ top.failed
  /\ Pop("error", CoveredByFailure)
  /\ UNCHANGED <<given, files, circular_dropped, intermediate_built, goals,
                 errors, log, outcome>>

(* A rule without a recipe passes its prerequisites' result on. *)
NoRecipe ==
  /\ Finishing({"single"}) /\ ~top.failed /\ mk.recipe[top.target] = "none"
  /\ Pop(IF top.rebuilt THEN "rebuilt" ELSE "reused", {})
  /\ UNCHANGED <<given, files, circular_dropped, intermediate_built, goals,
                 errors, log, outcome>>

(* The prerequisites of a grouped target are built; its siblings' come     *)
(* next.                                                                   *)
BuildSiblings ==
  /\ Finishing({"group"}) /\ ~top.failed
  /\ ReplaceTop([top EXCEPT !.phase = "siblings",
                    !.others = [i \in DOMAIN top.siblings |-> SiblingNeeds(top.siblings[i])]])
  /\ UNCHANGED <<given, files, memo, goals, errors, pc, ret, log, outcome>>

(* The top frame is where the recipe's fate is decided. *)
Deciding ==
  /\ Finishing({"single", "siblings"}) /\ ~top.failed
  /\ top.phase = "single" => mk.recipe[top.target] # "none"

(* needs_rebuild for the target and, if it is up to date, its siblings,    *)
(* until one is stale.                                                     *)
Decision ==
  LET test(f, any) == NeedsRebuild(mk, view, Now, built, f, any)
      own == test(top.target, top.rebuilt)
      stale(s) == test(s, FALSE).stale
      readsOf(s) == test(s, FALSE).reads
  IN  IF always_make \/ top.target \in mk.phony THEN [stale |-> TRUE, reads |-> {}]
      ELSE IF own.stale THEN own
      ELSE [stale |-> Found(top.siblings, stale),
            reads |-> own.reads \cup Reads(top.siblings, stale, readsOf)]

Skip ==
  /\ Deciding /\ ~Decision.stale
  /\ mtime_cache' = Remembering(Decision.reads)
  /\ Pop("reused", Range(top.siblings))
  /\ UNCHANGED <<given, disk, clock, circular_dropped, intermediate_built,
                 goals, errors, log, outcome>>

Logged(t, ok) == log' = Append(log, [target |-> t, ok |-> ok])

(* A recipe with nothing to run returns Ok(false). *)
RunEmpty ==
  /\ Deciding /\ Decision.stale /\ mk.recipe[top.target] # "cmd"
  /\ mtime_cache' = Remembering(Decision.reads)
  /\ Pop("reused", Range(top.siblings))
  /\ UNCHANGED <<given, disk, clock, circular_dropped, intermediate_built,
                 goals, errors, log, outcome>>

(* The recipe succeeds.  Only single targets are noted as intermediate. *)
RunRecipe ==
  LET t == top.target
  IN  /\ Deciding /\ Decision.stale /\ mk.recipe[t] = "cmd"
      /\ disk' = Touching(mk.writes[t]) /\ clock' = Now
      /\ mtime_cache' = Evicting(Remembering(Decision.reads), t)
      /\ Pop("rebuilt", Range(top.siblings))
      /\ intermediate_built' = IF top.phase = "single" /\ t \in mk.intermediate
                               THEN intermediate_built \cup {t} ELSE intermediate_built
      /\ Logged(t, TRUE)
      /\ UNCHANGED <<given, circular_dropped, goals, errors, outcome>>

(* It fails, having written all of its files or none; .DELETE_ON_ERROR     *)
(* removes the target.                                                     *)
RecipeFails ==
  LET t == top.target
      left(d) == IF mk.delete_on_error /\ t \notin mk.phony THEN [d EXCEPT ![t] = 0] ELSE d
  IN  /\ Deciding /\ Decision.stale /\ mk.recipe[t] = "cmd" /\ t \in mk.may_fail
      /\ \E written \in {{}, mk.writes[t]} : disk' = left(Touching(written))
      /\ clock' = Now
      /\ mtime_cache' = Remembering(Decision.reads)
      /\ Pop("error", Range(top.siblings))
      /\ Logged(t, FALSE)
      /\ UNCHANGED <<given, circular_dropped, intermediate_built, goals, errors, outcome>>
-----------------------------------------------------------------------------
(* The loop over the goals.                                                *)

(* A fault: nothing is deleted when the build fails. *)
EndLeaving(result) ==
  LET to_delete == IF result = "error" THEN {}
                   ELSE intermediate_built \ (Range(mk.goals) \cup mk.phony)
  IN  /\ disk' = [f \in Files |-> IF f \in to_delete THEN 0 ELSE disk[f]]
      /\ intermediate_built' = intermediate_built \ to_delete
      /\ outcome' = result /\ pc' = "end" /\ ret' = "none"
      /\ UNCHANGED <<given, clock, mtime_cache, built, failed_targets,
                     circular_dropped, stack, log>>

(* delete_intermediate_files, and the return of build_targets_sequential. *)
End(result) ==
  LET to_delete == intermediate_built \ (Range(mk.goals) \cup mk.phony)
  IN  /\ disk' = [f \in Files |-> IF f \in to_delete THEN 0 ELSE disk[f]]
      /\ intermediate_built' = intermediate_built \ to_delete
      /\ outcome' = result /\ pc' = "end" /\ ret' = "none"
      /\ UNCHANGED <<given, clock, mtime_cache, built, failed_targets,
                     circular_dropped, stack, log>>

(* A fault: the goal is asked for again. *)
SameGoal ==
  /\ pc = "return" /\ stack = <<>> /\ (ret = "error" => keep_going)
  /\ errors' = (errors \/ ret = "error") /\ pc' = "call" /\ ret' = "none"
  /\ UNCHANGED <<given, files, memo, goals, stack, log, outcome>>

NextGoal ==
  /\ pc = "return" /\ stack = <<>> /\ (ret = "error" => keep_going)
  /\ goals' = Tail(goals) /\ errors' = (errors \/ ret = "error")
  /\ pc' = "call" /\ ret' = "none"
  /\ UNCHANGED <<given, files, memo, stack, log, outcome>>

GoalFails ==
  /\ pc = "return" /\ stack = <<>> /\ ret = "error" /\ ~keep_going
  /\ End("error")
  /\ UNCHANGED <<goals, errors>>

Finish ==
  /\ pc = "call" /\ stack = <<>> /\ goals = <<>>
  /\ End(IF errors THEN "error" ELSE "ok")
  /\ UNCHANGED <<goals, errors>>
-----------------------------------------------------------------------------
Init ==
  /\ mk \in Makefiles /\ keep_going \in BOOLEAN /\ always_make \in BOOLEAN
  /\ first_disk \in [Files -> InitialTimes]
  /\ disk = first_disk
  /\ clock = Start
  /\ mtime_cache = [f \in Files |-> Unread]
  /\ built = [f \in Files |-> NotBuilt]
  /\ failed_targets = {} /\ circular_dropped = {} /\ intermediate_built = {}
  /\ stack = <<>> /\ goals = mk.goals /\ errors = FALSE
  /\ pc = "call" /\ ret = "none" /\ log = <<>> /\ outcome = "none"

BuildTarget(t) ==
  \/ Memoized(t) \/ DropCycle(t) \/ Leaf(t)
  \/ EnterFresh(t) \/ EnterSingle(t) \/ EnterGroup(t)

Next ==
  \/ \E t \in Files : BuildTarget(t)
  \/ Resume \/ Abandon \/ NextList \/ FinishFresh \/ FailPrereqs \/ NoRecipe
  \/ BuildSiblings \/ Skip \/ RunEmpty \/ RunRecipe \/ RecipeFails
  \/ NextGoal \/ GoalFails \/ Finish

Spec == Init /\ [][Next]_vars

(* The walk is one thread, and the recipes it waits for end. *)
FairSpec == Spec /\ WF_vars(Next)
-----------------------------------------------------------------------------
(* What the walk promises.                                                 *)

(* Each call on the stack is the one its caller is waiting for, no target  *)
(* is under way twice, and one under way has neither failed nor, unless a  *)
(* cycle was cut at it, an entry in built (X2 of exec/mod.rs).             *)
RequestChain ==
  /\ \A i, j \in DOMAIN stack : stack[i].target = stack[j].target => i = j
  /\ \A i \in DOMAIN stack : i + 1 \in DOMAIN stack =>
       /\ stack[i].agenda # <<>>
       /\ Head(stack[i].agenda).file = stack[i + 1].target
  /\ \A t \in building : /\ t \notin failed_targets
                         /\ built[t] # NotBuilt => t \in circular_dropped

(* However often and from wherever a target is asked for, its recipe runs  *)
(* at most once.                                                           *)
RunsOnce ==
  \A i, j \in DOMAIN log : log[i].target = log[j].target => i = j

(* What making t asks for: what it and its siblings need.                  *)
GroupNeeds(t) ==
  UNION {Range(mk.prereqs[s]) \cup Range(mk.order_only[s]) : s \in {t} \cup mk.siblings[t]}

(* All that making t may lead to. *)
Beneath(t) ==
  {f \in Files : \A D \in SUBSET Files :
     /\ GroupNeeds(t) \subseteq D
     /\ \A d \in D : GroupNeeds(d) \subseteq D
     => f \in D}

(* The targets of a grouped rule share one run of its recipe, whichever of *)
(* them is asked for first and whether or not it succeeds, unless one of   *)
(* them is made on the way to the other.                                   *)
GroupRunsOnce ==
  \A i, j \in DOMAIN log :
    LET t == log[i].target
        s == log[j].target
    IN  i < j /\ s \in mk.siblings[t] => s \in Beneath(t) \/ t \in Beneath(s)

(* A recipe runs only after those of all its target needs, order-only      *)
(* prerequisites included, unless a cycle was cut there (X4).              *)
DepthFirst ==
  \A i, j \in DOMAIN log :
    i < j => \/ log[j].target \notin Range(mk.prereqs[log[i].target])
                                       \cup Range(mk.order_only[log[i].target])
             \/ log[j].target \in circular_dropped

(* A recipe does not run if a prerequisite of its target fails, before or  *)
(* after; targets where a cycle was cut and grouped targets are marked     *)
(* built whatever becomes of them.                                         *)
NoneBuiltOnFailure ==
  \A i \in DOMAIN log : \A p \in Range(mk.prereqs[log[i].target]) :
    p \in failed_targets => p \in circular_dropped \/ mk.siblings[p] # {}

(* Recipes that write their target and nothing else. *)
OwnOutput == \A f \in Files : mk.writes[f] \subseteq {f}

(* The remembered times are those on disk, but for targets that failed and *)
(* for recipes that write other files (X1).                                *)
CacheFresh ==
  OwnOutput => \A f \in Files \ failed_targets :
                 outcome = "none" => mtime_cache[f] \in {Unread, disk[f]}

(* The files the goals reach along the edges of E.                         *)
Reached(E(_)) ==
  {f \in Files : \A D \in SUBSET Files :
     /\ Range(mk.goals) \subseteq D
     /\ \A d \in D : E(d) \subseteq D
     => f \in D}

Below == LET E(f) == Range(mk.prereqs[f]) IN Reached(E)

(* On disk d, t is there and none of its prerequisites is newer or, for    *)
(* the intermediate ones that are not there, made of anything newer.       *)
NotOlder(d, t) ==
  LET old(p) == d[p] <= d[t]
  IN  /\ d[t] > 0
      /\ \A p \in Range(mk.prereqs[t]) :
           p \in mk.phony \/ /\ old(p)
                             /\ d[p] = 0 => \A q \in Range(mk.prereqs[p]) : old(q)

(* A file without which what needs it cannot be up to date. *)
Required(d, p) == d[p] > 0 \/ p \in mk.intermediate

(* Recipes that do write their target, if it is a file. *)
SelfMaking ==
  \A t \in Files : mk.recipe[t] = "cmd" /\ t \notin mk.phony => t \in mk.writes[t]

(* Below a file that is there, the files it needs and the files they need  *)
(* are there: of a missing file the pre-check sees only that it is not     *)
(* there, and only at the first level.                                     *)
NoHoles ==
  \A d \in mk.ruled : first_disk[d] > 0 =>
    \A p \in Range(mk.prereqs[d]) :
      /\ p \in mk.intermediate => first_disk[p] > 0
      /\ first_disk[p] > 0 =>
           \A q \in Range(mk.prereqs[p]) : first_disk[q] > 0 \/ q \in mk.phony

(* No phony target is there as a file: the tests would judge it by its     *)
(* date, though it is made again whenever it is visited.                   *)
NoPhonyFiles == \A f \in mk.phony : first_disk[f] = 0

(* No grouped targets: a failed prerequisite of a sibling is ignored.      *)
Ungrouped == \A f \in Files : mk.siblings[f] = {}

(* No chain of prerequisites is longer than effective_mtime looks down.    *)
Shallow ==
  \E rank \in [Files -> 0 .. MaxDepth + 1] :
    \A f \in Files : \A p \in Range(mk.prereqs[f]) : rank[p] < rank[f]

(* The builds that promise files up to date. *)
Plain == OwnOutput /\ SelfMaking /\ NoHoles /\ NoPhonyFiles /\ Ungrouped /\ Shallow

(* After such a build returns success, having cut no cycle, every target   *)
(* the goals need that has a recipe is a file not older than its           *)
(* prerequisites, though the walk did not visit those it found fresh, and  *)
(* decided on remembered times.                                            *)
UpToDateAtEnd ==
  outcome = "ok" /\ Plain /\ circular_dropped = {}
    => \A t \in Below \ (mk.phony \cup mk.intermediate) :
         mk.recipe[t] = "cmd" => NotOlder(disk, t)

(* On disk d, the files by which t is judged: those it needs, and what the *)
(* ones that are not there are made of.                                    *)
Behind(d, t) ==
  {f \in Files : \A D \in SUBSET Files :
     /\ Range(mk.prereqs[t]) \subseteq D
     /\ \A p \in D : d[p] = 0 => Range(mk.prereqs[p]) \subseteq D
     => f \in D}

UpToDate(d, t) == d[t] > 0 /\ \A f \in Behind(d, t) : d[f] <= d[t]

(* What the goals lead to, and what of it is called for whatever its state:*)
(* the goals, order-only prerequisites, and what grouped targets need.     *)
Related(f) == Range(mk.prereqs[f]) \cup Range(mk.order_only[f]) \cup mk.siblings[f]

CalledFor ==
  LET grouped == {f \in Files : mk.siblings[f] # {}}
  IN  Range(mk.goals) \cup (UNION {Range(mk.order_only[f]) : f \in Files})
        \cup (UNION {Range(mk.prereqs[f]) \cup mk.siblings[f] : f \in grouped})

NothingToDo ==
  /\ ~always_make
  /\ \A t \in Reached(Related) :
       /\ t \notin mk.phony /\ Required(first_disk, t)
       /\ first_disk[t] > 0 \/ t \in CalledFor => UpToDate(first_disk, t)

(* When all that the goals lead to is up to date no recipe runs, and in    *)
(* particular a deleted intermediate file, which only normal prerequisites *)
(* may be, is not made again.                                              *)
NullBuild == NothingToDo => log = <<>>

(* The intermediate files the build made are gone when it ends, even if it *)
(* fails; those made by grouped rules are not noted.                       *)
IntermediatesRemoved ==
  outcome # "none" =>
    \A i \in DOMAIN log :
      LET t == log[i].target
      IN  /\ log[i].ok /\ mk.siblings[t] = {}
          /\ t \in mk.intermediate \ (Range(mk.goals) \cup mk.phony)
          => disk[t] = 0

(* The walk comes to an end: cycles are cut, and no target is entered      *)
(* twice.                                                                  *)
Terminates == <>(pc = "end")
=============================================================================
