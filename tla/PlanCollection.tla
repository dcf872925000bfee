--------------------------- MODULE PlanCollection ---------------------------
(***************************************************************************)
(* Graph resolution for `jmake -j N`: collect_plans of exec/mod.rs walks   *)
(* the makefile with the sequential build, told not to run the recipes but *)
(* to record a plan for each target.  Everything here is a function of     *)
(* what is given, g: the makefile, the options, the times of the files,    *)
(* the targets whose recipes fail, and whether plans are collected.  So    *)
(* the same definitions give the sequential build to compare with.         *)
(*                                                                         *)
(* Left out: what Freshness leaves out, grouped targets, .EXTRA_PREREQS.   *)
(* A recipe writes its own target or, if it is phony, nothing, so that a   *)
(* remembered time is always the one on disk.                              *)
(***************************************************************************)
EXTENDS Freshness, PlanGraph, SequencesExt

(* The virtual node "t::i" of a double-colon rule. *)
RuleNode(t, i) == <<"rule", t, i>>

(* What is given.  waits[t] holds the places in prereqs[t] after which a   *)
(* .WAIT stands; rules[t] is the list of t's double-colon rules, whose     *)
(* prerequisites prereqs[t] holds too; the targets of vars set one         *)
(* variable, or append to it, for themselves and what they need.           *)
IsGiven(g) ==
  /\ IsMakefile(g.mk) /\ \A t \in Files : g.mk.siblings[t] = {}
  /\ g.mk.waits \in [Files -> SUBSET Nat] /\ g.mk.not_parallel_targets \subseteq Files
  /\ g.mk.rules \in [Files -> Seq([prereqs : Seq(Files), order_only : Seq(Files),
                                   recipe : {"none", "cmd"}])]
  /\ DOMAIN g.mk.vars \subseteq Files
  /\ \A t \in DOMAIN g.mk.vars : g.mk.vars[t] \in [append : BOOLEAN, is_private : BOOLEAN]
  /\ g.keep_going \in BOOLEAN /\ g.always_make \in BOOLEAN /\ g.collecting \in BOOLEAN
  /\ g.disk \in [Files -> Nat] /\ g.failing \subseteq Files

(* The walk's state: ret is what the last build_target returned, inherited *)
(* the stack of values handed down, log the recipes run or planned.        *)
InitialState(g) ==
  [disk |-> g.disk, clock |-> Latest(Range(g.disk)),
   built |-> [f \in Files |-> "no"], failed_targets |-> {}, building_stack |-> <<>>,
   inherited_vars_stack |-> <<>>, plans |-> <<>>, log |-> <<>>, ret |-> "none"]

Now(s) == s.clock + 1
Returning(s, r) == [s EXCEPT !.ret = r]
-----------------------------------------------------------------------------
(* Plans.                                                                  *)

(* extract_wait_groups: the prerequisites between two .WAIT. *)
ExtractWaitGroups(mk, t) ==
  LET places == <<0>> \o SetToSortSeq(mk.waits[t], <) \o <<Len(mk.prereqs[t])>>
  IN  IF mk.waits[t] = {} THEN <<>>
      ELSE [j \in 1 .. Len(places) - 1 |->
              {mk.prereqs[t][i] : i \in places[j] + 1 .. places[j + 1]}]

(* .NOTPARALLEL with t as a prerequisite: each of t's is its own group. *)
WaitGroups(mk, t) ==
  IF mk.waits[t] = {} /\ t \in mk.not_parallel_targets /\ Len(mk.prereqs[t]) > 1
  THEN [i \in DOMAIN mk.prereqs[t] |-> {mk.prereqs[t][i]}]
  ELSE ExtractWaitGroups(mk, t)

Plan(prerequisites, order_only) ==
  [prerequisites |-> prerequisites, order_only |-> order_only, wait_groups |-> <<>>,
   recipe |-> FALSE, needs_rebuild |-> FALSE,
   is_intermediate |-> FALSE, intermediate_also_make |-> {}]

Inserting(g, s, n, plan) ==
  IF g.collecting THEN [s EXCEPT !.plans = (n :> plan) @@ @] ELSE s

InsertingNew(g, s, n, plan) ==
  IF n \in DOMAIN s.plans THEN s ELSE Inserting(g, s, n, plan)

(* The plan of a target whose prerequisites have been visited. *)
VisitedPlan(mk, t, needs_rebuild) ==
  [Plan(Range(mk.prereqs[t]), Range(mk.order_only[t])) EXCEPT
     !.needs_rebuild = needs_rebuild, !.wait_groups = WaitGroups(mk, t),
     !.is_intermediate = t \in mk.intermediate]
-----------------------------------------------------------------------------
(* Target-specific variables: collect_target_vars, for one variable.  A    *)
(* value is the list of those that have put a word in it.                  *)

HandedDown(s) ==
  IF s.inherited_vars_stack = <<>> THEN <<"global">> ELSE Last(s.inherited_vars_stack)

(* For t's own recipe. *)
TargetVar(g, s, t) ==
  IF t \notin DOMAIN g.mk.vars THEN HandedDown(s)
  ELSE IF g.mk.vars[t].append THEN Append(HandedDown(s), t) ELSE <<t>>

(* A fault: what is private hides what was handed down. *)
HidingVar(g, s, t) ==
  IF t \in DOMAIN g.mk.vars /\ g.mk.vars[t].is_private THEN <<"global">> ELSE TargetVar(g, s, t)

(* For what t needs: past what is private goes what was handed down. *)
ForPrereqs(g, s, t) ==
  IF t \in DOMAIN g.mk.vars /\ g.mk.vars[t].is_private THEN HandedDown(s) ELSE TargetVar(g, s, t)

Pushing(g, s, t) == [s EXCEPT !.inherited_vars_stack = Append(@, ForPrereqs(g, s, t))]
Popping(s) == [s EXCEPT !.inherited_vars_stack = Front(@)]
-----------------------------------------------------------------------------
(* Recipes.                                                                *)

(* What a recipe was run, or planned, with, and on the way to what. *)
LogEntry(g, s, t, n) ==
  [node |-> n, value |-> TargetVar(g, s, t), path |-> s.building_stack]

RunRecipe(g, s, t, n) ==
  IF t \in g.failing
  THEN [s EXCEPT !.log = Append(@, LogEntry(g, s, t, n)), !.ret = "error"]
  ELSE [s EXCEPT !.log = Append(@, LogEntry(g, s, t, n)), !.ret = "rebuilt",
                 !.clock = Now(s),
                 !.disk = [f \in Files |-> IF f \in g.mk.writes[t] THEN Now(s) ELSE @[f]]]

(* A fault: a planned recipe does not count as a remade target. *)
PlanRecipeQuietly(g, s, t) ==
  [s EXCEPT !.plans[t].recipe = TRUE, !.plans[t].needs_rebuild = TRUE,
            !.log = Append(@, LogEntry(g, s, t, t)), !.ret = "reused"]

(* A recipe with nothing to run is planned like any other. *)
PlanRecipe(g, s, t) ==
  [s EXCEPT !.plans[t].recipe = TRUE, !.plans[t].needs_rebuild = TRUE,
            !.log = Append(@, LogEntry(g, s, t, t)), !.ret = "rebuilt"]

ExecuteRecipe(g, s, t) ==
  CASE g.collecting -> PlanRecipe(g, s, t)
    [] ~g.collecting /\ g.mk.recipe[t] = "empty" -> Returning(s, "reused")
    [] ~g.collecting /\ g.mk.recipe[t] = "cmd" -> RunRecipe(g, s, t, t)
-----------------------------------------------------------------------------
(* Prerequisites.                                                          *)

RECURSIVE BuildTarget(_, _, _)

Stopping(g, v) == v.failed /\ ~g.keep_going

(* v with what build_target returned for one more prerequisite. *)
Noting(v, s) ==
  [state |-> s, rebuilt |-> v.rebuilt \/ s.ret = "rebuilt",
   failed |-> v.failed \/ s.ret = "error"]

(* The prerequisites of list one after the other, up to an error that      *)
(* stops the make.                                                         *)
BuildPrereqs(g, s, list) ==
  FoldLeft(LAMBDA v, p : IF Stopping(g, v) THEN v
                         ELSE Noting(v, BuildTarget(g, v.state, p)),
           [state |-> s, rebuilt |-> FALSE, failed |-> FALSE], list)

(* Order-only prerequisites: errors are ignored. *)
BuildOrderOnly(g, s, list) == FoldLeft(LAMBDA u, p : BuildTarget(g, u, p), s, list)

(* A fault: the early return leaves t's variables on the stack. *)
LeavingVars(g, v, order_only) ==
  IF Stopping(g, v) THEN v
  ELSE [v EXCEPT !.state = Popping(BuildOrderOnly(g, @, order_only))]

(* The order-only prerequisites come after the others, unless there was an *)
(* error to stop at; t's variables are taken off the stack either way.     *)
ThenOrderOnly(g, v, order_only) ==
  IF Stopping(g, v) THEN [v EXCEPT !.state = Popping(@)]
  ELSE [v EXCEPT !.state = Popping(BuildOrderOnly(g, @, order_only))]

BuildNeeds(g, s, t, prereqs, order_only) ==
  ThenOrderOnly(g, BuildPrereqs(g, Pushing(g, s, t), prereqs), order_only)
-----------------------------------------------------------------------------
(* build_with_rules, single-colon.                                         *)

(* The order-only prerequisites of the deleted intermediate files that the *)
(* pre-check passed over. *)
OrderOnlyOfSkipped(mk, view, t) ==
  FlattenSeq([i \in DOMAIN mk.prereqs[t] |->
    IF Skippable(mk, view, mk.prereqs[t][i]) THEN mk.order_only[mk.prereqs[t][i]] ELSE <<>>])

(* A fault: a target found fresh needs no plan. *)
UnplannedFresh(g, s, t, order_only) ==
  Returning(BuildOrderOnly(g, s, order_only), "reused")

(* The pre-check passed t: its order-only prerequisites are built, and a   *)
(* plan makes those who depend on t wait for what t lists.                 *)
FoundFresh(g, s, t, order_only) ==
  LET done == BuildOrderOnly(g, s, order_only)
      plan == [Plan(Range(g.mk.prereqs[t]), Range(order_only)) EXCEPT
                 !.wait_groups = WaitGroups(g.mk, t)]
  IN  Returning(IF g.mk.prereqs[t] = <<>> /\ order_only = <<>> THEN done
                ELSE InsertingNew(g, done, t, plan), "reused")

(* needs_rebuild has answered stale: t gets its plan, and its recipe if    *)
(* it is to be remade.                                                     *)
Deciding(g, v, t, stale) ==
  LET planned == Inserting(g, v.state, t, VisitedPlan(g.mk, t, stale))
  IN  IF stale THEN ExecuteRecipe(g, planned, t) ELSE Returning(planned, "reused")

Stale(g, s, t, prereqs, any_prereq_rebuilt) ==
  \/ g.always_make \/ t \in g.mk.phony
  \/ NeedsRebuild([g.mk EXCEPT !.prereqs[t] = prereqs], s.disk, Now(s), s.built, t,
                  any_prereq_rebuilt).stale

(* The prerequisites of t have been built, with result v. *)
AfterNeeds(g, v, t) ==
  IF v.failed THEN Returning(v.state, "error")
  ELSE IF g.mk.recipe[t] = "none"
  THEN Returning(Inserting(g, v.state, t, VisitedPlan(g.mk, t, FALSE)),
                 IF v.rebuilt THEN "rebuilt" ELSE "reused")
  ELSE Deciding(g, v, t, Stale(g, v.state, t, g.mk.prereqs[t], v.rebuilt))

BuildWithRules(g, s, t) ==
  IF ~g.always_make /\ PreCheck(g.mk, s.disk, Now(s), t).fresh
  THEN FoundFresh(g, s, t, OrderOnlyOfSkipped(g.mk, s.disk, t) \o g.mk.order_only[t])
  ELSE AfterNeeds(g, BuildNeeds(g, s, t, g.mk.prereqs[t], g.mk.order_only[t]), t)
-----------------------------------------------------------------------------
(* build_with_double_colon_rules.  f is the family's state: how far it     *)
(* has come, the last virtual node, whether it has returned an error.      *)

(* The plans of the prerequisites of a later rule wait for the earlier     *)
(* rule's node too.                                                        *)
HeldBackBy(plans, last, prereqs) ==
  [n \in DOMAIN plans |->
     IF n \in Range(prereqs) THEN [plans[n] EXCEPT !.prerequisites = @ \cup last]
     ELSE plans[n]]

(* A fault: the plans of all rules have the target's name. *)
PlanUnderOneName(g, f, t, i) ==
  LET rule == g.mk.rules[t][i]
      s    == f.state
  IN  [f EXCEPT
         !.state = [s EXCEPT
           !.plans = (RuleNode(t, 1) :> [Plan(Range(rule.prereqs), Range(rule.order_only))
                       EXCEPT !.recipe = TRUE, !.needs_rebuild = TRUE]) @@ s.plans,
           !.log = Append(@, LogEntry(g, s, t, RuleNode(t, 1)))],
         !.last = {RuleNode(t, 1)}, !.rebuilt = TRUE]

(* Each rule to run gets a virtual node, after the one before it. *)
PlanRule(g, f, t, i) ==
  LET rule == g.mk.rules[t][i]
      s    == f.state
      plan == [Plan(Range(rule.prereqs) \cup f.last, Range(rule.order_only)) EXCEPT
                 !.recipe = TRUE, !.needs_rebuild = TRUE,
                 !.is_intermediate = t \in g.mk.intermediate]
  IN  [f EXCEPT
         !.state = [s EXCEPT
           !.plans = (RuleNode(t, i) :> plan) @@ HeldBackBy(s.plans, f.last, rule.prereqs),
           !.log = Append(@, LogEntry(g, s, t, RuleNode(t, i)))],
         !.last = {RuleNode(t, i)}, !.rebuilt = TRUE]

(* Run by the sequential build; with -k a failure is passed over. *)
NotingRun(g, f, s) ==
  [f EXCEPT !.state = s, !.rebuilt = @ \/ s.ret = "rebuilt",
            !.failed = s.ret = "error" /\ ~g.keep_going]

(* t did not exist when the family was begun, or the rule has nothing to   *)
(* compare it with, or it is older than the rule's own prerequisites.      *)
RuleStale(g, f, t, rule, v) ==
  rule.prereqs = <<>> \/ f.missing \/ Stale(g, v.state, t, rule.prereqs, v.rebuilt)

(* The prerequisites of the i-th rule have been built, with result v. *)
AfterRuleNeeds(g, f, t, i, v) ==
  LET rule  == g.mk.rules[t][i]
      built == [f EXCEPT !.state = v.state]
  IN  IF v.failed THEN [built EXCEPT !.failed = TRUE]
      ELSE IF rule.recipe = "none" \/ ~RuleStale(g, f, t, rule, v) THEN built
      ELSE IF g.collecting THEN PlanRule(g, built, t, i)
      ELSE NotingRun(g, built, RunRecipe(g, v.state, t, RuleNode(t, i)))

BuildRule(g, f, t, i) ==
  IF f.failed THEN f
  ELSE AfterRuleNeeds(g, f, t, i, BuildNeeds(g, f.state, t, g.mk.rules[t][i].prereqs,
                                             g.mk.rules[t][i].order_only))

(* A fault: the target itself gets no plan. *)
UnmarkedFamily(g, f, t) ==
  Returning(f.state, IF f.failed THEN "error"
                     ELSE IF f.rebuilt THEN "rebuilt" ELSE "reused")

(* The target itself is the node that completes when the last rule has. *)
FinishFamily(g, f, t) ==
  LET marker == [Plan(f.last, {}) EXCEPT !.needs_rebuild = f.last # {},
                   !.is_intermediate = t \in g.mk.intermediate]
  IN  IF f.failed THEN Returning(f.state, "error")
      ELSE Returning(IF f.last # {} THEN Inserting(g, f.state, t, marker)
                                    ELSE InsertingNew(g, f.state, t, marker),
                     IF f.rebuilt THEN "rebuilt" ELSE "reused")

BuildWithDoubleColonRules(g, s, t) ==
  FinishFamily(g, FoldLeft(LAMBDA f, i : BuildRule(g, f, t, i),
                           [state |-> s, missing |-> s.disk[t] = 0, rebuilt |-> FALSE,
                            failed |-> FALSE, last |-> {}],
                           [i \in DOMAIN g.mk.rules[t] |-> i]), t)
-----------------------------------------------------------------------------
(* build_target.                                                           *)

(* No rule: a plan only for what is there. *)
Leaf(g, s, t) ==
  IF s.disk[t] > 0 \/ t \in g.mk.phony
  THEN Returning(InsertingNew(g, s, t, Plan({}, {})), "reused")
  ELSE Returning(s, "error")

BuildTargetInner(g, s, t) ==
  IF t \notin g.mk.ruled THEN Leaf(g, s, t)
  ELSE IF g.mk.rules[t] # <<>> THEN BuildWithDoubleColonRules(g, s, t)
  ELSE BuildWithRules(g, s, t)

(* build_target_inner has returned. *)
Recording(s, t) ==
  [s EXCEPT !.building_stack = Front(@),
            !.built[t] = IF s.ret = "error" THEN @ ELSE s.ret,
            !.failed_targets = @ \cup (IF s.ret = "error" THEN {t} ELSE {})]

BuildTarget(g, s, t) ==
  IF s.built[t] # "no" THEN Returning(s, s.built[t])
  ELSE IF t \in s.failed_targets THEN Returning(s, "error")
  ELSE IF t \in Range(s.building_stack)
  THEN Returning([s EXCEPT !.built[t] = "reused"], "reused")
  ELSE Recording(BuildTargetInner(g, [s EXCEPT !.building_stack = Append(@, t)], t), t)

(* build_targets_sequential: whether there was an error is what matters. *)
BuildTargetsSequential(g) == BuildPrereqs(g, InitialState(g), g.mk.goals)

(* collect_plans. *)
Collected(g) ==
  LET v == BuildTargetsSequential([g EXCEPT !.collecting = TRUE])
  IN  [plans |-> v.state.plans, log |-> v.state.log, built |-> v.state.built,
       inherited_vars_stack |-> v.state.inherited_vars_stack,
       failed |-> v.failed]
=============================================================================
