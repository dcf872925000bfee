------------------------ MODULE MCParallelScheduler ------------------------
(***************************************************************************)
(* Small makefiles for the model checker.                                  *)
(***************************************************************************)
EXTENDS ScheduledBuild

CONSTANTS all, a, b, c, d, src   \* src is a file without a plan

MCTargets == {all, a, b, c, d, src}

(* Plans.  What graph resolution records for a target with a recipe to     *)
(* run, for one that is up to date or has no recipe, and for the node that *)
(* only collects (the last node of a chain of double-colon rules).         *)
Make(deps) ==
  [prerequisites |-> deps, order_only |-> {}, wait_groups |-> <<>>,
   recipe |-> TRUE, needs_rebuild |-> TRUE,
   is_intermediate |-> FALSE, intermediate_also_make |-> {}]
Keep(deps) == [Make(deps) EXCEPT !.recipe = FALSE, !.needs_rebuild = FALSE]
Collect(deps) == [Make(deps) EXCEPT !.recipe = FALSE]
OrderOnly(p, deps) == [p EXCEPT !.order_only = deps]
Intermediate(p, sibs) ==
  [p EXCEPT !.is_intermediate = TRUE, !.intermediate_also_make = sibs]
InGroups(p, groups) ==
  [p EXCEPT !.wait_groups = groups, !.prerequisites = UNION Range(groups)]

Goal(P) == [plans |-> P, roots |-> {all}]

(* Every acyclic makefile over all, a and b in which each target is of any *)
(* of the three kinds.                                                     *)
Kinds(deps) == {Make(deps), Keep(deps), Collect(deps)}
ThreeTargets ==
  { Goal(all :> p @@ a :> q @@ b :> r) :
      p \in UNION {Kinds(D) : D \in SUBSET {a, b}},
      q \in UNION {Kinds(D) : D \in SUBSET {b}}, r \in Kinds({src}) }

(* Diamonds, chains of up-to-date targets, intermediate files. *)
Shapes ==
  { Goal(all :> Make({a, b}) @@ a :> Make({c}) @@ b :> Make({c, d})
           @@ c :> Make({src}) @@ d :> Make({})),
    Goal(all :> Make({a, d}) @@ a :> Keep({b}) @@ b :> Keep({c})
           @@ c :> Make({}) @@ d :> OrderOnly(Keep({}), {c})),
    Goal(all :> Keep({a, b}) @@ a :> Make({c}) @@ b :> Make({d})
           @@ c :> Intermediate(Make({}), {}) @@ d :> Intermediate(Make({}), {src})),
    Goal(all :> Make({b, c}) @@ b :> Make({a}) @@ c :> Make({b, d})
           @@ a :> Make({}) @@ d :> Make({})) }

(* .WAIT, with the barrier graph acyclic. *)
WaitShapes ==
  { Goal(all :> InGroups(Make({}), <<{a, b}, {c}>>)
           @@ a :> Make({}) @@ b :> Make({src}) @@ c :> Make({d}) @@ d :> Make({})),
    Goal(all :> InGroups(Keep({}), <<{a}, {b}, {c}>>)
           @@ a :> Make({}) @@ b :> Make({}) @@ c :> Make({}) @@ d :> Make({b})),
    [plans |-> all :> InGroups(Keep({}), <<{a}, {b}, {c}>>)
           @@ a :> Make({}) @@ b :> Make({}) @@ c :> Make({}) @@ d :> Make({b}),
     roots |-> {all, d}],
    Goal(all :> InGroups(Keep({}), <<{}, {a}, {src}, {b}>>)
           @@ a :> Make({}) @@ b :> InGroups(Make({}), <<{c}, {d}>>)
           @@ c :> Make({}) @@ d :> Keep({})) }

MCMakefiles == ThreeTargets \cup Shapes \cup WaitShapes

(* -k: b does not depend on a, which may fail. *)
IndependentMakefiles == { Goal(all :> Make({a, b}) @@ a :> Make({}) @@ b :> Make({c})
                                 @@ c :> Make({})) }

(* all: a .WAIT b with a: | b, and all: a .WAIT b with b: a .WAIT c.       *)
WaitCycleMakefiles ==
  { Goal(all :> InGroups(Make({}), <<{a}, {b}>>)
           @@ a :> OrderOnly(Make({}), {b}) @@ b :> Make({c}) @@ c :> Make({d})
           @@ d :> Make({})),
    Goal(all :> InGroups(Make({}), <<{a}, {b}>>)
           @@ a :> Make({}) @@ b :> InGroups(Make({}), <<{a}, {c}>>)
           @@ c :> Make({}) @@ d :> Make({})) }
=============================================================================
