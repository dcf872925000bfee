-------------------------- MODULE MCParallelBuild --------------------------
(***************************************************************************)
(* Small makefiles for the model checker.                                  *)
(***************************************************************************)
EXTENDS ParallelBuild

CONSTANTS all, a, b, c, src    \* src has no rule

MCFiles == {all, a, b, c, src}
MCTargets == MCFiles \cup {RuleNode(t, i) : t \in {all, a}, i \in {1, 2}}

Nothing == [prereqs |-> <<>>, order_only |-> <<>>, recipe |-> "none"]
Make(deps) == [Nothing EXCEPT !.prereqs = deps, !.recipe = "cmd"]
Pass(deps) == [Nothing EXCEPT !.prereqs = deps]
OrderOnly(rule, deps) == [rule EXCEPT !.order_only = deps]

Makefile(rules) ==
  LET rule(f) == IF f \in DOMAIN rules THEN rules[f] ELSE Nothing
  IN  [ruled |-> DOMAIN rules,
       prereqs |-> [f \in Files |-> rule(f).prereqs],
       order_only |-> [f \in Files |-> rule(f).order_only],
       recipe |-> [f \in Files |-> rule(f).recipe],
       siblings |-> [f \in Files |-> {}], phony |-> {}, intermediate |-> {},
       may_fail |-> {}, writes |-> [f \in Files |-> {f}], goals |-> <<all>>,
       delete_on_error |-> FALSE, waits |-> [f \in Files |-> {}],
       not_parallel_targets |-> {}, rules |-> [f \in Files |-> <<>>], vars |-> <<>>]

Phony(m, S) == [m EXCEPT !.phony = S, !.writes = [f \in Files |-> {f} \ S]]
DoubleColon(m, t, list) ==
  [m EXCEPT !.ruled = @ \cup {t}, !.rules[t] = list,
            !.prereqs[t] = FlattenSeq([i \in DOMAIN list |-> list[i].prereqs]),
            !.order_only[t] = FlattenSeq([i \in DOMAIN list |-> list[i].order_only])]

(* Ordinary rules. *)
Plain ==
  { Makefile(all :> OrderOnly(x, o) @@ a :> OrderOnly(y, q) @@ b :> z @@ c :> Make(<<src>>)) :
      x \in {Make(<<a, b>>), Pass(<<b, a>>)}, o \in {<<>>, <<c>>},
      y \in {Make(<<c>>), Pass(<<c>>), Make(<<src>>)}, q \in {<<>>, <<c>>},
      z \in {Make(<<a>>), Make(<<c>>)} }

Fork == Makefile(all :> Make(<<a, b>>) @@ a :> Make(<<c>>) @@ b :> Make(<<c>>) @@ c :> Make(<<src>>))
Special ==
  { Phony(Fork, {all}), Phony(Fork, {a}), Phony(Fork, {c}),
    [Fork EXCEPT !.intermediate = {a}], [Fork EXCEPT !.intermediate = {c}],
    [Fork EXCEPT !.intermediate = {a}, !.order_only[a] = <<b>>, !.prereqs[all] = <<a>>],
    [Fork EXCEPT !.waits[all] = {1}], [Fork EXCEPT !.not_parallel_targets = {all}],
    [Fork EXCEPT !.goals = <<c, all>>],
    Makefile(all :> OrderOnly(Make(<<a>>), <<b>>) @@ a :> Make(<<c>>) @@ b :> Make(<<>>)),
    Makefile(all :> Make(<<a, b>>) @@ a :> Make(<<c>>) @@ b :> Make(<<src>>)) }

Families ==
  { DoubleColon(Makefile(all :> Make(<<a, c>>) @@ b :> Make(<<src>>) @@ c :> Make(<<a>>)), a, list) :
      list \in { <<Make(<<src>>), Make(<<b>>)>>, <<Make(<<b>>), Make(<<>>)>>, <<Make(<<>>), Make(<<b>>)>>,
                 <<Pass(<<b>>), Make(<<src>>)>>, <<Make(<<b, src>>)>> } }

(* A variable that some targets set. *)
Sets == [append |-> FALSE, is_private |-> FALSE]
Appends == [Sets EXCEPT !.append = TRUE]
Private(var) == [var EXCEPT !.is_private = TRUE]
Variables ==
  { [Makefile(all :> Make(<<b, a>>) @@ a :> OrderOnly(Make(<<src>>), <<c>>)
        @@ b :> Make(<<x>>) @@ c :> Make(<<>>)) EXCEPT !.vars = vs] : x \in {src, c},
      vs \in { all :> Sets, all :> Sets @@ c :> Appends, a :> Sets @@ b :> Appends,
               all :> Sets @@ b :> Private(Appends), all :> Appends @@ b :> Private(Sets) } }

(* c has no rule. *)
Incomplete ==
  { Makefile(all :> Make(<<a, b>>) @@ a :> Make(<<c>>) @@ b :> Make(<<src>>)),
    [Makefile(all :> OrderOnly(Make(<<>>), <<b, a>>) @@ a :> Make(<<src>>) @@ b :> Make(<<c, src>>))
       EXCEPT !.vars = b :> Sets] }

(* c may be as old as src, or newer than what is made from it. *)
Times == { [f \in Files |-> CASE f = all -> i [] f = a -> j [] f = b -> k [] f = c -> l
                              [] f = src -> 1] : i \in {0, 3}, j, k \in {0, 2}, l \in {0, 1, 4} }

Way == [keep_going |-> FALSE, always_make |-> FALSE, failing |-> {}]
Ways == {Way, [Way EXCEPT !.always_make = TRUE], [Way EXCEPT !.failing = {b}],
         [Way EXCEPT !.failing = {b}, !.keep_going = TRUE]}
GivenOf(m) ==
  { [mk |-> m, keep_going |-> w.keep_going, always_make |-> w.always_make,
     collecting |-> FALSE, failing |-> w.failing, disk |-> times] : w \in Ways, times \in Times }

MCGiven == UNION {GivenOf(m) : m \in Plain \cup Special \cup Families \cup Variables
                                          \cup Incomplete}
=============================================================================
