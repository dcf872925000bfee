---------------------------- MODULE MCBuildWalk ----------------------------
(***************************************************************************)
(* Small makefiles for the model checker.                                  *)
(***************************************************************************)
EXTENDS BuildWalk, TLC

CONSTANTS all, a, b, src    \* src has no rule

MCFiles == {all, a, b, src}

(* A makefile from the rules of its ruled files. *)
Nothing == [prereqs |-> <<>>, order_only |-> <<>>, recipe |-> "none", siblings |-> {}]
Make(deps) == [Nothing EXCEPT !.prereqs = deps, !.recipe = "cmd"]
OrderOnly(rule, deps) == [rule EXCEPT !.order_only = deps]
Recipe(rule, r) == [rule EXCEPT !.recipe = r]

Makefile(rules) ==
  LET rule(f) == IF f \in DOMAIN rules THEN rules[f] ELSE Nothing
  IN  [ruled |-> DOMAIN rules,
       prereqs |-> [f \in Files |-> rule(f).prereqs],
       order_only |-> [f \in Files |-> rule(f).order_only],
       recipe |-> [f \in Files |-> rule(f).recipe],
       siblings |-> [f \in Files |-> rule(f).siblings],
       phony |-> {}, intermediate |-> {}, may_fail |-> DOMAIN rules,
       writes |-> [f \in Files |-> {f}],
       goals |-> <<all>>, delete_on_error |-> FALSE]

Phony(m, S) == [m EXCEPT !.phony = S, !.writes = [f \in Files |-> m.writes[f] \ S]]
Via(m, S) == [m EXCEPT !.intermediate = S]

(* Every arrangement of all, a and b, with and without recipes. *)
Chains ==
  { Makefile(all :> OrderOnly(Recipe(Make(p), k), o) @@ a :> Recipe(Make(q), r)
               @@ b :> Make(<<src>>)) :
      p \in {<<a>>, <<b, a>>}, k \in {"cmd", "none"}, o \in {<<>>, <<b>>},
      q \in {<<b>>, <<src>>}, r \in {"cmd", "none", "empty"} }

Chain == Makefile(all :> Make(<<a>>) @@ a :> Make(<<b>>) @@ b :> Make(<<src>>))
Fork == Makefile(all :> Make(<<a, b>>) @@ a :> Make(<<b>>) @@ b :> Make(<<src>>))
Gate == Makefile(all :> Make(<<a>>) @@ a :> OrderOnly(Make(<<src>>), <<b>>) @@ b :> Make(<<>>))

(* Phony targets, intermediate files, goals in several orders. *)
Variants ==
  UNION { { Phony(m, {all}), Phony(m, {a}), Phony(m, {b}), Via(m, {a}), Via(m, {b}),
            Via(m, {a, b}), [m EXCEPT !.delete_on_error = TRUE],
            [m EXCEPT !.goals = <<b, all>>] } :
          m \in {Chain, Fork, Gate} }

(* Dependencies that go round. *)
Cycles ==
  { Makefile(all :> Make(p) @@ a :> Make(q) @@ b :> OrderOnly(Make(r), o)) :
      p \in {<<a>>, <<a, b>>}, q \in {<<b>>, <<b, all>>},
      r \in {<<a>>, <<src, b>>}, o \in {<<>>, <<all>>} }

(* a and b made by one recipe. *)
Both(x, y) ==
  LET m == Makefile(all :> Make(y) @@ a :> [Make(<<src>>) EXCEPT !.siblings = {b}]
                      @@ b :> [Make(x) EXCEPT !.siblings = {a}])
  IN  [m EXCEPT !.writes = [f \in Files |-> IF f \in {a, b} THEN {a, b} ELSE {f}]]
Groups ==
  UNION { { Both(x, y), [Both(x, y) EXCEPT !.goals = <<b, all, a>>], Via(Both(x, y), {b}) } :
          x \in {<<src>>, <<>>}, y \in {<<a>>, <<b, a>>} }

(* b is on the way to a, which is made with it. *)
Tangled ==
  [Both(<<>>, <<a>>) EXCEPT !.ruled = Files, !.prereqs[src] = <<b>>, !.recipe[src] = "cmd"]

MCMakefiles == Chains \cup Variants \cup Cycles \cup Groups \cup {Tangled}
=============================================================================
