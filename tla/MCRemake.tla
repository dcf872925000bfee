------------------------------ MODULE MCRemake ------------------------------
(***************************************************************************)
(* Small sets of makefiles for the model checker.                          *)
(***************************************************************************)
EXTENDS Remake, TLC

MCFiles == {"Makefile", "a", "b", "src"}

Rule(kind, recipe, prereqs) ==
  [kind |-> kind, explicit |-> TRUE, recipe |-> recipe, prereqs |-> prereqs, siblings |-> {}]
Make(prereqs) == Rule("rule", TRUE, prereqs)
Collect(prereqs) == Rule("rule", FALSE, prereqs)
Imagined == Rule("imagined", FALSE, <<>>)
Skipped == Rule("skip", TRUE, <<>>)
Implicit(prereqs, siblings) ==
  [Make(prereqs) EXCEPT !.explicit = FALSE, !.siblings = siblings]

Need(f) == Include(f, FALSE)
May(f) == Include(f, TRUE)

(* Makefile includes and has the rules. *)
Text(included, rules) ==
  [includes |-> [f \in Files |-> IF f = "Makefile" THEN included ELSE <<>>],
   rules |-> [f \in Files |-> IF f \in DOMAIN rules THEN rules[f] ELSE NoRule],
   by |-> [f \in Files |-> "Makefile"],
   phony |-> {}, what_if |-> {}, unreadable |-> {}, eager |-> {}, may_fail |-> {"a"},
   jobs |-> 1, named |-> FALSE, no_exec |-> FALSE]

At(m, times) == [mk |-> m, files |-> [f \in Files |-> IF f = "Makefile" THEN 1 ELSE times[f]]]
Times == [{"a", "b", "src"} -> 0..2]
Few == {t \in Times : t["src"] # 1 \/ t["a"] # 2}

(* Rules of every kind for two included files. *)
Pairs ==
  { At([Text(i, "a" :> x @@ "b" :> y) EXCEPT !.jobs = j], t) :
      i \in {<<Need("a"), Need("b")>>, <<May("b"), May("a")>>, <<May("a"), Need("a")>>},
      x \in {Make(<<"b">>), Make(<<"b", "src">>), Collect(<<"b">>), NoRule, Implicit(<<"src">>, {})},
      y \in {Make(<<"src">>), Imagined, Skipped, Make(<<>>)},
      j \in {1, 2}, t \in Few }

(* A pattern rule that makes both. *)
Peers ==
  { At([Text(i, "a" :> Implicit(p, {"b"}) @@ "b" :> Implicit(p, {"a"})) EXCEPT !.jobs = j], t) :
      i \in {<<Need("a"), Need("b")>>, <<May("b"), Need("a"), Need("b")>>},
      p \in {<<>>, <<"src">>}, j \in {1, 2}, t \in Few }

(* b needs a. *)
Turned ==
  { At([Text(i, "a" :> x @@ "b" :> Make(<<"a">>)) EXCEPT !.jobs = j, !.may_fail = {"b"}], t) :
      i \in {<<Need("a"), Need("b")>>, <<May("b"), May("a")>>},
      x \in {Make(<<"src">>), NoRule}, j \in {1, 2}, t \in Few }

(* Makefile itself is made; a includes b, and has its rule. *)
Nested ==
  { At([Text(<<Need("a")>>, "a" :> x @@ "b" :> Make(<<"src">>) @@ "Makefile" :> y)
          EXCEPT !.includes["a"] = <<l>>, !.by["b"] = "a"], t) :
      x \in {Make(<<"src">>), NoRule}, y \in {Make(<<"a">>), Make(<<"b">>), Make(<<"src">>)},
      l \in {Need("b"), May("b")}, t \in Few }

(* What forces a remake each time; recipes that then leave the file alone. *)
Forced ==
  { At([Text(<<May("a"), Need("b")>>, "a" :> Make(<<"src">>) @@ "b" :> Make(<<"src">>) @@ "src" :> r)
          EXCEPT !.phony = p], t) :
      r \in {Imagined, Skipped, NoRule}, p \in {{}, {"src"}, {"a"}}, t \in Few }
  \cup
  { At([Text(<<Need("a"), May("b")>>, "a" :> Make(<<"src">>) @@ "b" :> x)
          EXCEPT !.what_if = {"src"}, !.eager = {"a"}, !.no_exec = e], t) :
      x \in {Make(<<"src">>), Make(<<"a">>), NoRule}, e \in BOOLEAN,
      t \in {u \in Few : u["src"] # 0} }

(* -f Makefile without the file, and files that may not be read. *)
Hidden ==
  { [mk |-> [Text(<<Need("a"), May("b")>>, "a" :> x @@ "b" :> Make(<<>>) @@ "Makefile" :> NoRule)
               EXCEPT !.named = TRUE, !.unreadable = u],
     files |-> [f \in Files |-> IF f = "Makefile" THEN m ELSE 1]] :
      x \in {Make(<<>>), NoRule, Skipped}, u \in {{"a"}, {"b"}, {"a", "b"}}, m \in {0, 1} }

(* a is copied from b if that has changed, and b is made of src. *)
CopiedSetups ==
  { At([Text(<<Need("a"), Need("b")>>, "a" :> Make(<<"b">>) @@ "b" :> Make(<<"src">>))
          EXCEPT !.may_fail = {}],
       "a" :> 1 @@ "b" :> 1 @@ "src" :> 2) }

MCSetups == Pairs \cup Turned \cup Peers \cup Nested \cup Forced \cup Hidden
=============================================================================
