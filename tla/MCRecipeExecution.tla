------------------------- MODULE MCRecipeExecution -------------------------
(***************************************************************************)
(* Recipes of at most two lines and three commands.                        *)
(***************************************************************************)
EXTENDS RecipeExecution

CONSTANTS x, y, z

MCCommands == {x, y, z}

Sub(p, c) == [prefix |-> p, command |-> c]
LineOf(own, make, subs) == [own |-> own, calls_make |-> make, subs |-> subs]

PrefixSets == {{}, {"@"}, {"-"}, {"+"}, {"-", "+"}}

(* One command, whose prefix stands in the makefile or in a variable. *)
OneCommand(c) ==
  { LineOf(own, make, <<Sub(p, d)>>) :
      <<own, p>> \in { q \in ({{}} \cup PrefixSets) \X PrefixSets : q[1] \in {{}, q[2]} },
      make \in BOOLEAN, d \in {c, Nothing} }

(* A variable of two lines. *)
TwoCommands(c, d) ==
  { LineOf(own, FALSE, <<Sub(p, e), Sub(q, d)>>) :
      own \in {{}, {"-"}}, p \in {{"-"}, {"-", "+"}}, q \in {{}, {"@"}}, e \in {c, Nothing} }

Recipes ==
  {<<>>} \cup { <<l>> : l \in OneCommand(x) \cup TwoCommands(x, y) }
  \cup { <<l, m>> : l \in OneCommand(x), m \in OneCommand(z) }
  \cup { <<l, m>> : l \in TwoCommands(x, y), m \in {LineOf({}, FALSE, <<Sub({}, z)>>)} }

Plain == [touch |-> FALSE, dry_run |-> FALSE, silent |-> FALSE, one_shell |-> FALSE,
          bourne |-> TRUE, ignore_errors |-> FALSE, delete_on_error |-> FALSE,
          precious |-> FALSE, phony |-> FALSE]

Settings ==
  LET deleting == [Plain EXCEPT !.delete_on_error = TRUE]
  IN  {Plain, deleting, [Plain EXCEPT !.dry_run = TRUE], [Plain EXCEPT !.ignore_errors = TRUE],
       [Plain EXCEPT !.touch = TRUE], [Plain EXCEPT !.touch = TRUE, !.dry_run = TRUE],
       [Plain EXCEPT !.dry_run = TRUE, !.silent = TRUE], [deleting EXCEPT !.precious = TRUE],
       [deleting EXCEPT !.phony = TRUE]}
      \cup { [s EXCEPT !.one_shell = TRUE, !.bourne = b] :
               s \in {Plain, deleting, [Plain EXCEPT !.dry_run = TRUE]}, b \in BOOLEAN }

MCJobs ==
  { [lines |-> r, parallel |-> p, touch |-> s.touch, dry_run |-> s.dry_run,
     silent |-> s.silent, one_shell |-> s.one_shell, bourne |-> s.bourne,
     ignore_errors |-> s.ignore_errors, delete_on_error |-> s.delete_on_error,
     precious |-> s.precious, phony |-> s.phony] :
      r \in Recipes, p \in BOOLEAN, s \in Settings }
=============================================================================
