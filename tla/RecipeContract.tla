--------------------------- MODULE RecipeContract ---------------------------
(***************************************************************************)
(* What a recipe is to its makefile's author: its commands are started one *)
(* by one in the order written, and the first failure that the author did  *)
(* not ask to ignore is the last thing that happens.                       *)
(***************************************************************************)
EXTENDS Sequences

CONSTANT Commands

VARIABLES todo,      \* commands still to start, each with its flag
          ran,       \* those started, and how each ended
          verdict    \* "none" until the recipe is over

vars == <<todo, ran, verdict>>

Init ==
  /\ todo \in Seq([command : Commands, ignore : BOOLEAN])
  /\ ran = <<>> /\ verdict = "none"

Start(end) == ran' = Append(ran, [what |-> end, command |-> Head(todo).command])

Run ==
  /\ verdict = "none" /\ todo # <<>>
  /\ Start("ran") \/ (Head(todo).ignore /\ Start("ignored"))
  /\ todo' = Tail(todo) /\ UNCHANGED verdict

Fail ==
  /\ verdict = "none" /\ todo # <<>> /\ ~Head(todo).ignore
  /\ Start("failed") /\ todo' = <<>> /\ verdict' = "error"

(* The shell could not be started. *)
NotStarted ==
  /\ verdict = "none" /\ todo # <<>>
  /\ todo' = <<>> /\ verdict' = "error" /\ UNCHANGED ran

(* It could not, and the author asked to go on. *)
PassedOver ==
  /\ verdict = "none" /\ todo # <<>> /\ Head(todo).ignore
  /\ todo' = Tail(todo) /\ UNCHANGED <<ran, verdict>>

Finish ==
  /\ verdict = "none" /\ todo = <<>>
  /\ verdict' \in {"rebuilt", "reused"} /\ UNCHANGED <<todo, ran>>

Next == Run \/ Fail \/ NotStarted \/ PassedOver \/ Finish

Spec == Init /\ [][Next]_vars
=============================================================================
