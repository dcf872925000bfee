---------------------------- MODULE OrderedBuild ----------------------------
(***************************************************************************)
(* What `make -j` promises, whatever schedules the recipes: at most Slots  *)
(* recipes run at once, each at most once and only after everything its    *)
(* target needs is made; after a failure no recipe starts unless -k was    *)
(* given; make returns when no recipe runs, with an error exactly when     *)
(* something failed.  .WAIT, queues and threads do not appear here.        *)
(***************************************************************************)
EXTENDS Integers, FiniteSets

CONSTANTS Target, Slots

VARIABLES
  needs,       \* what each planned target needs, fixed for the build
  recipe,      \* the targets with a recipe to run, fixed for the build
  keep_going,  \* -k
  status,
  returned

fixed == <<needs, recipe, keep_going>>
vars == <<fixed, status, returned>>

Planned == DOMAIN needs
With(st) == {t \in Planned : status[t] = st}

(* Targets without a recipe that can be called made once those of M are. *)
Settling(M) ==
  { S \in SUBSET (With("todo") \ recipe) : \A t \in S : needs[t] \subseteq M \cup S }

(* Targets a make that met a failure may give up. *)
GivenUp(failure) == IF failure THEN SUBSET With("todo") ELSE {{}}

Init ==
  /\ Planned \subseteq Target
  /\ needs \in [Planned -> SUBSET Planned]
  /\ recipe \subseteq Planned
  /\ keep_going \in BOOLEAN
  /\ status \in [Planned -> {"todo", "made"}]
  /\ \A t \in With("made") : t \notin recipe /\ needs[t] \subseteq With("made")
  /\ returned = "no"

Start(t) ==
  /\ returned = "no"
  /\ status[t] = "todo" /\ t \in recipe
  /\ needs[t] \subseteq With("made")
  /\ Cardinality(With("running")) < Slots
  /\ With("failed") # {} => keep_going
  /\ status' = [status EXCEPT ![t] = "running"]
  /\ UNCHANGED <<fixed, returned>>

(* The recipe of t ends.  Other targets may settle or be given up with it. *)
Finish(t) ==
  /\ status[t] = "running"
  /\ \E ok \in BOOLEAN :
     \E S \in IF ok THEN Settling(With("made") \cup {t}) ELSE {{}} :
     \E F \in GivenUp(~ok \/ With("failed") # {}) :
       status' = [u \in Planned |-> CASE u = t   -> IF ok THEN "made" ELSE "failed"
                                      [] u \in S -> "made"
                                      [] u \in F \ S -> "failed"
                                      [] OTHER   -> status[u]]
  /\ UNCHANGED <<fixed, returned>>

(* A target without a recipe is made because all it needs is. *)
Settle(t) ==
  /\ returned = "no"
  /\ status[t] = "todo" /\ t \notin recipe
  /\ needs[t] \subseteq With("made")
  /\ status' = [status EXCEPT ![t] = "made"]
  /\ UNCHANGED <<fixed, returned>>

Return ==
  /\ returned = "no"
  /\ With("running") = {}
  /\ returned' = IF With("failed") = {} THEN "ok" ELSE "error"
  /\ UNCHANGED <<fixed, status>>

Next == Return \/ \E t \in Planned : Start(t) \/ Finish(t) \/ Settle(t)

Spec == Init /\ [][Next]_vars
=============================================================================
