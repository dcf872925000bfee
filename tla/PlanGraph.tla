----------------------------- MODULE PlanGraph -----------------------------
(***************************************************************************)
(* The dependency graph that ParallelScheduler::new builds from the map of *)
(* target plans: the edges of the plans, and the virtual barrier nodes     *)
(* that enforce .WAIT.  Everything here is a function of a plan map P, a   *)
(* function from the planned targets to their plans.                       *)
(*                                                                         *)
(* A list of prerequisites is modelled by the set of its members.  Their   *)
(* order decides only in which order ready targets are queued, and the     *)
(* maps they are copied into are hash maps, whose order is arbitrary.      *)
(***************************************************************************)
EXTENDS Integers, Sequences, FiniteSets

CONSTANT Targets    \* names of targets, prerequisites and files

(* No target has the name of a barrier. *)
ASSUME TargetsAssumption == Targets \cap (Targets \X Nat) = {}

(***************************************************************************)
(* What the scheduler knows of a target.  recipe says whether the plan has *)
(* recipe lines; a plan with a recipe always has needs_rebuild, because    *)
(* execute_recipe sets both.                                               *)
(***************************************************************************)
TargetPlan ==
  { p \in [prerequisites : SUBSET Targets,
           order_only : SUBSET Targets,
           wait_groups : Seq(SUBSET Targets),
           recipe : BOOLEAN,
           needs_rebuild : BOOLEAN,
           is_intermediate : BOOLEAN,
           intermediate_also_make : SUBSET Targets] : p.recipe => p.needs_rebuild }

IsPlanMap(P) == /\ DOMAIN P \subseteq Targets /\ IsFiniteSet(DOMAIN P)
                /\ \A t \in DOMAIN P : P[t] \in TargetPlan

-----------------------------------------------------------------------------
(* Barriers.  <<t, i>> is the virtual node "t##wait##(i-1)": it completes  *)
(* when the first i .WAIT groups of t are done.                            *)

Barriers(P) ==
  UNION { {t} \X (1 .. Len(P[t].wait_groups) - 1) : t \in DOMAIN P }

Nodes(P) == DOMAIN P \cup Barriers(P)

(* The planned targets a plan lists, normal and order-only alike. *)
PlannedPrereqs(P, t) ==
  (P[t].prerequisites \cup P[t].order_only) \cap DOMAIN P

(* A fault: a barrier forgets the barrier of the group before its own. *)
BarrierPrereqsUnchained(P, b) == P[b[1]].wait_groups[b[2]] \cap DOMAIN P

(* A barrier waits for its own group and for the barrier before it. *)
BarrierPrereqs(P, b) ==
  (P[b[1]].wait_groups[b[2]] \cap DOMAIN P)
     \cup {c \in Barriers(P) : c[1] = b[1] /\ c[2] = b[2] - 1}

(* The prerequisites of t that may start before any barrier of t. *)
FirstGroup(P, t) ==
  IF P[t].wait_groups = <<>> THEN P[t].prerequisites ELSE P[t].wait_groups[1]

GloballyUnguarded(P) == UNION { FirstGroup(P, t) : t \in DOMAIN P }

DirectlyUnguarded(P) ==
  UNION { P[t].prerequisites : t \in {u \in DOMAIN P : P[u].wait_groups = <<>>} }

(* The targets of the next group that barrier b holds back. *)
HeldBack(P, b) ==
  (P[b[1]].wait_groups[b[2] + 1] \cap DOMAIN P) \ GloballyUnguarded(P)

(* The barriers injected into the prerequisites of t: those that hold t    *)
(* back, and those that hold back a target with t in its first group.      *)
GuardsOf(P, t) ==
  { b \in Barriers(P) :
      \/ t \in HeldBack(P, b)
      \/ /\ t \notin DirectlyUnguarded(P)
         /\ \E u \in HeldBack(P, b) : t \in FirstGroup(P, u) }

PrereqsOf(P) ==
  [n \in Nodes(P) |-> IF n \in DOMAIN P
                      THEN PlannedPrereqs(P, n) \cup GuardsOf(P, n)
                      ELSE BarrierPrereqs(P, n)]

-----------------------------------------------------------------------------
(* Notions about a graph G, a function from nodes to their prerequisites.  *)

(* The nodes reachable from those of R: the least set that holds them and  *)
(* is closed under prerequisites.                                          *)
Reachable(G, R) ==
  { n \in DOMAIN G :
      \A S \in SUBSET DOMAIN G :
        (/\ R \cap DOMAIN G \subseteq S
         /\ \A m \in S : G[m] \subseteq S) => n \in S }

(* Every set of nodes has one with no prerequisite in the set. *)
Acyclic(G) ==
  \A S \in SUBSET DOMAIN G : S # {} => \E n \in S : G[n] \cap S = {}

(* The graph the makefile asks for, before any barrier is injected. *)
MakefileGraph(P) == [t \in DOMAIN P |-> PlannedPrereqs(P, t)]
=============================================================================
