---------------------- MODULE ParallelScheduler_proofs ----------------------
(***************************************************************************)
(* Theorems about the parallel scheduler, for every makefile, every number *)
(* of workers and every way recipes end.                                   *)
(***************************************************************************)
EXTENDS ScheduledBuild, SequenceFacts, WellFoundedInduction

-----------------------------------------------------------------------------
(* The graph ParallelScheduler::new builds, for every plan map.            *)

(* A hash map has finitely many targets and each has finitely many .WAIT   *)
(* groups, so new() builds finitely many nodes.                            *)
LEMMA FiniteGraph ==
  ASSUME NEW P, IsPlanMap(P)
  PROVE  IsFiniteSet(Nodes(P))
<1> DEFINE OfTarget(t) == {t} \X (1 .. Len(P[t].wait_groups) - 1)
           parts == { OfTarget(t) : t \in DOMAIN P }
           part  == [t \in DOMAIN P |-> OfTarget(t)]
<1>1. IsFiniteSet(parts)
  <2>1. part \in [DOMAIN P -> parts]
    OBVIOUS
  <2>2. \A x \in parts : \E t \in DOMAIN P : part[t] = x
    OBVIOUS
  <2>3. part \in Surjection(DOMAIN P, parts)
    BY <2>1, <2>2, Fun_IsSurj
  <2> QED BY <2>3, FS_Surjection DEF IsPlanMap
<1>2. \A x \in parts : IsFiniteSet(x)
  <2> SUFFICES ASSUME NEW t \in DOMAIN P PROVE IsFiniteSet(OfTarget(t))
    OBVIOUS
  <2>1. P[t].wait_groups \in Seq(SUBSET Targets)
    BY DEF IsPlanMap, TargetPlan
  <2>2. IsFiniteSet(1 .. Len(P[t].wait_groups) - 1)
    BY <2>1, FS_Interval
  <2>3. IsFiniteSet({t})
    BY FS_Singleton
  <2> QED BY <2>2, <2>3, FS_Product
<1>3. IsFiniteSet(UNION parts)
  BY <1>1, <1>2, FS_UNION
<1>4. Nodes(P) = DOMAIN P \cup UNION parts
  BY DEF Nodes, Barriers
<1>5. IsFiniteSet(DOMAIN P)
  BY DEF IsPlanMap
<1> HIDE DEF parts
<1> QED BY <1>3, <1>4, <1>5, FS_Union

(* Every prerequisite in the graph is a node of it: what a plan lists and  *)
(* nobody plans to build is dropped.                                       *)
LEMMA GraphClosed ==
  ASSUME NEW P
  PROVE  PrereqsOf(P) \in [Nodes(P) -> SUBSET Nodes(P)]
<1>1. ASSUME NEW n \in DOMAIN P
      PROVE  PlannedPrereqs(P, n) \cup GuardsOf(P, n) \subseteq Nodes(P)
  BY DEF PlannedPrereqs, GuardsOf, Nodes
<1>2. ASSUME NEW n \in Barriers(P)
      PROVE  BarrierPrereqs(P, n) \subseteq Nodes(P)
  BY DEF BarrierPrereqs, Nodes
<1> QED BY <1>1, <1>2 DEF PrereqsOf, Nodes

-----------------------------------------------------------------------------
(* Releasing nodes.  Everything the scheduler does to states when a node   *)
(* completes is a Release.                                                 *)

StatesMap == [Node -> TargetState]

(* Every prerequisite is a node, and there are finitely many nodes. *)
GraphOK == prereqs_of \in [Node -> SUBSET Node] /\ IsFiniteSet(Node)

(* t is s with some absent nodes queued, done or given up; order is the    *)
(* list of those queued.  Nothing is queued or done before what it needs.  *)
Release(s, t, order) ==
  /\ t \in StatesMap
  /\ \A n \in Node : s[n] # NoState => t[n] = s[n]
  /\ \A n \in Node : s[n] = NoState => t[n] \in {NoState, "Ready", "Done", "Failed"}
  /\ \A n \in Node : s[n] = NoState /\ t[n] \in {"Ready", "Done"} =>
                       AllPrereqsDone(t, n)
  /\ \A n \in Node : s[n] = NoState /\ t[n] = "Done" => UpToDate(n)
  /\ \A n \in Node : s[n] = NoState /\ t[n] = "Failed" =>
                       \E m \in Node : s[m] = "Failed"
  /\ order \in Seq(Node) /\ IsInjective(order)
  /\ Range(order) = {n \in Node : s[n] = NoState /\ t[n] = "Ready"}

(* No node is left absent that could go on, among those of V and those     *)
(* that need a node done on the way from s to t.                           *)
Exhausts(s, t, V) ==
  \A n \in Node :
    (/\ t[n] = NoState
     /\ n \in V \/ \E p \in prereqs_of[n] : s[p] = NoState /\ t[p] = "Done")
    => ~ AllPrereqsDone(t, n)

(* Settled is closed under SettledBy and holds nothing that is not forced. *)
LEMMA SettledFixpoint ==
  ASSUME GraphOK, NEW s \in StatesMap, NEW V \in SUBSET Node
  PROVE  /\ Settled(s, V) = SettledBy(s, V, Settled(s, V))
         /\ \A n \in Settled(s, V) : s[n] = NoState /\ UpToDate(n)
<1> DEFINE C == {m \in Node : s[m] = NoState /\ UpToDate(m)}
           S == Settled(s, V)
           F(D) == SettledBy(s, V, D)
<1>1. \A D : F(D) \subseteq C
  BY DEF SettledBy, Visited
<1>2. ASSUME NEW D \in SUBSET Node, NEW E \in SUBSET Node, D \subseteq E
      PROVE  F(D) \subseteq F(E)
  <2>1. Visited(V, D) \subseteq Visited(V, E)
    BY <1>2 DEF Visited
  <2>2. ASSUME NEW n \in Node, AllPrereqsDone(MarkDone(s, D), n)
        PROVE  AllPrereqsDone(MarkDone(s, E), n)
    BY <1>2, <2>2 DEF AllPrereqsDone, MarkDone, GraphOK, DoneStates
  <2>3. Visited(V, D) \subseteq Node
    BY DEF Visited
  <2> QED BY <2>1, <2>2, <2>3 DEF SettledBy
<1>3. S \subseteq C
  BY <1>1 DEF Settled
<1>4. F(S) \subseteq S
  <2> SUFFICES ASSUME NEW n \in F(S), NEW D \in SUBSET C, F(D) \subseteq D
               PROVE  n \in D
    BY <1>1 DEF Settled
  <2>1. S \subseteq D
    BY DEF Settled
  <2> QED BY <1>2, <2>1
<1>5. S \subseteq F(S)
  <2>1. F(F(S)) \subseteq F(S)
    BY <1>1, <1>2, <1>3, <1>4
  <2> QED BY <1>1, <2>1 DEF Settled
<1> QED BY <1>3, <1>4, <1>5

(* What Visit and FindInitialReady do is a release that leaves nothing     *)
(* visited behind.                                                         *)
LEMMA VisitReleases ==
  ASSUME GraphOK, NEW s \in StatesMap, NEW V \in SUBSET Node,
         NEW settled, settled = Settled(s, V),
         NEW done, done = MarkDone(s, settled),
         NEW visited, visited = Visited(V, settled),
         NEW ready, ready = NewlyReady(done, visited),
         NEW order \in SetToSeqs(ready),
         NEW failed \in FailureMarks(done, visited),
         NEW t, t = [n \in Node |-> CASE n \in ready  -> "Ready"
                                      [] n \in failed -> "Failed"
                                      [] OTHER -> done[n]]
  PROVE  Release(s, t, order) /\ Exhausts(s, t, V)
<1>1. /\ settled = SettledBy(s, V, settled)
      /\ \A n \in settled : s[n] = NoState /\ UpToDate(n)
  BY SettledFixpoint
<1>2. settled \in SUBSET Node /\ visited \in SUBSET Node
  BY DEF Visited, Settled
<1>3. done \in StatesMap
  BY DEF StatesMap, MarkDone, TargetState, DoneStates
<1>4. \A n \in Node : done[n] = IF n \in settled THEN "Done" ELSE s[n]
  BY DEF MarkDone
<1>5. \A n \in ready : /\ n \in visited /\ done[n] = NoState
                       /\ ~ UpToDate(n) /\ AllPrereqsDone(done, n)
  BY DEF NewlyReady
<1>6. /\ failed \subseteq visited /\ \A n \in failed : done[n] = NoState
      /\ \A n \in visited : done[n] = NoState /\ AnyPrereqFailed(done, n) => n \in failed
      /\ failed # {} => \E n \in failed : AnyPrereqFailed(done, n)
  BY DEF FailureMarks
<1>7. \A n \in Node : /\ n \in ready => t[n] = "Ready"
                      /\ n \in failed => t[n] = "Failed"
                      /\ n \notin ready \cup failed => t[n] = done[n]
  <2>1. ready \cap failed = {}
    <3> SUFFICES ASSUME NEW n \in ready \cap failed PROVE FALSE
      OBVIOUS
    <3>1. AnyPrereqFailed(done, n) \/ prereqs_of[n] \cap (failed \ {n}) # {}
      BY DEF FailureMarks
    <3>2. \A p \in prereqs_of[n] : done[p] \in DoneStates
      BY <1>5 DEF AllPrereqsDone
    <3> QED BY <1>6, <3>1, <3>2 DEF AnyPrereqFailed, DoneStates, NoState
  <2> QED BY <2>1
<1>8. \A n \in Node : done[n] # NoState => t[n] = done[n]
  BY <1>5, <1>6, <1>7
<1>9. t \in StatesMap
  BY <1>3 DEF StatesMap, TargetState, DoneStates
<1>10. ASSUME NEW n \in Node
       PROVE  AllPrereqsDone(t, n) <=> AllPrereqsDone(done, n)
  <2>1. \A p \in Node : t[p] \in DoneStates <=> done[p] \in DoneStates
    BY <1>5, <1>6, <1>7 DEF DoneStates, NoState
  <2> QED BY <2>1 DEF AllPrereqsDone, GraphOK
<1>11. \A n \in Node : s[n] # NoState => t[n] = s[n]
  BY <1>1, <1>4, <1>8
<1>12. \A n \in Node : s[n] = NoState => t[n] \in {NoState, "Ready", "Done", "Failed"}
  BY <1>4, <1>7
<1>13. ASSUME NEW n \in Node, s[n] = NoState, t[n] = "Ready"
       PROVE  n \in ready
  BY <1>4, <1>7, <1>13 DEF NoState
<1>14. ASSUME NEW n \in Node, s[n] = NoState, t[n] = "Done"
       PROVE  n \in settled
  BY <1>4, <1>7, <1>14 DEF NoState
<1>15. \A n \in settled : AllPrereqsDone(done, n)
  BY <1>1 DEF SettledBy
<1>16. \A n \in Node : s[n] = NoState /\ t[n] \in {"Ready", "Done"} => AllPrereqsDone(t, n)
  BY <1>5, <1>10, <1>13, <1>14, <1>15
<1>17. \A n \in Node : s[n] = NoState /\ t[n] = "Done" => UpToDate(n)
  BY <1>1, <1>14
<1>18. ASSUME NEW n \in Node, s[n] = NoState, t[n] = "Failed"
       PROVE  \E m \in Node : s[m] = "Failed"
  <2>1. failed # {}
    BY <1>4, <1>7, <1>18 DEF NoState
  <2>2. PICK f \in failed : AnyPrereqFailed(done, f)
    BY <1>6, <2>1
  <2>3. PICK p \in prereqs_of[f] : done[p] = "Failed"
    BY <2>2 DEF AnyPrereqFailed
  <2>4. p \in Node
    BY <1>2, <1>6 DEF GraphOK
  <2> QED BY <1>4, <2>3, <2>4
<1>19. /\ order \in Seq(Node) /\ IsInjective(order)
       /\ Range(order) = {n \in Node : s[n] = NoState /\ t[n] = "Ready"}
  <2>1. ready \in SUBSET Node
    BY <1>2, <1>5
  <2>2. IsFiniteSet(ready)
    BY <2>1, FS_Subset DEF GraphOK
  <2>3. order \in Seq(ready) /\ IsInjective(order) /\ Range(order) = ready
    BY <2>2, OrdersOf
  <2>4. order \in Seq(Node)
    BY <2>1, <2>3, SeqMonotonic
  <2>5. \A n \in ready : s[n] = NoState /\ t[n] = "Ready"
    BY <1>1, <1>4, <1>5, <1>7, <2>1 DEF NoState
  <2> QED BY <1>13, <2>1, <2>3, <2>4, <2>5
<1>20. Exhausts(s, t, V)
  <2> SUFFICES ASSUME NEW n \in Node, t[n] = NoState, AllPrereqsDone(t, n),
                      n \in V \/ \E p \in prereqs_of[n] : s[p] = NoState /\ t[p] = "Done"
               PROVE  FALSE
    BY DEF Exhausts
  <2>0. n \in visited
    BY <1>14 DEF Visited, GraphOK
  <2>1. n \notin ready /\ done[n] = NoState /\ s[n] = NoState /\ n \notin settled
    BY <1>4, <1>7, <1>8 DEF NoState
  <2>2. AllPrereqsDone(done, n)
    BY <1>10
  <2>3. UpToDate(n)
    BY <2>0, <2>1, <2>2 DEF NewlyReady
  <2>4. n \in SettledBy(s, V, settled)
    BY <2>0, <2>1, <2>2, <2>3 DEF SettledBy
  <2> QED BY <1>1, <2>1, <2>4
<1> QED BY <1>9, <1>11, <1>12, <1>16, <1>17, <1>18, <1>19, <1>20 DEF Release
-----------------------------------------------------------------------------
(* What a change of states keeps.  QueueOK and Ordered are                 *)
(* QueueMatchesStates and PrereqsFirst for any states map and queue.       *)

QueueOK(q, s) ==
  q \in Seq(Node) /\ IsInjective(q) /\ Range(q) = {n \in Node : s[n] = "Ready"}

Ordered(s) ==
  \A n \in Node : s[n] \notin {NoState, "Failed"} => AllPrereqsDone(s, n)

(* A release keeps the queue exact and the order of the build.             *)
LEMMA ReleaseKeeps ==
  ASSUME GraphOK, NEW s \in StatesMap, NEW q, NEW t, NEW order,
         QueueOK(q, s), Ordered(s), Release(s, t, order)
  PROVE  QueueOK(q \o order, t) /\ Ordered(t)
<1>1. QueueOK(q \o order, t)
  <2>1. Range(q) \cap Range(order) = {}
    BY DEF QueueOK, Release, NoState
  <2>2. Range(q) \cup Range(order) = {n \in Node : t[n] = "Ready"}
    BY DEF QueueOK, Release, NoState
  <2> QED BY <2>1, <2>2, ConcatRange DEF QueueOK, Release
<1>2. ASSUME NEW n \in Node, t[n] \notin {NoState, "Failed"}
      PROVE  AllPrereqsDone(t, n)
  <2>1. CASE s[n] = NoState
    BY <1>2, <2>1 DEF Release
  <2>2. CASE s[n] # NoState
    <3>1. AllPrereqsDone(s, n)
      BY <1>2, <2>2 DEF Ordered, Release
    <3> QED BY <3>1 DEF AllPrereqsDone, GraphOK, Release, DoneStates, NoState
  <2> QED BY <2>1, <2>2
<1> QED BY <1>1, <1>2 DEF Ordered

(* The head of the queue leaves it. *)
LEMMA DequeueKeeps ==
  ASSUME GraphOK, NEW s \in StatesMap, NEW q, QueueOK(q, s), Ordered(s),
         q # <<>>, NEW x \in {"Running", "Done"},
         NEW t, t = [s EXCEPT ![Head(q)] = x]
  PROVE  /\ Head(q) \in Node /\ s[Head(q)] = "Ready"
         /\ t \in StatesMap /\ QueueOK(Tail(q), t) /\ Ordered(t)
<1>1. /\ Head(q) \in Node /\ Head(q) \in Range(q) /\ Tail(q) \in Seq(Node)
      /\ IsInjective(Tail(q)) /\ Range(Tail(q)) = Range(q) \ {Head(q)}
  BY TailRange DEF QueueOK
<1>2. s[Head(q)] = "Ready"
  BY <1>1 DEF QueueOK
<1>3. t \in StatesMap
  BY <1>1 DEF StatesMap, TargetState, DoneStates
<1>4. \A n \in Node : t[n] = IF n = Head(q) THEN x ELSE s[n]
  BY DEF StatesMap
<1>5. QueueOK(Tail(q), t)
  BY <1>1, <1>4 DEF QueueOK
<1>6. ASSUME NEW n \in Node, t[n] \notin {NoState, "Failed"}
      PROVE  AllPrereqsDone(t, n)
  <2>1. AllPrereqsDone(s, n)
    BY <1>2, <1>4, <1>6 DEF Ordered, NoState
  <2> QED BY <1>2, <1>4, <2>1 DEF AllPrereqsDone, GraphOK, DoneStates
<1> QED BY <1>1, <1>2, <1>3, <1>5, <1>6 DEF Ordered

(* A job ends. *)
LEMMA CompleteKeeps ==
  ASSUME GraphOK, NEW s \in StatesMap, NEW q, QueueOK(q, s), Ordered(s),
         NEW r \in Node, s[r] = "Running", NEW x \in {"Done", "Rebuilt"},
         NEW t, t = [s EXCEPT ![r] = x]
  PROVE  t \in StatesMap /\ QueueOK(q, t) /\ Ordered(t)
<1>1. t \in StatesMap
  BY DEF StatesMap, TargetState, DoneStates
<1>2. \A n \in Node : t[n] = IF n = r THEN x ELSE s[n]
  BY DEF StatesMap
<1>3. QueueOK(q, t)
  BY <1>2 DEF QueueOK
<1>4. ASSUME NEW n \in Node, t[n] \notin {NoState, "Failed"}
      PROVE  AllPrereqsDone(t, n)
  <2>1. AllPrereqsDone(s, n)
    BY <1>2, <1>4 DEF Ordered, NoState
  <2> QED BY <1>2, <2>1 DEF AllPrereqsDone, GraphOK, DoneStates
<1> QED BY <1>1, <1>3, <1>4 DEF Ordered

(* A job fails, and the absent nodes of D with it. *)
LEMMA FailureKeeps ==
  ASSUME GraphOK, NEW s \in StatesMap, NEW q, QueueOK(q, s), Ordered(s),
         NEW r \in Node, s[r] = "Running", NEW D,
         NEW t, t = [n \in Node |-> IF n = r \/ (s[n] = NoState /\ n \in D)
                                   THEN "Failed" ELSE s[n]]
  PROVE  t \in StatesMap /\ QueueOK(q, t) /\ Ordered(t)
<1>1. t \in StatesMap
  BY DEF StatesMap, TargetState, DoneStates
<1>2. \A n \in Node : t[n] = IF n = r \/ (s[n] = NoState /\ n \in D)
                             THEN "Failed" ELSE s[n]
  OBVIOUS
<1>3. QueueOK(q, t)
  BY <1>2 DEF QueueOK, NoState
<1>4. ASSUME NEW n \in Node, t[n] \notin {NoState, "Failed"}
      PROVE  AllPrereqsDone(t, n)
  <2>1. AllPrereqsDone(s, n)
    BY <1>2, <1>4 DEF Ordered
  <2> QED BY <1>2, <2>1 DEF AllPrereqsDone, GraphOK, DoneStates, NoState
<1> QED BY <1>1, <1>3, <1>4 DEF Ordered
-----------------------------------------------------------------------------
(* The inductive invariant.                                                *)

(* No job is in two places. *)
OnePlaceEach ==
  /\ IsInjective(jobs)
  /\ \A i, j \in 1 .. Len(results) : results[i].target = results[j].target => i = j
  /\ \A v, w \in Busy : worker[v] = worker[w] => v = w
  /\ InJobs \cap Executing = {}
  /\ InJobs \cap InResults = {}
  /\ Executing \cap InResults = {}

(* The scheduler drains exactly when something has failed; a barrier never *)
(* fails unless a target has.                                              *)
ErrorsKnown ==
  /\ draining = has_error
  /\ has_error => \E n \in DOMAIN plans : states[n] = "Failed"
  /\ \A n \in Node : states[n] = "Failed" => has_error

(* What the main thread knows where it is. *)
PhaseKnown ==
  /\ pc = "wait" => running_count > 0
  /\ pc \in {"join", "ended"} => running_count = 0 /\ (~ draining => ready_queue = <<>>)
  /\ pc # "ended" => outcome = "none"
  /\ pc = "ended" => outcome = IF has_error THEN "error" ELSE "ok"

(* Until something fails, no node the goals need is left absent when it    *)
(* could go on.                                                            *)
NothingForgotten ==
  ~ has_error =>
    \A n \in Reachable(prereqs_of, roots) : states[n] = NoState => ~ AllPrereqsDone(states, n)

IInv ==
  /\ TypeOK /\ GraphOK
  /\ QueueMatchesStates
  /\ PrereqsFirst
  /\ OnePlaceEach
  /\ InFlight
  /\ ErrorsKnown
  /\ PhaseKnown
  /\ NothingForgotten
-----------------------------------------------------------------------------
(* The initial states and the steps keep it.                               *)

(* Visit is a release that leaves nothing visited behind.                  *)
LEMMA VisitEffect ==
  ASSUME GraphOK, NEW s \in StatesMap, NEW q, NEW V \in SUBSET Node, Visit(s, q, V)
  PROVE  \E order : /\ ready_queue' = q \o order
                    /\ Release(s, states', order)
                    /\ Exhausts(s, states', V)
<1> DEFINE settled == Settled(s, V)
           done    == MarkDone(s, settled)
           visited == Visited(V, settled)
           ready   == NewlyReady(done, visited)
<1>1. PICK order \in SetToSeqs(ready), failed \in FailureMarks(done, visited) :
        /\ ready_queue' = q \o order
        /\ states' = [n \in Node |-> CASE n \in ready  -> "Ready"
                                       [] n \in failed -> "Failed"
                                       [] OTHER -> done[n]]
  BY DEF Visit
<1> HIDE DEF settled, done, visited, ready
<1>2. Release(s, states', order) /\ Exhausts(s, states', V)
  BY <1>1, VisitReleases DEF settled, done, visited, ready
<1> QED BY <1>1, <1>2

(* new() and find_initial_ready. *)
LEMMA InitialRelease ==
  ASSUME GraphOK, FindInitialReady(InitialStates, ready_queue, states)
  PROVE  /\ states \in StatesMap /\ QueueOK(ready_queue, states) /\ Ordered(states)
         /\ \A n \in Node : states[n] \in {NoState, "Ready", "Done"}
         /\ \A n \in Node : states[n] = "Done" => UpToDate(n)
         /\ \A n \in Reachable(prereqs_of, roots) :
              states[n] = NoState => ~ AllPrereqsDone(states, n)
<1> DEFINE s       == InitialStates
           reached == Reachable(prereqs_of, roots)
           settled == Settled(s, reached)
           done    == MarkDone(s, settled)
           visited == Visited(reached, settled)
           ready   == NewlyReady(done, visited)
<1>1. /\ s \in StatesMap
      /\ \A n \in Node : s[n] \in {NoState, "Done"}
      /\ \A n \in Node : s[n] = "Done" => UpToDate(n) /\ prereqs_of[n] = {}
  BY DEF InitialStates, MarkDone, StatesMap, TargetState, DoneStates, NoState
<1>2. reached \in SUBSET Node
  BY DEF Reachable, Node
<1>3. \A n \in Node : done[n] \in {NoState, "Done"}
  BY <1>1 DEF MarkDone
<1>4. {} \in FailureMarks(done, visited)
  <2>1. visited \subseteq Node
    BY <1>2 DEF Visited
  <2>2. \A n \in Node : ~ AnyPrereqFailed(done, n)
    BY <1>3 DEF AnyPrereqFailed, GraphOK, NoState
  <2> HIDE DEF done, visited
  <2> QED BY <2>1, <2>2 DEF FailureMarks
<1>5. /\ ready_queue \in SetToSeqs(ready)
      /\ states = [n \in Node |-> IF n \in ready THEN "Ready" ELSE done[n]]
  BY DEF FindInitialReady
<1>6. states = [n \in Node |-> CASE n \in ready -> "Ready"
                                 [] n \in {}   -> "Failed"
                                 [] OTHER -> done[n]]
  <2> HIDE DEF done, ready
  <2> QED BY <1>5
<1>7. Release(s, states, ready_queue) /\ Exhausts(s, states, reached)
  <2> HIDE DEF s, reached, settled, done, visited, ready
  <2> QED BY <1>1, <1>2, <1>4, <1>5, <1>6, VisitReleases
             DEF settled, done, visited, ready
<1> HIDE DEF s, reached, settled, done, visited, ready
<1>8. QueueOK(<<>>, s) /\ Ordered(s)
  <2>1. <<>> \in Seq(Node) /\ IsInjective(<<>>) /\ Range(<<>>) = {}
    BY DEF IsInjective, Range
  <2>2. {n \in Node : s[n] = "Ready"} = {}
    BY <1>1 DEF NoState
  <2>3. Ordered(s)
    BY <1>1 DEF Ordered, AllPrereqsDone
  <2> QED BY <2>1, <2>2, <2>3 DEF QueueOK
<1>9. QueueOK(ready_queue, states) /\ Ordered(states)
  <2>1. <<>> \o ready_queue = ready_queue
    BY <1>7, ConcatEmptySeq DEF Release
  <2> QED BY <1>1, <1>7, <1>8, <2>1, ReleaseKeeps
<1>10. \A n \in Node : states[n] \in {NoState, "Ready", "Done"}
  BY <1>1, <1>7 DEF Release, NoState
<1>11. \A n \in reached : states[n] = NoState => ~ AllPrereqsDone(states, n)
  BY <1>2, <1>7 DEF Exhausts
<1>12. states \in StatesMap
  BY <1>7 DEF Release
<1>13. \A n \in Node : states[n] = "Done" => UpToDate(n)
  BY <1>1, <1>7 DEF Release
<1> QED BY <1>9, <1>10, <1>11, <1>12, <1>13 DEF reached

(* new() and find_initial_ready establish the invariant.                   *)
LEMMA InitOK == Init => IInv
<1> SUFFICES ASSUME Init PROVE IInv
  OBVIOUS
<1>1. IsPlanMap(plans) /\ roots \subseteq Targets
  BY MakefilesAssumption DEF Init
<1>2. GraphOK /\ Node = Nodes(plans)
  BY <1>1, FiniteGraph, GraphClosed DEF Init, GraphOK, Node
<1>3. /\ states \in StatesMap /\ QueueOK(ready_queue, states) /\ Ordered(states)
      /\ \A n \in Node : states[n] \in {NoState, "Ready", "Done"}
      /\ NothingForgotten
  BY <1>2, InitialRelease DEF Init, NothingForgotten
<1>4. RunningNodes = {} /\ \A n \in Node : states[n] # "Failed"
  BY <1>3 DEF RunningNodes, NoState
<1>5. max_jobs \in Nat /\ max_jobs > 0
  BY WorkersAssumption, FS_CardinalityType, FS_EmptySet DEF max_jobs
<1>6. /\ InJobs = {} /\ Executing = {} /\ InResults = {}
      /\ Busy = {} /\ Len(jobs) = 0 /\ Len(results) = 0
  BY DEF Init, InJobs, Executing, InResults, Busy, Range
<1>7. TypeOK
  <2>1. running_count \in 0 .. max_jobs
    BY <1>5 DEF Init
  <2>2. DOMAIN plans \subseteq Node /\ prereqs_of \in [Node -> SUBSET Node]
    BY <1>2 DEF Nodes, GraphOK
  <2>3. states \in [Node -> TargetState] /\ ready_queue \in Seq(Node)
    BY <1>3 DEF StatesMap, QueueOK
  <2>4. /\ jobs \in Seq(DOMAIN plans) /\ results \in Seq(JobResult)
        /\ worker \in [Workers -> DOMAIN plans \cup {Idle, Exited}]
    BY DEF Init
  <2> QED BY <1>1, <2>1, <2>2, <2>3, <2>4 DEF Init, TypeOK
<1>8. QueueMatchesStates /\ PrereqsFirst
  BY <1>3 DEF QueueMatchesStates, Queued, QueueOK, PrereqsFirst, Ordered
<1>9. OnePlaceEach
  BY <1>6 DEF Init, OnePlaceEach, IsInjective
<1>10. InFlight
  <2>1. running_count = 0 /\ Cardinality({}) = 0
    BY FS_EmptySet DEF Init
  <2> QED BY <1>4, <1>6, <2>1 DEF InFlight
<1>11. ErrorsKnown /\ PhaseKnown
  BY <1>4 DEF Init, ErrorsKnown, PhaseKnown
<1> QED BY <1>2, <1>3, <1>7, <1>8, <1>9, <1>10, <1>11 DEF IInv

(* The invariant in the terms the lemmas about releases use.               *)
LEMMA Restated ==
  ASSUME IInv
  PROVE  /\ GraphOK /\ states \in StatesMap
         /\ QueueOK(ready_queue, states) /\ Ordered(states)
         /\ DOMAIN plans \subseteq Node /\ DOMAIN plans \subseteq Targets
BY DEF IInv, TypeOK, StatesMap, QueueMatchesStates, Queued, QueueOK, PrereqsFirst,
       Ordered, IsPlanMap

(* The three places a job can be in, for the actions that move one. *)
LEMMA Places ==
  ASSUME IInv
  PROVE  /\ Executing = {worker[w] : w \in Busy}
         /\ Idle \notin DOMAIN plans /\ Exited \notin DOMAIN plans
         /\ \A w \in Busy : worker[w] \in DOMAIN plans
         /\ IsFiniteSet(Busy) /\ Cardinality(Busy) \in Nat
         /\ IsFiniteSet(RunningNodes) /\ Cardinality(RunningNodes) \in Nat
         /\ Len(jobs) \in Nat /\ Len(results) \in Nat
         /\ max_jobs \in Nat
<1>1. worker \in [Workers -> DOMAIN plans \cup {Idle, Exited}]
  BY DEF IInv, TypeOK
<1>2. Executing = {worker[w] : w \in Busy} /\ \A w \in Busy : worker[w] \in DOMAIN plans
  BY <1>1 DEF Executing, Busy, Range
<1>3. Idle \notin DOMAIN plans /\ Exited \notin DOMAIN plans
  BY Restated, MarkersAssumption
<1>4. IsFiniteSet(Busy) /\ IsFiniteSet(RunningNodes)
  BY Restated, WorkersAssumption, FS_Subset DEF Busy, RunningNodes, GraphOK
<1>5. Cardinality(Busy) \in Nat /\ Cardinality(RunningNodes) \in Nat /\ max_jobs \in Nat
  BY <1>4, WorkersAssumption, FS_CardinalityType DEF max_jobs
<1>6. Len(jobs) \in Nat /\ Len(results) \in Nat
  BY LenProperties DEF IInv, TypeOK
<1> QED BY <1>2, <1>3, <1>4, <1>5, <1>6

(* Launching the head of the queue keeps the invariant.                    *)
LEMMA LaunchJobOK == IInv /\ LaunchJob => IInv'
<1> SUFFICES ASSUME IInv, LaunchJob PROVE IInv'
  OBVIOUS
<1> DEFINE h == Head(ready_queue)
<1>1. /\ GraphOK /\ states \in StatesMap
      /\ QueueOK(ready_queue, states) /\ Ordered(states)
  BY Restated
<1>2. /\ ready_queue # <<>> /\ ~ draining /\ running_count < max_jobs
      /\ h \in DOMAIN plans /\ pc = "dispatch"
  BY DEF LaunchJob, ShouldLaunch, HasJob
<1>3. /\ states' = [states EXCEPT ![h] = "Running"]
      /\ ready_queue' = Tail(ready_queue)
      /\ running_count' = running_count + 1
      /\ jobs' = Append(jobs, h)
      /\ UNCHANGED <<resolved, has_error, draining, intermediate_built,
                     results, worker, pc, report>>
  BY DEF LaunchJob, PopReady
<1> HIDE DEF h
<1>4. /\ h \in Node /\ states[h] = "Ready" /\ states' \in StatesMap
      /\ QueueOK(Tail(ready_queue), states') /\ Ordered(states')
  BY <1>1, <1>2, <1>3, DequeueKeeps DEF h
<1>5. /\ jobs' \in Seq(DOMAIN plans) /\ Len(jobs') = Len(jobs) + 1
      /\ Range(jobs') = Range(jobs) \cup {h}
      /\ IsInjective(jobs) /\ h \notin Range(jobs) => IsInjective(jobs')
  BY <1>2, <1>3, AppendRange DEF IInv, TypeOK
<1>6. \A n \in Node : states'[n] = IF n = h THEN "Running" ELSE states[n]
  BY <1>1, <1>3 DEF StatesMap
<1>7. TypeOK'
  <2>1. running_count' \in 0 .. max_jobs
    BY <1>2, <1>3, Places DEF IInv, TypeOK
  <2> QED BY <1>3, <1>4, <1>5, <2>1
          DEF IInv, TypeOK, StatesMap, QueueOK, resolved, report, max_jobs, Node, JobResult
<1>8. GraphOK' /\ QueueMatchesStates' /\ PrereqsFirst'
  BY <1>1, <1>3, <1>4 DEF GraphOK, QueueMatchesStates, Queued, QueueOK, PrereqsFirst,
                          Ordered, AllPrereqsDone, Node, resolved
<1>9. h \notin RunningNodes
  BY <1>4 DEF RunningNodes
<1>10. h \notin Range(jobs) /\ h \notin Executing /\ h \notin InResults
  BY <1>9 DEF IInv, InFlight, InJobs
<1>11. Executing' = Executing /\ InResults' = InResults /\ Busy' = Busy
  BY <1>3 DEF Executing, InResults, Busy
<1>12. InJobs' = InJobs \cup {h}
  BY <1>5 DEF InJobs
<1>13. OnePlaceEach'
  BY <1>3, <1>5, <1>10, <1>11, <1>12 DEF IInv, OnePlaceEach, InJobs
<1>14. RunningNodes' = RunningNodes \cup {h}
  BY <1>3, <1>4, <1>6 DEF RunningNodes, Node, resolved
<1>15. Cardinality(RunningNodes') = Cardinality(RunningNodes) + 1
  BY <1>9, <1>14, Places, FS_AddElement
<1>16. InFlight'
  <2>1. running_count' = Cardinality(RunningNodes')
    BY <1>3, <1>15 DEF IInv, InFlight
  <2>2. running_count' = Len(jobs') + Len(results') + Cardinality(Busy')
    BY <1>3, <1>5, <1>11, Places DEF IInv, InFlight
  <2> QED BY <1>11, <1>12, <1>14, <2>1, <2>2 DEF IInv, InFlight
<1>17. ErrorsKnown'
  <2>1. \A n \in Node : states'[n] = "Failed" <=> states[n] = "Failed"
    BY <1>4, <1>6
  <2> QED BY <1>3, <2>1, Restated DEF IInv, ErrorsKnown, Node, resolved
<1>18. PhaseKnown'
  BY <1>2, <1>3 DEF IInv, PhaseKnown, report
<1>19. NothingForgotten'
  <2>1. \A n \in Node : AllPrereqsDone(states', n) => AllPrereqsDone(states, n)
    BY <1>1, <1>6 DEF AllPrereqsDone, GraphOK, DoneStates
  <2> QED BY <1>3, <1>6, <2>1 DEF IInv, NothingForgotten, Reachable, resolved, NoState,
                                  Node, AllPrereqsDone
<1> QED BY <1>7, <1>8, <1>13, <1>16, <1>17, <1>18, <1>19 DEF IInv

(* Steps that leave the scheduler's own state alone. *)
LEMMA SchedUnchanged ==
  ASSUME IInv, UNCHANGED <<resolved, sched>>
  PROVE  /\ GraphOK' /\ QueueMatchesStates' /\ PrereqsFirst'
         /\ ErrorsKnown' /\ NothingForgotten'
         /\ RunningNodes' = RunningNodes
<1>1. GraphOK' /\ QueueMatchesStates' /\ PrereqsFirst' /\ ErrorsKnown'
  BY DEF IInv, GraphOK, QueueMatchesStates, Queued, PrereqsFirst, AllPrereqsDone,
         ErrorsKnown, Node, resolved, sched
<1>2. NothingForgotten' /\ RunningNodes' = RunningNodes
  BY DEF IInv, NothingForgotten, Reachable, AllPrereqsDone, RunningNodes, Node,
         resolved, sched
<1> QED BY <1>1, <1>2

(* Steps that leave the channels and the workers alone.                    *)
LEMMA ChannelsUnchanged ==
  ASSUME IInv, UNCHANGED <<resolved, sched, channels>>
  PROVE  OnePlaceEach' /\ InFlight'
<1>1. /\ InJobs' = InJobs /\ Executing' = Executing /\ InResults' = InResults
      /\ Busy' = Busy /\ jobs' = jobs /\ results' = results /\ worker' = worker
      /\ running_count' = running_count
  BY DEF InJobs, Executing, InResults, Busy, channels, sched
<1>2. RunningNodes' = RunningNodes
  BY SchedUnchanged
<1>3. OnePlaceEach'
  BY <1>1 DEF IInv, OnePlaceEach
<1>4. InFlight'
  BY <1>1, <1>2 DEF IInv, InFlight
<1> QED BY <1>3, <1>4

(* Going to block on the result channel keeps the invariant.               *)
LEMMA AwaitResultOK == IInv /\ AwaitResult => IInv'
<1> SUFFICES ASSUME IInv, AwaitResult PROVE IInv'
  OBVIOUS
<1>1. /\ HasWork /\ pc' = "wait"
      /\ UNCHANGED <<resolved, sched, channels, report>>
  BY DEF AwaitResult
<1>2. running_count \in 0 .. max_jobs /\ max_jobs > 0
  BY Places, WorkersAssumption, FS_EmptySet, FS_CardinalityType DEF IInv, TypeOK, max_jobs
<1>3. running_count > 0
  BY <1>2, Places DEF AwaitResult, ShouldLaunch, HasWork
<1>4. PhaseKnown'
  BY <1>1, <1>3 DEF IInv, PhaseKnown, AwaitResult, sched, report
<1>5. TypeOK'
  BY <1>1 DEF IInv, TypeOK, resolved, sched, channels, report, max_jobs, Node, JobResult
<1>6. OnePlaceEach' /\ InFlight'
  BY <1>1, ChannelsUnchanged
<1> QED BY <1>1, <1>4, <1>5, <1>6, SchedUnchanged DEF IInv

(* Leaving the dispatch loop keeps the invariant.                          *)
LEMMA LeaveLoopOK == IInv /\ LeaveLoop => IInv'
<1> SUFFICES ASSUME IInv, LeaveLoop PROVE IInv'
  OBVIOUS
<1>1. /\ ~ HasWork /\ pc' = "join"
      /\ UNCHANGED <<resolved, sched, channels, report>>
  BY DEF LeaveLoop
<1>2. running_count = 0 /\ (~ draining => ready_queue = <<>>)
  BY <1>1, Places DEF IInv, TypeOK, HasWork
<1>3. PhaseKnown'
  BY <1>1, <1>2 DEF IInv, PhaseKnown, LeaveLoop, sched, report
<1>4. TypeOK'
  BY <1>1 DEF IInv, TypeOK, resolved, sched, channels, report, max_jobs, Node, JobResult
<1>5. OnePlaceEach' /\ InFlight'
  BY <1>1, ChannelsUnchanged
<1> QED BY <1>1, <1>3, <1>4, <1>5, SchedUnchanged DEF IInv

(* Returning from the build keeps the invariant.                           *)
LEMMA ReturnOK == IInv /\ Return => IInv'
<1> SUFFICES ASSUME IInv, Return PROVE IInv'
  OBVIOUS
<1>1. /\ pc = "join" /\ pc' = "ended"
      /\ outcome' = IF has_error THEN "error" ELSE "ok"
      /\ removed' = IF has_error THEN {} ELSE intermediate_built \ roots
      /\ UNCHANGED <<resolved, sched, channels>>
  BY DEF Return
<1>2. PhaseKnown'
  BY <1>1 DEF IInv, PhaseKnown, sched
<1>3. TypeOK'
  BY <1>1 DEF IInv, TypeOK, resolved, sched, channels, max_jobs, Node, JobResult
<1>4. OnePlaceEach' /\ InFlight'
  BY <1>1, ChannelsUnchanged
<1> QED BY <1>1, <1>2, <1>3, <1>4, SchedUnchanged DEF IInv

(* A job that moves from the channel to a worker is still in one place.    *)
LEMMA TakeJobOK == ASSUME NEW w \in Workers PROVE IInv /\ TakeJob(w) => IInv'
<1> SUFFICES ASSUME IInv, TakeJob(w) PROVE IInv'
  OBVIOUS
<1> DEFINE h == Head(jobs)
<1>1. /\ worker[w] = Idle /\ jobs # <<>>
      /\ worker' = [worker EXCEPT ![w] = h]
      /\ jobs' = Tail(jobs)
      /\ UNCHANGED <<resolved, sched, results, pc, report>>
  BY DEF TakeJob
<1> HIDE DEF h
<1>2. /\ h \in DOMAIN plans /\ h \in InJobs /\ jobs' \in Seq(DOMAIN plans)
      /\ Len(jobs') = Len(jobs) - 1
      /\ IsInjective(jobs') /\ InJobs' = InJobs \ {h}
  BY <1>1, TailRange DEF IInv, TypeOK, OnePlaceEach, InJobs, h
<1>3. worker \in [Workers -> DOMAIN plans \cup {Idle, Exited}]
  BY DEF IInv, TypeOK
<1>4. /\ w \notin Busy /\ Busy' = Busy \cup {w}
      /\ \A v \in Busy : worker'[v] = worker[v]
      /\ worker'[w] = h
  BY <1>1, <1>2, <1>3, Places DEF Busy
<1>5. /\ Executing' = Executing \cup {h}
      /\ InResults' = InResults
  <2>1. Executing' = {worker'[v] : v \in Busy'}
    BY <1>1, <1>2, <1>3, Places DEF Executing, Busy, Range
  <2> QED BY <1>1, <1>4, <2>1, Places DEF InResults
<1>6. TypeOK'
  BY <1>1, <1>2, <1>3 DEF IInv, TypeOK, resolved, sched, report, max_jobs, Node, JobResult
<1>7. h \notin Executing /\ h \notin InResults
  BY <1>2 DEF IInv, OnePlaceEach
<1>8. OnePlaceEach'
  <2>1. \A u, v \in Busy' : worker'[u] = worker'[v] => u = v
    BY <1>4, <1>7, Places DEF IInv, OnePlaceEach
  <2> QED BY <1>1, <1>2, <1>5, <1>7, <2>1 DEF IInv, OnePlaceEach
<1>9. InFlight'
  <2>1. Cardinality(Busy') = Cardinality(Busy) + 1
    BY <1>4, Places, FS_AddElement
  <2>2. running_count' = Len(jobs') + Len(results') + Cardinality(Busy')
    BY <1>1, <1>2, <2>1, Places DEF IInv, InFlight, sched
  <2>3. RunningNodes' = InJobs' \cup Executing' \cup InResults'
    BY <1>1, <1>2, <1>5, SchedUnchanged DEF IInv, InFlight
  <2>4. running_count' = Cardinality(RunningNodes')
    BY <1>1, SchedUnchanged DEF IInv, InFlight, sched
  <2> QED BY <2>2, <2>3, <2>4 DEF InFlight
<1>10. PhaseKnown'
  BY <1>1 DEF IInv, PhaseKnown, sched, report
<1> QED BY <1>1, <1>6, <1>8, <1>9, <1>10, SchedUnchanged DEF IInv

(* A job that moves from a worker to the results is still in one place.    *)
LEMMA FinishJobOK == ASSUME NEW w \in Workers PROVE IInv /\ FinishJob(w) => IInv'
<1> SUFFICES ASSUME IInv, FinishJob(w) PROVE IInv'
  OBVIOUS
<1>1. PICK o \in JobOutcomes :
        results' = Append(results, [target |-> worker[w], rebuilt |-> o.rebuilt, ok |-> o.ok])
  BY DEF FinishJob
<1> DEFINE h == worker[w]
           r == [target |-> h, rebuilt |-> o.rebuilt, ok |-> o.ok]
<1>2. /\ h \notin {Idle, Exited}
      /\ results' = Append(results, r)
      /\ worker' = [worker EXCEPT ![w] = Idle]
      /\ UNCHANGED <<resolved, sched, jobs, pc, report>>
  BY <1>1 DEF FinishJob
<1>3. worker \in [Workers -> DOMAIN plans \cup {Idle, Exited}]
  BY DEF IInv, TypeOK
<1>4. w \in Busy /\ h \in Executing /\ h \in DOMAIN plans
  BY <1>2, <1>3, Places DEF Busy
<1>5. r \in JobResult /\ r.target = h
  BY <1>4 DEF JobResult, JobOutcomes
<1> HIDE DEF h, r
<1>6. /\ results' \in Seq(JobResult) /\ Len(results') = Len(results) + 1
      /\ \A i \in 1 .. Len(results) : results'[i] = results[i]
      /\ results'[Len(results) + 1] = r
  BY <1>2, <1>5, AppendProperties DEF IInv, TypeOK
<1>7. InResults' = InResults \cup {h}
  BY <1>5, <1>6, Places DEF InResults
<1>8. /\ Busy' = Busy \ {w}
      /\ \A v \in Busy' : worker'[v] = worker[v]
  BY <1>2, <1>3 DEF Busy
<1>9. Executing' = Executing \ {h}
  <2>1. Executing' = {worker'[v] : v \in Busy'}
    BY <1>2, <1>3, Places DEF Executing, Busy, Range
  <2>2. \A v \in Busy \ {w} : worker[v] # h
    BY <1>4 DEF IInv, OnePlaceEach, h
  <2> QED BY <1>8, <2>1, <2>2, Places DEF h
<1>10. InJobs' = InJobs
  BY <1>2 DEF InJobs
<1>11. h \notin InJobs /\ h \notin InResults
  BY <1>4 DEF IInv, OnePlaceEach
<1>12. TypeOK'
  BY <1>2, <1>3, <1>6 DEF IInv, TypeOK, resolved, sched, report, max_jobs, Node, JobResult
<1>13. OnePlaceEach'
  <2>1. \A i, j \in 1 .. Len(results') : results'[i].target = results'[j].target => i = j
    <3>1. Len(results) \in Nat
      BY Places
    <3>2. \A i, j \in 1 .. Len(results) : results[i].target = results[j].target => i = j
      BY DEF IInv, OnePlaceEach
    <3>3. \A i \in 1 .. Len(results) : results[i].target # h
      BY <1>11 DEF InResults
    <3>4. \A i \in 1 .. Len(results') : i \in 1 .. Len(results) \/ i = Len(results) + 1
      BY <1>6, <3>1
    <3>5. results'[Len(results) + 1].target = h
      BY <1>5, <1>6
    <3>6. \A i \in 1 .. Len(results) : results'[i].target = results[i].target
      BY <1>6
    <3> QED BY <3>2, <3>3, <3>4, <3>5, <3>6
  <2>2. \A u, v \in Busy' : worker'[u] = worker'[v] => u = v
    BY <1>8 DEF IInv, OnePlaceEach
  <2> QED BY <1>2, <1>7, <1>9, <1>10, <1>11, <2>1, <2>2 DEF IInv, OnePlaceEach
<1>14. InFlight'
  <2>1. Cardinality(Busy') = Cardinality(Busy) - 1
    BY <1>4, <1>8, Places, FS_RemoveElement
  <2>2. running_count' = Len(jobs') + Len(results') + Cardinality(Busy')
    BY <1>2, <1>6, <2>1, Places DEF IInv, InFlight, sched
  <2>3. RunningNodes' = InJobs' \cup Executing' \cup InResults'
    BY <1>2, <1>4, <1>7, <1>9, <1>10, SchedUnchanged DEF IInv, InFlight
  <2>4. running_count' = Cardinality(RunningNodes')
    BY <1>2, SchedUnchanged DEF IInv, InFlight, sched
  <2> QED BY <2>2, <2>3, <2>4 DEF InFlight
<1>15. PhaseKnown'
  BY <1>2 DEF IInv, PhaseKnown, sched, report
<1> QED BY <1>2, <1>12, <1>13, <1>14, <1>15, SchedUnchanged DEF IInv

(* A worker that ends takes no job with it.                                *)
LEMMA ExitWorkerOK == ASSUME NEW w \in Workers PROVE IInv /\ ExitWorker(w) => IInv'
<1> SUFFICES ASSUME IInv, ExitWorker(w) PROVE IInv'
  OBVIOUS
<1>1. /\ worker[w] = Idle
      /\ worker' = [worker EXCEPT ![w] = Exited]
      /\ UNCHANGED <<resolved, sched, jobs, results, pc, report>>
  BY DEF ExitWorker
<1>2. worker \in [Workers -> DOMAIN plans \cup {Idle, Exited}]
  BY DEF IInv, TypeOK
<1>3. Busy' = Busy /\ \A v \in Busy : worker'[v] = worker[v]
  BY <1>1, <1>2, MarkersAssumption DEF Busy
<1>4. Executing' = Executing /\ InJobs' = InJobs /\ InResults' = InResults
  <2>1. Executing' = {worker'[v] : v \in Busy'}
    BY <1>1, <1>2, Places DEF Executing, Busy, Range
  <2> QED BY <1>1, <1>3, <2>1, Places DEF InJobs, InResults
<1>5. TypeOK'
  BY <1>1, <1>2 DEF IInv, TypeOK, resolved, sched, report, max_jobs, Node, JobResult
<1>6. OnePlaceEach' /\ InFlight'
  <2>1. OnePlaceEach'
    BY <1>1, <1>3, <1>4 DEF IInv, OnePlaceEach
  <2>2. running_count' = running_count /\ jobs' = jobs /\ results' = results
    BY <1>1 DEF sched
  <2>3. InFlight'
    BY <1>1, <1>3, <1>4, <2>2, SchedUnchanged DEF IInv, InFlight
  <2> QED BY <2>1, <2>3
<1>7. PhaseKnown'
  BY <1>1 DEF IInv, PhaseKnown, sched, report
<1> QED BY <1>1, <1>5, <1>6, <1>7, SchedUnchanged DEF IInv

(* Completing a node that has no job keeps the invariant.                  *)
LEMMA CompleteWithoutJobOK == IInv /\ CompleteWithoutJob => IInv'
<1> SUFFICES ASSUME IInv, CompleteWithoutJob PROVE IInv'
  OBVIOUS
<1> DEFINE h     == Head(ready_queue)
           done  == [states EXCEPT ![h] = "Done"]
           ready == {n \in DependentsOf(h) : done[n] = NoState /\ AllPrereqsDone(done, n)}
<1>1. /\ GraphOK /\ states \in StatesMap
      /\ QueueOK(ready_queue, states) /\ Ordered(states)
  BY Restated
<1>2. /\ ready_queue # <<>> /\ pc = "dispatch"
      /\ UNCHANGED <<resolved, running_count, has_error, draining,
                     intermediate_built, channels, pc, report>>
  BY DEF CompleteWithoutJob, ShouldLaunch
<1>3. PICK order \in SetToSeqs(ready) :
        /\ ready_queue' = Tail(ready_queue) \o order
        /\ states' = [n \in Node |-> IF n \in ready THEN "Ready" ELSE done[n]]
  BY DEF CompleteWithoutJob, PopReady
<1> HIDE DEF h
<1>4. /\ h \in Node /\ states[h] = "Ready" /\ done \in StatesMap
      /\ QueueOK(Tail(ready_queue), done) /\ Ordered(done)
  BY <1>1, <1>2, DequeueKeeps DEF h
<1>5. \A n \in Node : done[n] = IF n = h THEN "Done" ELSE states[n]
  BY <1>1 DEF StatesMap
<1>6. /\ ready \in SUBSET Node
      /\ \A n \in ready : done[n] = NoState /\ AllPrereqsDone(done, n)
      /\ \A n \in Node :
           h \in prereqs_of[n] /\ done[n] = NoState /\ AllPrereqsDone(done, n)
             => n \in ready
  BY DEF DependentsOf
<1> HIDE DEF done, ready
<1>7. \A n \in Node : AllPrereqsDone(states', n) <=> AllPrereqsDone(done, n)
  BY <1>1, <1>3, <1>6 DEF AllPrereqsDone, GraphOK, DoneStates, NoState
<1>8. Release(done, states', order)
  <2>1. IsFiniteSet(ready)
    BY <1>1, <1>6, FS_Subset DEF GraphOK
  <2>2. order \in Seq(Node) /\ IsInjective(order) /\ Range(order) = ready
    BY <1>3, <1>6, <2>1, OrdersOf, SeqMonotonic
  <2>3. states' \in StatesMap
    BY <1>3, <1>4 DEF StatesMap, TargetState
  <2>4. ready = {n \in Node : done[n] = NoState /\ states'[n] = "Ready"}
    BY <1>3, <1>6 DEF NoState
  <2>5. \A n \in Node : done[n] = NoState => states'[n] \in {NoState, "Ready"}
    BY <1>3
  <2>6. \A n \in Node : done[n] # NoState => states'[n] = done[n]
    BY <1>3, <1>6
  <2>7. \A n \in Node : done[n] = NoState /\ states'[n] \in {"Ready", "Done"}
                         => AllPrereqsDone(states', n)
    BY <1>6, <1>7, <2>4, <2>5 DEF NoState
  <2> QED BY <2>2, <2>3, <2>4, <2>5, <2>6, <2>7 DEF Release, NoState
<1>9. QueueOK(ready_queue', states') /\ Ordered(states')
  BY <1>1, <1>3, <1>4, <1>8, ReleaseKeeps
<1>10. \A n \in Node : states'[n] = IF n \in ready THEN "Ready"
                                    ELSE IF n = h THEN "Done" ELSE states[n]
  BY <1>3, <1>5
<1>11. \A n \in ready : states[n] = NoState /\ n # h
  BY <1>5, <1>6 DEF NoState
<1>12. TypeOK'
  BY <1>2, <1>8, <1>9 DEF IInv, TypeOK, Release, StatesMap, QueueOK, resolved, channels,
                          report, max_jobs, Node, JobResult
<1>13. GraphOK' /\ QueueMatchesStates' /\ PrereqsFirst'
  BY <1>1, <1>2, <1>9 DEF GraphOK, QueueMatchesStates, Queued, QueueOK, PrereqsFirst,
                          Ordered, AllPrereqsDone, Node, resolved
<1>14. RunningNodes' = RunningNodes
  BY <1>2, <1>4, <1>6, <1>10, <1>11 DEF RunningNodes, Node, resolved, NoState
<1>15. /\ InJobs' = InJobs /\ Executing' = Executing /\ InResults' = InResults
       /\ Busy' = Busy /\ jobs' = jobs /\ results' = results /\ worker' = worker
  BY <1>2 DEF InJobs, Executing, InResults, Busy, channels
<1>16. OnePlaceEach' /\ InFlight'
  <2>1. OnePlaceEach'
    BY <1>15 DEF IInv, OnePlaceEach
  <2>2. InFlight'
    BY <1>2, <1>14, <1>15 DEF IInv, InFlight
  <2> QED BY <2>1, <2>2
<1>17. ErrorsKnown'
  <2>1. \A n \in Node : states'[n] = "Failed" <=> states[n] = "Failed"
    BY <1>4, <1>10, <1>11 DEF NoState
  <2> QED BY <1>2, <2>1, Restated DEF IInv, ErrorsKnown, Node, resolved
<1>18. PhaseKnown'
  BY <1>2 DEF IInv, PhaseKnown, report
<1>19. NothingForgotten'
  <2>1. ASSUME NEW n \in Node, states'[n] = NoState, AllPrereqsDone(states', n)
        PROVE  states[n] = NoState /\ AllPrereqsDone(states, n)
    <3>1. n \notin ready /\ states[n] = NoState /\ done[n] = NoState
      BY <1>5, <1>10, <2>1 DEF NoState
    <3>2. AllPrereqsDone(done, n)
      BY <1>7, <2>1
    <3>3. h \notin prereqs_of[n]
      BY <1>6, <3>1, <3>2
    <3> QED BY <1>1, <1>5, <3>1, <3>2, <3>3 DEF AllPrereqsDone, GraphOK
  <2> QED BY <1>2, <2>1 DEF IInv, NothingForgotten, Reachable, resolved, Node, AllPrereqsDone
<1> QED BY <1>12, <1>13, <1>16, <1>17, <1>18, <1>19 DEF IInv

(* What both ways of handling a result do to the nodes. *)
Handled(t) ==
  /\ states' \in StatesMap /\ QueueOK(ready_queue', states') /\ Ordered(states')
  /\ \A n \in Node : states'[n] = "Running" <=> states[n] = "Running" /\ n # t
  /\ has_error' \in BOOLEAN /\ draining' = has_error'
  /\ has_error' => \E n \in DOMAIN plans : states'[n] = "Failed"
  /\ \A n \in Node : states'[n] = "Failed" => has_error'
  /\ ~ has_error' => \A n \in Reachable(prereqs_of, roots) :
                        states'[n] = NoState => ~ AllPrereqsDone(states', n)
  /\ intermediate_built' \subseteq Targets

(* What recording a failure does to the scheduler.                         *)
LEMMA RecordFailureHandles ==
  ASSUME IInv, NEW r \in JobResult, states[r.target] = "Running", RecordFailure(r)
  PROVE  Handled(r.target)
<1> DEFINE t == r.target
<1>1. /\ GraphOK /\ states \in StatesMap
      /\ QueueOK(ready_queue, states) /\ Ordered(states)
      /\ t \in Node /\ t \in DOMAIN plans
  BY Restated DEF JobResult
<1>2. /\ states' = [n \in Node |->
                      IF n = t \/ (states[n] = NoState /\ n \in DependentsOf(t))
                      THEN "Failed" ELSE states[n]]
      /\ has_error' = TRUE /\ draining' = TRUE
      /\ UNCHANGED <<ready_queue, intermediate_built>>
  BY DEF RecordFailure
<1> HIDE DEF t
<1>3. states' \in StatesMap /\ QueueOK(ready_queue', states') /\ Ordered(states')
  BY <1>1, <1>2, FailureKeeps DEF t
<1>4. \A n \in Node : states'[n] = "Running" <=> states[n] = "Running" /\ n # t
  BY <1>2 DEF NoState
<1>5. \E n \in DOMAIN plans : states'[n] = "Failed"
  BY <1>1, <1>2
<1>6. intermediate_built' \subseteq Targets
  BY <1>2 DEF IInv, TypeOK
<1> QED BY <1>2, <1>3, <1>4, <1>5, <1>6 DEF Handled, t

(* What recording a success does to the scheduler.                         *)
LEMMA RecordSuccessHandles ==
  ASSUME IInv, NEW r \in JobResult, states[r.target] = "Running", RecordSuccess(r)
  PROVE  Handled(r.target)
<1> DEFINE t == r.target
           x == IF r.rebuilt THEN "Rebuilt" ELSE "Done"
           s == [states EXCEPT ![t] = x]
<1>1. /\ GraphOK /\ states \in StatesMap
      /\ QueueOK(ready_queue, states) /\ Ordered(states)
      /\ t \in Node /\ t \in DOMAIN plans
  BY Restated DEF JobResult
<1>2. PropagateCompletion(s, t) /\ UNCHANGED <<has_error, draining>>
  BY DEF RecordSuccess
<1>3. s \in StatesMap /\ QueueOK(ready_queue, s) /\ Ordered(s)
  BY <1>1, CompleteKeeps
<1>4. \A n \in Node : s[n] = IF n = t THEN x ELSE states[n]
  BY <1>1 DEF StatesMap
<1>5. x \in {"Done", "Rebuilt"}
  OBVIOUS
<1>6. intermediate_built' \subseteq Targets
  <2>1. IntermediatesOf(t) \subseteq Targets
    BY <1>1 DEF IntermediatesOf, IInv, TypeOK, IsPlanMap, TargetPlan
  <2> QED BY <2>1 DEF RecordSuccess, IInv, TypeOK
<1>7. IInv /\ has_error \in BOOLEAN /\ draining = has_error
      /\ (has_error => \E n \in DOMAIN plans : states[n] = "Failed")
      /\ (\A n \in Node : states[n] = "Failed" => has_error)
      /\ DOMAIN plans \subseteq Node
  BY DEF IInv, TypeOK, ErrorsKnown
<1> HIDE DEF t, x, s
<1>8. CASE has_error /\ ~ keep_going
  <2>1. states' = s /\ ready_queue' = ready_queue
    BY <1>2, <1>8 DEF PropagateCompletion
  <2>2. \E n \in DOMAIN plans : s[n] = "Failed"
    BY <1>4, <1>7, <1>8 DEF t
  <2> QED BY <1>2, <1>3, <1>4, <1>5, <1>6, <1>7, <1>8, <2>1, <2>2 DEF Handled, t
<1>9. CASE ~ (has_error /\ ~ keep_going)
  <2> DEFINE V == DependentsOf(t)
  <2>1. Visit(s, ready_queue, V) /\ V \in SUBSET Node
    BY <1>2, <1>9 DEF PropagateCompletion, DependentsOf
  <2>2. PICK order : /\ ready_queue' = ready_queue \o order
                     /\ Release(s, states', order)
                     /\ Exhausts(s, states', V)
    BY <1>1, <1>3, <2>1, VisitEffect
  <2>3. states' \in StatesMap /\ QueueOK(ready_queue', states') /\ Ordered(states')
    BY <1>1, <1>3, <2>2, ReleaseKeeps DEF Release
  <2>4. \A n \in Node : states'[n] = "Running" <=> states[n] = "Running" /\ n # t
    BY <1>4, <1>5, <2>2 DEF Release, NoState
  <2>5. /\ has_error' => \E n \in DOMAIN plans : states'[n] = "Failed"
        /\ \A n \in Node : states'[n] = "Failed" => has_error'
    <3>1. \A n \in Node : states[n] = "Failed" => states'[n] = "Failed"
      BY <1>4, <2>2 DEF Release, NoState, t
    <3>2. \A n \in Node : states'[n] = "Failed" => \E m \in Node : s[m] = "Failed"
      BY <2>2 DEF Release, NoState
    <3>3. \A m \in Node : s[m] = "Failed" => states[m] = "Failed"
      BY <1>4, <1>5
    <3> QED BY <1>2, <1>7, <3>1, <3>2, <3>3
  <2>6. ASSUME ~ has_error', NEW n \in Reachable(prereqs_of, roots),
               states'[n] = NoState, AllPrereqsDone(states', n)
        PROVE  FALSE
    <3>1. n \in Node /\ s[n] = NoState /\ states[n] = NoState
      BY <1>4, <1>5, <2>2, <2>6 DEF Reachable, Node, Release, NoState
    <3>2. ~ AllPrereqsDone(states, n)
      BY <1>2, <2>6, <3>1 DEF IInv, NothingForgotten
    <3>3. PICK p \in prereqs_of[n] : states[p] \notin DoneStates
      BY <3>2 DEF AllPrereqsDone
    <3>4. p \in Node /\ states'[p] \in DoneStates
      BY <1>1, <2>6, <3>1 DEF GraphOK, AllPrereqsDone
    <3>5. p = t \/ (s[p] = NoState /\ states'[p] = "Done")
      BY <1>4, <2>2, <3>3, <3>4 DEF Release, DoneStates, NoState
    <3>6. n \in V \/ \E m \in prereqs_of[n] : s[m] = NoState /\ states'[m] = "Done"
      BY <3>1, <3>5 DEF DependentsOf
    <3> QED BY <2>2, <2>6, <3>1, <3>6 DEF Exhausts
  <2> QED BY <1>2, <1>6, <1>7, <2>3, <2>4, <2>5, <2>6 DEF Handled, t
<1> QED BY <1>8, <1>9

(* Reading a result and handling it keeps the invariant.                   *)
LEMMA HandleCompletionOK == IInv /\ HandleCompletion => IInv'
<1> SUFFICES ASSUME IInv, HandleCompletion PROVE IInv'
  OBVIOUS
<1> DEFINE r == Head(results)
           t == r.target
<1>1. /\ results # <<>>
      /\ running_count' = running_count - 1
      /\ IF r.ok THEN RecordSuccess(r) ELSE RecordFailure(r)
      /\ results' = Tail(results)
      /\ pc' = "dispatch"
      /\ UNCHANGED <<resolved, jobs, worker, report>>
  BY DEF HandleCompletion
<1>2. /\ r \in JobResult /\ results' \in Seq(JobResult)
      /\ Len(results') = Len(results) - 1 /\ Len(results) > 0
      /\ \A i \in 1 .. Len(results') : results'[i] = results[i + 1]
      /\ r = results[1]
  BY <1>1, HeadTailProperties, EmptySeq DEF IInv, TypeOK
<1>3. t \in InResults /\ t \in RunningNodes
  <2>1. t \in InResults
    BY <1>2, Places DEF InResults
  <2> QED BY <2>1 DEF IInv, InFlight
<1>4. Handled(t)
  BY <1>1, <1>2, <1>3, RecordSuccessHandles, RecordFailureHandles DEF RunningNodes
<1> HIDE DEF r, t
<1>5. InResults' = InResults \ {t}
  <2>1. \A i \in 2 .. Len(results) : results[i].target # t
    BY <1>2, Places DEF IInv, OnePlaceEach, t
  <2>2. ASSUME NEW i \in 1 .. Len(results')
        PROVE  results'[i].target \in InResults \ {t}
    BY <1>2, <2>1, Places DEF InResults
  <2>3. ASSUME NEW i \in 1 .. Len(results), results[i].target # t
        PROVE  results[i].target \in InResults'
    <3>1. i - 1 \in 1 .. Len(results') /\ results'[i - 1] = results[i]
      BY <1>2, <2>3, Places DEF t
    <3> QED BY <3>1 DEF InResults
  <2> QED BY <2>2, <2>3 DEF InResults
<1>6. InJobs' = InJobs /\ Executing' = Executing /\ Busy' = Busy
  BY <1>1 DEF InJobs, Executing, Busy
<1>7. RunningNodes' = RunningNodes \ {t}
  BY <1>1, <1>4 DEF RunningNodes, Handled, Node, resolved
<1>8. Cardinality(RunningNodes') = Cardinality(RunningNodes) - 1
  BY <1>3, <1>7, Places, FS_RemoveElement
<1>9. OnePlaceEach'
  <2>1. \A i, j \in 1 .. Len(results') : results'[i].target = results'[j].target => i = j
    <3> SUFFICES ASSUME NEW i \in 1 .. Len(results'), NEW j \in 1 .. Len(results'),
                        results'[i].target = results'[j].target
                 PROVE  i = j
      OBVIOUS
    <3>1. results[i + 1].target = results[j + 1].target
      BY <1>2
    <3>2. i + 1 = j + 1
      BY <1>2, <3>1, Places DEF IInv, OnePlaceEach
    <3> QED BY <3>2
  <2> QED BY <1>1, <1>5, <1>6, <2>1 DEF IInv, OnePlaceEach
<1>10. InFlight'
  <2>1. running_count' = Cardinality(RunningNodes')
    BY <1>1, <1>8 DEF IInv, InFlight
  <2>2. running_count' = Len(jobs') + Len(results') + Cardinality(Busy')
    BY <1>1, <1>2, <1>6, Places DEF IInv, InFlight
  <2>3. RunningNodes' = InJobs' \cup Executing' \cup InResults'
    BY <1>3, <1>5, <1>6, <1>7 DEF IInv, InFlight, OnePlaceEach
  <2> QED BY <2>1, <2>2, <2>3 DEF InFlight
<1>11. TypeOK'
  <2>1. running_count' \in 0 .. max_jobs
    BY <1>1, <1>2, Places DEF IInv, TypeOK, InFlight
  <2> QED BY <1>1, <1>2, <1>4, <2>1
          DEF IInv, TypeOK, Handled, StatesMap, QueueOK, resolved, report, max_jobs, Node,
              JobResult
<1>12. GraphOK' /\ QueueMatchesStates' /\ PrereqsFirst'
  BY <1>1, <1>4 DEF IInv, Handled, GraphOK, QueueMatchesStates, Queued, QueueOK, PrereqsFirst,
                    Ordered, AllPrereqsDone, Node, resolved
<1>13. ErrorsKnown' /\ NothingForgotten'
  BY <1>1, <1>4 DEF Handled, ErrorsKnown, NothingForgotten, Reachable, AllPrereqsDone, Node,
                    resolved
<1>14. PhaseKnown'
  BY <1>1 DEF IInv, PhaseKnown, HandleCompletion, report
<1> QED BY <1>9, <1>10, <1>11, <1>12, <1>13, <1>14 DEF IInv

(* Every step keeps the invariant.                                         *)
LEMMA NextOK == IInv /\ [Next]_vars => IInv'
<1> SUFFICES ASSUME IInv, [Next]_vars PROVE IInv'
  OBVIOUS
<1>1. ASSUME UNCHANGED vars PROVE IInv'
  <2>1. UNCHANGED <<resolved, sched, channels, pc, report>>
    BY <1>1 DEF vars
  <2>2. TypeOK'
    BY <2>1 DEF IInv, TypeOK, resolved, sched, channels, report, max_jobs, Node, JobResult
  <2>3. PhaseKnown'
    BY <2>1 DEF IInv, PhaseKnown, sched, report
  <2> QED BY <2>1, <2>2, <2>3, SchedUnchanged, ChannelsUnchanged DEF IInv
<1>2. CASE MainThread
  BY <1>2, LaunchJobOK, CompleteWithoutJobOK, AwaitResultOK, LeaveLoopOK,
     HandleCompletionOK, ReturnOK DEF MainThread
<1>3. CASE \E w \in Workers : WorkerThread(w)
  BY <1>3, TakeJobOK, FinishJobOK, ExitWorkerOK DEF WorkerThread
<1>4. CASE Ended
  BY <1>1, <1>4 DEF Ended
<1> QED BY <1>1, <1>2, <1>3, <1>4 DEF Next

(* The inductive invariant holds of every parallel build.                  *)
THEOREM Invariant == Spec => []IInv
<1>1. Init => IInv
  BY InitOK
<1>2. IInv /\ [Next]_vars => IInv'
  BY NextOK
<1> QED BY <1>1, <1>2, PTL DEF Spec
-----------------------------------------------------------------------------
(* The safety properties.                                                  *)

(* The variables keep their types. *)
THEOREM TypeCorrect == Spec => []TypeOK
BY Invariant, PTL DEF IInv

(* No recipe starts before all that its target needs is done. *)
THEOREM NeverTooEarly == Spec => []PrereqsFirst
BY Invariant, PTL DEF IInv

(* The ready queue is exactly the Ready nodes, each of them once. *)
THEOREM QueueExact == Spec => []QueueMatchesStates
BY Invariant, PTL DEF IInv

(* running_count counts the jobs that are somewhere between the threads. *)
THEOREM NothingLost == Spec => []InFlight
BY Invariant, PTL DEF IInv

(* No target is forgotten, counted twice or in two places at once. *)
THEOREM Accounted == Spec => []Accounting
BY Invariant, PTL DEF IInv, Accounting

(* recv_result is called only when a result will come. *)
THEOREM NoHang == Spec => []NeverWaitsInVain
<1>1. IInv => NeverWaitsInVain
  <2> SUFFICES ASSUME IInv, pc = "wait" PROVE InJobs \cup Executing \cup InResults # {}
    BY DEF NeverWaitsInVain
  <2>1. Cardinality(RunningNodes) > 0
    BY DEF IInv, PhaseKnown, InFlight
  <2>2. RunningNodes # {}
    BY <2>1, FS_EmptySet
  <2> QED BY <2>2 DEF IInv, InFlight
<1> QED BY <1>1, Invariant, PTL

(* Nothing is in a channel or a worker once running_count is 0.            *)
LEMMA IdleAtExit ==
  ASSUME IInv, pc \in {"join", "ended"}
  PROVE  running_count = 0 /\ RunningNodes = {}
<1>1. running_count = 0 /\ Cardinality(RunningNodes) = 0
  BY DEF IInv, PhaseKnown, InFlight
<1> QED BY <1>1, Places, FS_EmptySet

(* When the loop is over no recipe runs and no result is unread. *)
THEOREM NothingRunsAtExit == Spec => []QuietExit
<1>1. IInv => QuietExit
  BY IdleAtExit DEF QuietExit, IInv, InFlight
<1> QED BY <1>1, Invariant, PTL

(* The exit status says whether something failed. *)
THEOREM StatusTruthful == Spec => []ErrorReported
<1>1. IInv => ErrorReported
  <2> SUFFICES ASSUME IInv PROVE ErrorReported
    OBVIOUS
  <2>1. has_error <=> \E n \in Node : states[n] = "Failed"
    BY Restated DEF IInv, ErrorsKnown
  <2> QED BY <2>1 DEF IInv, ErrorReported, PhaseKnown
<1> QED BY <1>1, Invariant, PTL

(* What is reachable is closed under prerequisites.                        *)
LEMMA ReachableClosed ==
  ASSUME NEW G, NEW R, G \in [DOMAIN G -> SUBSET DOMAIN G]
  PROVE  /\ R \cap DOMAIN G \subseteq Reachable(G, R)
         /\ \A n \in Reachable(G, R) : G[n] \subseteq Reachable(G, R)
<1>1. ASSUME NEW n \in Reachable(G, R), NEW m \in G[n]
      PROVE  m \in Reachable(G, R)
  <2>1. m \in DOMAIN G
    BY DEF Reachable
  <2> SUFFICES ASSUME NEW S \in SUBSET DOMAIN G, R \cap DOMAIN G \subseteq S,
                      \A k \in S : G[k] \subseteq S
               PROVE  m \in S
    BY <2>1 DEF Reachable
  <2>2. n \in S
    BY DEF Reachable
  <2> QED BY <2>2
<1>2. R \cap DOMAIN G \subseteq Reachable(G, R)
  BY DEF Reachable
<1> QED BY <1>1, <1>2

(* When make returns success, nothing the goals need is left undone.  The  *)
(* absent nodes they reach would have, in an acyclic graph, one that needs *)
(* no other of them; all it needs is done, so it was not forgotten.        *)
THEOREM NothingLeftUndone == Spec => []BuildComplete
<1>1. IInv => BuildComplete
  <2> SUFFICES ASSUME IInv, pc = "ended", outcome = "ok", Acyclic(prereqs_of)
               PROVE  \A n \in Reachable(prereqs_of, roots) : states[n] \in DoneStates
    BY DEF BuildComplete
  <2> DEFINE needed == Reachable(prereqs_of, roots)
             absent == {n \in needed : states[n] = NoState}
  <2>1. /\ ~ has_error /\ ready_queue = <<>>
        /\ \A n \in Node : states[n] # "Failed"
    BY DEF IInv, PhaseKnown, ErrorsKnown
  <2>2. \A n \in Node : states[n] # "Running"
    BY IdleAtExit DEF RunningNodes
  <2>3. \A n \in Node : states[n] # "Ready"
    BY <2>1 DEF IInv, QueueMatchesStates, Queued, Range
  <2>4. \A n \in Node : states[n] = NoState \/ states[n] \in DoneStates
    BY <2>1, <2>2, <2>3 DEF IInv, TypeOK, TargetState
  <2>5. needed \subseteq Node /\ \A n \in needed : prereqs_of[n] \subseteq needed
    BY ReachableClosed DEF IInv, GraphOK, Reachable, Node
  <2>6. absent = {}
    <3> SUFFICES ASSUME absent # {} PROVE FALSE
      OBVIOUS
    <3>1. PICK n \in absent : prereqs_of[n] \cap absent = {}
      BY <2>5 DEF Acyclic, Node
    <3>2. AllPrereqsDone(states, n)
      BY <2>4, <2>5, <3>1 DEF AllPrereqsDone
    <3> QED BY <2>1, <3>1, <3>2 DEF IInv, NothingForgotten
  <2> QED BY <2>4, <2>5, <2>6
<1> QED BY <1>1, Invariant, PTL
-----------------------------------------------------------------------------
(* .WAIT.                                                                  *)

(* The graph is the one new() built, for the whole build. *)
LEMMA GraphFixed == Spec => [](prereqs_of = PrereqsOf(plans))
<1>1. Init => prereqs_of = PrereqsOf(plans)
  BY DEF Init
<1>2. prereqs_of = PrereqsOf(plans) /\ [Next]_vars => (prereqs_of = PrereqsOf(plans))'
  <2> SUFFICES ASSUME [Next]_vars PROVE UNCHANGED resolved
    BY DEF resolved
  <2> QED BY DEF Next, MainThread, WorkerThread, vars, Ended, LaunchJob, CompleteWithoutJob,
                 AwaitResult, LeaveLoop, HandleCompletion, Return, TakeJob, FinishJob,
                 ExitWorker
<1> QED BY <1>1, <1>2, PTL DEF Spec

(* A barrier waits for its group and for the barrier before it; a target   *)
(* of a later group, unless it is listed unguarded, waits for the barrier  *)
(* before its group.                                                       *)
LEMMA BarrierEdges ==
  ASSUME IsPlanMap(plans), prereqs_of = PrereqsOf(plans),
         NEW t \in DOMAIN plans, NEW k \in 1 .. Len(plans[t].wait_groups) - 1
  PROVE  /\ <<t, k>> \in Node
         /\ plans[t].wait_groups[k] \cap DOMAIN plans \subseteq prereqs_of[<<t, k>>]
         /\ k > 1 => <<t, k - 1>> \in prereqs_of[<<t, k>>]
         /\ \A v \in (plans[t].wait_groups[k + 1] \cap DOMAIN plans)
                        \ GloballyUnguarded(plans) :
               <<t, k>> \in prereqs_of[v]
<1> DEFINE b == <<t, k>>
<1>1. Len(plans[t].wait_groups) \in Nat
  BY DEF IsPlanMap, TargetPlan
<1>2. b \in Barriers(plans)
  BY DEF Barriers
<1>3. b \notin DOMAIN plans
  BY <1>1, TargetsAssumption DEF IsPlanMap
<1>4. b \in Node /\ Node = Nodes(plans)
  BY <1>2 DEF Node, Nodes, PrereqsOf
<1>5. prereqs_of[b] = BarrierPrereqs(plans, b)
  BY <1>3, <1>4 DEF PrereqsOf
<1>6. k > 1 => <<t, k - 1>> \in Barriers(plans)
  BY <1>1 DEF Barriers
<1>7. ASSUME NEW v \in (plans[t].wait_groups[k + 1] \cap DOMAIN plans)
                         \ GloballyUnguarded(plans)
      PROVE  b \in prereqs_of[v]
  <2>1. v \in HeldBack(plans, b)
    BY DEF HeldBack
  <2>2. b \in GuardsOf(plans, v)
    BY <1>2, <2>1 DEF GuardsOf
  <2> QED BY <1>4, <2>2 DEF PrereqsOf, Nodes
<1> QED BY <1>4, <1>5, <1>6, <1>7 DEF BarrierPrereqs

(* Once a barrier is done, so are the barriers before it: the first of     *)
(* them that is not, counting back, would be a prerequisite of a done one. *)
LEMMA BarrierChain ==
  ASSUME IsPlanMap(plans), prereqs_of = PrereqsOf(plans), PrereqsFirst,
         NEW t \in DOMAIN plans, NEW k \in 1 .. Len(plans[t].wait_groups) - 1,
         states[<<t, k>>] \in DoneStates, NEW i \in 1 .. k
  PROVE  states[<<t, i>>] \in DoneStates
<1> DEFINE Undone == {m \in Nat : m < k /\ states[<<t, k - m>>] \notin DoneStates}
           less == OpToRel(<, Nat)
<1>1. Len(plans[t].wait_groups) \in Nat
  BY DEF IsPlanMap, TargetPlan
<1>2. Undone = {}
  <2> SUFFICES ASSUME Undone # {} PROVE FALSE
    OBVIOUS
  <2>1. PICK m \in Undone : \A l \in Undone : <<l, m>> \notin less
    <3> HIDE DEF less
    <3>1. IsWellFoundedOn(less, Nat)
      BY NatLessThanWellFounded DEF less
    <3>2. Undone \subseteq Nat
      OBVIOUS
    <3> HIDE DEF Undone
    <3> QED BY <3>1, <3>2, WFMin
  <2>2. m # 0
    OBVIOUS
  <2>3. m - 1 \notin Undone
    <3>1. m - 1 \in Nat /\ m \in Nat /\ m - 1 < m
      BY <2>2
    <3>2. \A x, y \in Nat : x < y => <<x, y>> \in less
      BY DEF OpToRel
    <3> QED BY <2>1, <3>1, <3>2
  <2>4. states[<<t, k - (m - 1)>>] \in DoneStates /\ k - (m - 1) \in 2 .. k
    BY <2>2, <2>3
  <2> DEFINE c == k - (m - 1)
  <2>5. c \in 1 .. Len(plans[t].wait_groups) - 1 /\ c > 1 /\ c - 1 = k - m
    BY <1>1, <2>4
  <2>6. <<t, c - 1>> \in prereqs_of[<<t, c>>] /\ <<t, c>> \in Node
    BY <2>5, BarrierEdges
  <2>7. states[<<t, c - 1>>] \in DoneStates
    BY <2>4, <2>6 DEF PrereqsFirst, AllPrereqsDone, DoneStates, NoState
  <2> QED BY <2>5, <2>7
<1>3. k - i \in Nat /\ k - i < k /\ k - (k - i) = i
  BY <1>1
<1> QED BY <1>2, <1>3

(* A target behind a .WAIT starts only after all that is before it. *)
THEOREM WaitOrder == Spec => []WaitRespected
<1>1. ASSUME IsPlanMap(plans), prereqs_of = PrereqsOf(plans), PrereqsFirst
      PROVE  WaitRespected
  <2> SUFFICES ASSUME NEW t \in DOMAIN plans,
                      NEW i \in 1 .. Len(plans[t].wait_groups),
                      NEW j \in 1 .. Len(plans[t].wait_groups), i < j,
                      NEW u \in plans[t].wait_groups[i] \cap DOMAIN plans,
                      NEW v \in (plans[t].wait_groups[j] \cap DOMAIN plans)
                                   \ GloballyUnguarded(plans),
                      states[v] \notin {NoState, "Failed"}
               PROVE  states[u] \in DoneStates
    BY DEF WaitRespected
  <2> DEFINE k == j - 1
  <2>1. Len(plans[t].wait_groups) \in Nat
    BY <1>1 DEF IsPlanMap, TargetPlan
  <2>2. k \in 1 .. Len(plans[t].wait_groups) - 1 /\ k + 1 = j /\ i \in 1 .. k
    BY <2>1
  <2> HIDE DEF k
  <2>3. v \in Node
    BY <1>1 DEF Node, PrereqsOf, Nodes
  <2>4. <<t, k>> \in prereqs_of[v]
    BY <1>1, <2>2, BarrierEdges
  <2>5. states[<<t, k>>] \in DoneStates
    BY <1>1, <2>3, <2>4 DEF PrereqsFirst, AllPrereqsDone
  <2>6. states[<<t, i>>] \in DoneStates
    BY <1>1, <2>2, <2>5, BarrierChain
  <2>7. i \in 1 .. Len(plans[t].wait_groups) - 1
    BY <2>1
  <2>8. <<t, i>> \in Node /\ u \in prereqs_of[<<t, i>>]
    BY <1>1, <2>7, BarrierEdges
  <2> QED BY <1>1, <2>6, <2>8 DEF PrereqsFirst, AllPrereqsDone, DoneStates, NoState
<1>2. IInv => IsPlanMap(plans) /\ PrereqsFirst
  BY DEF IInv, TypeOK
<1> QED BY <1>1, <1>2, Invariant, GraphFixed, PTL

-----------------------------------------------------------------------------
(* Steps.                                                                  *)

(* What handling a result does to the nodes. *)
LEMMA CompletionEffect ==
  ASSUME IInv, HandleCompletion,
         NEW r, r = Head(results), NEW t, t = r.target
  PROVE  /\ t \in DOMAIN plans /\ t \in Node /\ states[t] = "Running"
         /\ r.ok \in BOOLEAN
         /\ states'[t] \in IF r.ok THEN {"Done", "Rebuilt"} ELSE {"Failed"}
         /\ \A n \in Node \ {t} : states[n] # NoState => states'[n] = states[n]
         /\ \A n \in Node : states[n] = NoState =>
              states'[n] \in IF r.ok THEN {NoState, "Ready", "Done", "Failed"}
                                    ELSE {NoState, "Failed"}
         /\ \A n \in Node : states[n] = NoState /\ states'[n] = "Done" =>
              UpToDate(n) /\ AllPrereqsDone(states', n)
         /\ \A n \in Node : states[n] = NoState /\ states'[n] = "Failed" =>
              ~ r.ok \/ has_error
<1>0. /\ GraphOK /\ states \in StatesMap
      /\ QueueOK(ready_queue, states) /\ Ordered(states)
  BY Restated
<1>1. r \in JobResult /\ t \in InResults
  <2>1. results # <<>> /\ results \in Seq(JobResult)
    BY DEF HandleCompletion, IInv, TypeOK
  <2>2. r \in JobResult /\ r = results[1] /\ 1 \in 1 .. Len(results)
    BY <2>1, HeadTailProperties, EmptySeq
  <2> QED BY <2>2 DEF InResults
<1>2. states[t] = "Running" /\ t \in Node /\ t \in DOMAIN plans /\ r.ok \in BOOLEAN
  BY <1>1 DEF IInv, InFlight, RunningNodes, JobResult
<1>3. CASE ~ r.ok
  <2>1. RecordFailure(r)
    BY <1>3 DEF HandleCompletion
  <2> QED BY <1>2, <1>3, <2>1 DEF RecordFailure, NoState
<1>4. CASE r.ok
  <2> DEFINE x == IF r.rebuilt THEN "Rebuilt" ELSE "Done"
             s == [states EXCEPT ![t] = x]
  <2>1. RecordSuccess(r)
    BY <1>4 DEF HandleCompletion
  <2>2. s \in StatesMap
    BY <1>0, <1>2 DEF StatesMap, TargetState, DoneStates
  <2>3. \A n \in Node : s[n] = IF n = t THEN x ELSE states[n]
    BY <1>0 DEF StatesMap
  <2>4. PropagateCompletion(s, t)
    BY <2>1 DEF RecordSuccess
  <2>5. x \in {"Done", "Rebuilt"}
    OBVIOUS
  <2> HIDE DEF s, x
  <2>6. CASE states' = s
    BY <1>2, <1>4, <2>3, <2>5, <2>6 DEF NoState
  <2>7. CASE Visit(s, ready_queue, DependentsOf(t))
    <3>1. DependentsOf(t) \in SUBSET Node
      BY DEF DependentsOf
    <3>2. PICK order : Release(s, states', order)
      BY <1>0, <2>2, <2>7, <3>1, VisitEffect
    <3>3. \A n \in Node : s[n] = "Failed" => has_error
      BY <2>3, <2>5 DEF IInv, ErrorsKnown
    <3> QED BY <1>2, <1>4, <2>3, <2>5, <3>2, <3>3 DEF Release, NoState
  <2> QED BY <2>4, <2>6, <2>7 DEF PropagateCompletion
<1> QED BY <1>2, <1>3, <1>4

(* A step moves a node only along LegalMoves.                              *)
LEMMA StepMoves ==
  ASSUME IInv, [Next]_vars, NEW n \in Node, states'[n] # states[n]
  PROVE  <<states[n], states'[n]>> \in LegalMoves
<1>0. /\ GraphOK /\ states \in StatesMap
      /\ QueueOK(ready_queue, states) /\ Ordered(states)
  BY Restated
<1>1. CASE UNCHANGED vars
  BY <1>1 DEF vars, sched
<1>2. CASE LaunchJob
  <2>1. states[Head(ready_queue)] = "Ready"
    BY <1>0, <1>2, DequeueKeeps DEF LaunchJob, ShouldLaunch
  <2> QED BY <1>0, <1>2, <2>1 DEF LaunchJob, StatesMap, LegalMoves, DoneStates
<1>3. CASE CompleteWithoutJob
  <2> DEFINE h    == Head(ready_queue)
             done == [states EXCEPT ![h] = "Done"]
             ready == {m \in DependentsOf(h) : done[m] = NoState /\ AllPrereqsDone(done, m)}
  <2>1. states[h] = "Ready"
    BY <1>0, <1>3, DequeueKeeps DEF CompleteWithoutJob, ShouldLaunch
  <2>2. states' = [m \in Node |-> IF m \in ready THEN "Ready" ELSE done[m]]
    BY <1>3 DEF CompleteWithoutJob
  <2>3. done[n] = IF n = h THEN "Done" ELSE states[n]
    BY <1>0 DEF StatesMap
  <2>4. n \in ready => done[n] = NoState
    OBVIOUS
  <2> HIDE DEF ready, done, h
  <2> QED BY <2>1, <2>2, <2>3, <2>4 DEF LegalMoves, DoneStates, NoState
<1>4. CASE HandleCompletion
  BY <1>0, <1>4, CompletionEffect DEF StatesMap, TargetState, LegalMoves, DoneStates, NoState
<1>5. CASE AwaitResult \/ LeaveLoop \/ Return \/ \E w \in Workers : WorkerThread(w)
  BY <1>5 DEF AwaitResult, LeaveLoop, Return, WorkerThread, TakeJob, FinishJob, ExitWorker,
              sched
<1> QED BY <1>1, <1>2, <1>3, <1>4, <1>5 DEF Next, MainThread, Ended

(* A node moves only forward, so no recipe runs twice. *)
THEOREM OnlyForward == Spec => OneWay
<1>1. IInv /\ [Next]_vars =>
        [\A n \in Node : states'[n] # states[n] => <<states[n], states'[n]>> \in LegalMoves]_vars
  BY StepMoves
<1> QED BY <1>1, Invariant, PTL DEF Spec, OneWay

-----------------------------------------------------------------------------
(* The parallel scheduler implements OrderedBuild, for every makefile and  *)
(* every number of workers: each step of the threads is a step of the      *)
(* contract or changes nothing it can see.                                 *)

(* What the contract sees. *)
needs == MakefileGraph(plans)
recipe == {t \in DOMAIN plans : plans[t].recipe}
status == [t \in DOMAIN plans |-> StatusOf(states[t])]
returned == IF outcome = "none" THEN "no" ELSE outcome
Having(st) == {t \in DOMAIN plans : status[t] = st}

(* The status the contract gives each state of the scheduler.              *)
LEMMA StatusValues ==
  /\ StatusOf(NoState) = "todo" /\ StatusOf("Ready") = "todo"
  /\ StatusOf("Running") = "running" /\ StatusOf("Failed") = "failed"
  /\ StatusOf("Done") = "made" /\ StatusOf("Rebuilt") = "made"
BY DEF StatusOf, DoneStates, NoState

(* How the sets of the contract read in the scheduler's terms. *)
LEMMA Seen ==
  ASSUME IInv
  PROVE  /\ DOMAIN needs = DOMAIN plans /\ DOMAIN plans \subseteq Node
         /\ Having("todo") = {t \in DOMAIN plans : states[t] \in {NoState, "Ready"}}
         /\ Having("running") = {t \in DOMAIN plans : states[t] = "Running"}
         /\ Having("made") = {t \in DOMAIN plans : states[t] \in DoneStates}
         /\ Having("failed") = {t \in DOMAIN plans : states[t] = "Failed"}
         /\ \A t \in DOMAIN plans : status[t] = StatusOf(states[t])
<1>1. \A t \in DOMAIN plans : states[t] \in TargetState
  BY DEF IInv, TypeOK
<1>2. \A t \in DOMAIN plans : status[t] = StatusOf(states[t])
  BY DEF status
<1>3. \A t \in DOMAIN plans :
        /\ status[t] = "todo" <=> states[t] \in {NoState, "Ready"}
        /\ status[t] = "running" <=> states[t] = "Running"
        /\ status[t] = "made" <=> states[t] \in DoneStates
        /\ status[t] = "failed" <=> states[t] = "Failed"
  BY <1>1, <1>2, StatusValues DEF TargetState, DoneStates, NoState
<1> HIDE DEF status
<1> QED BY <1>2, <1>3, Restated DEF Having, needs, MakefileGraph

(* What a plan lists is in the graph, so the contract's order is kept. *)
LEMMA NeedsInGraph ==
  ASSUME prereqs_of = PrereqsOf(plans), NEW t \in DOMAIN plans
  PROVE  needs[t] \subseteq prereqs_of[t] /\ needs[t] \subseteq DOMAIN plans
BY DEF needs, MakefileGraph, PrereqsOf, Nodes, PlannedPrereqs

(* A target whose prerequisites are Done has all it needs made.            *)
LEMMA MadeOfDone ==
  ASSUME IInv, prereqs_of = PrereqsOf(plans), NEW t \in DOMAIN plans,
         AllPrereqsDone(states, t)
  PROVE  needs[t] \subseteq Having("made")
BY Seen, NeedsInGraph DEF AllPrereqsDone

(* An up-to-date target has no recipe. *)
LEMMA UpToDateHasNoRecipe ==
  ASSUME IInv, NEW t \in DOMAIN plans, UpToDate(t)
  PROVE  t \notin recipe
BY DEF IInv, TypeOK, IsPlanMap, TargetPlan, UpToDate, recipe

(* Initial states of the scheduler are initial states of the contract.     *)
LEMMA InitRefines == Init => Contract!Init
<1> SUFFICES ASSUME Init PROVE Contract!Init
  OBVIOUS
<1>1. IInv /\ prereqs_of = PrereqsOf(plans)
  BY InitOK DEF Init
<1>2. /\ \A n \in Node : states[n] \in {NoState, "Ready", "Done"}
      /\ \A n \in Node : states[n] = "Done" => UpToDate(n)
  BY <1>1, InitialRelease DEF IInv, Init
<1>3. status \in [DOMAIN plans -> {"todo", "made"}]
  BY <1>1, <1>2, Seen, StatusValues DEF status
<1>4. \A t \in Having("made") : t \notin recipe /\ needs[t] \subseteq Having("made")
  <2> SUFFICES ASSUME NEW t \in Having("made")
               PROVE  t \notin recipe /\ needs[t] \subseteq Having("made")
    OBVIOUS
  <2>1. t \in DOMAIN plans /\ t \in Node /\ states[t] = "Done"
    BY <1>1, <1>2, Seen DEF DoneStates, NoState
  <2>2. AllPrereqsDone(states, t)
    BY <1>1, <2>1 DEF IInv, PrereqsFirst, NoState
  <2> QED BY <1>1, <1>2, <2>1, <2>2, UpToDateHasNoRecipe, MadeOfDone
<1>5. needs \in [DOMAIN plans -> SUBSET DOMAIN plans]
  BY <1>1, NeedsInGraph DEF needs, MakefileGraph
<1>6. DOMAIN plans \subseteq Targets /\ keep_going \in BOOLEAN
  BY <1>1 DEF IInv, TypeOK, IsPlanMap
<1>7. recipe \subseteq DOMAIN plans /\ returned = "no"
  BY DEF recipe, returned, Init
<1>8. DOMAIN needs = DOMAIN plans
  BY DEF needs, MakefileGraph
<1> QED BY <1>3, <1>4, <1>5, <1>6, <1>7, <1>8
        DEF Contract!Init, Contract!Planned, Contract!With, needs, recipe, status, returned, Having

(* The contract's constants of a build stay as they are. *)
LEMMA FixedKept ==
  ASSUME UNCHANGED resolved
  PROVE  /\ needs' = needs /\ recipe' = recipe /\ keep_going' = keep_going
         /\ DOMAIN plans' = DOMAIN plans
         /\ status' = [t \in DOMAIN plans |-> StatusOf(states'[t])]
BY DEF resolved, needs, recipe, status, MakefileGraph, PlannedPrereqs

(* A step the contract cannot see.                                         *)
LEMMA StutterRefines ==
  ASSUME UNCHANGED resolved, outcome' = outcome,
         \A t \in DOMAIN plans : StatusOf(states'[t]) = StatusOf(states[t])
  PROVE  UNCHANGED Contract!vars
<1>1. UNCHANGED <<needs, recipe, keep_going>> /\ status' = status /\ returned' = returned
  BY FixedKept DEF status, returned
<1> QED BY <1>1 DEF Contract!vars, Contract!fixed, needs, recipe, status, returned

(* The contract's Cardinality is that of FiniteSets.                       *)
LEMMA SameCardinality == \A S : Contract!Cardinality(S) = Cardinality(S)
BY DEF Contract!Cardinality, Cardinality

(* The contract's sets of targets are the ones named here.                 *)
LEMMA SameSets ==
  /\ Contract!Planned = DOMAIN plans
  /\ \A st : Contract!With(st) = Having(st)
BY DEF Contract!Planned, Contract!With, Having, status, MakefileGraph

(* Launching a job starts a target of the contract.                        *)
LEMMA LaunchRefines ==
  ASSUME IInv, prereqs_of = PrereqsOf(plans), LaunchJob
  PROVE  Contract!Next
<1> DEFINE h == Head(ready_queue)
<1>1. /\ states[h] = "Ready" /\ h \in Node /\ h \in DOMAIN plans /\ plans[h].recipe
      /\ states' = [states EXCEPT ![h] = "Running"]
      /\ running_count < max_jobs /\ ~ draining /\ outcome = "none"
      /\ UNCHANGED <<resolved, report>>
  BY Restated, DequeueKeeps DEF LaunchJob, ShouldLaunch, HasJob, IInv, PhaseKnown
<1> HIDE DEF h
<1>2. status[h] = "todo" /\ h \in recipe /\ returned = "no"
  BY <1>1, Seen, StatusValues DEF recipe, returned
<1>3. needs[h] \subseteq Having("made")
  BY <1>1, MadeOfDone DEF IInv, PrereqsFirst, NoState
<1>4. Cardinality(Having("running")) < max_jobs
  <2>1. Having("running") \subseteq RunningNodes
    BY Seen DEF RunningNodes
  <2>2. /\ Cardinality(Having("running")) <= Cardinality(RunningNodes)
        /\ Cardinality(Having("running")) \in Nat
    BY <2>1, Places, FS_Subset, FS_CardinalityType
  <2>3. Cardinality(RunningNodes) = running_count
    BY DEF IInv, InFlight
  <2> QED BY <1>1, <2>2, <2>3, Places
<1>5. Having("failed") = {}
  BY <1>1, Seen DEF IInv, ErrorsKnown
<1>6. status' = [status EXCEPT ![h] = "running"]
  <2>1. \A t \in DOMAIN plans : states'[t] = IF t = h THEN "Running" ELSE states[t]
    BY <1>1, Restated DEF StatesMap
  <2>2. status' = [t \in DOMAIN plans |-> IF t = h THEN "running" ELSE StatusOf(states[t])]
    BY <1>1, <2>1, FixedKept, StatusValues
  <2> QED BY <1>1, <2>2 DEF status
<1>7. UNCHANGED <<needs, recipe, keep_going>> /\ returned' = returned
  BY <1>1, FixedKept DEF returned, report
<1>8. Contract!Start(h)
  <2>1. Cardinality(Contract!With("running")) < max_jobs
    BY <1>4, SameSets
  <2>2. Contract!Cardinality(Contract!With("running")) < max_jobs
    BY <2>1, SameCardinality
  <2>3. Contract!With("failed") = {} /\ needs[h] \subseteq Contract!With("made")
    BY <1>3, <1>5, SameSets
  <2> QED BY <1>2, <1>6, <1>7, <2>2, <2>3
          DEF Contract!Start, Contract!fixed, needs, recipe, status, returned
<1>9. h \in Contract!Planned
  BY <1>1 DEF Contract!Planned, MakefileGraph
<1> QED BY <1>8, <1>9 DEF Contract!Next

(* Completing without a job settles a target, or is a barrier.             *)
LEMMA CompleteWithoutJobRefines ==
  ASSUME IInv, prereqs_of = PrereqsOf(plans), CompleteWithoutJob
  PROVE  Contract!Next \/ UNCHANGED Contract!vars
<1> DEFINE h     == Head(ready_queue)
           done  == [states EXCEPT ![h] = "Done"]
           ready == {n \in DependentsOf(h) : done[n] = NoState /\ AllPrereqsDone(done, n)}
<1>1. /\ states[h] = "Ready" /\ h \in Node /\ ~ HasJob(h)
      /\ states' = [n \in Node |-> IF n \in ready THEN "Ready" ELSE done[n]]
      /\ outcome = "none"
      /\ UNCHANGED <<resolved, report>>
  BY Restated, DequeueKeeps DEF CompleteWithoutJob, ShouldLaunch, IInv, PhaseKnown
<1>2. \A n \in Node : done[n] = IF n = h THEN "Done" ELSE states[n]
  BY Restated DEF StatesMap
<1>3. \A n \in ready : done[n] = NoState
  OBVIOUS
<1> HIDE DEF h, done, ready
<1>4. \A t \in DOMAIN plans :
        StatusOf(states'[t]) = IF t = h THEN "made" ELSE StatusOf(states[t])
  BY <1>1, <1>2, <1>3, Restated, StatusValues DEF NoState
<1>5. CASE h \notin DOMAIN plans
  BY <1>1, <1>4, <1>5, StutterRefines DEF report
<1>6. CASE h \in DOMAIN plans
  <2>1. status[h] = "todo" /\ h \notin recipe /\ returned = "no"
    BY <1>1, <1>6, Seen, StatusValues DEF recipe, returned, HasJob
  <2>2. needs[h] \subseteq Having("made")
    BY <1>1, <1>6, MadeOfDone DEF IInv, PrereqsFirst, NoState
  <2>3. status' = [status EXCEPT ![h] = "made"]
    BY <1>1, <1>4, FixedKept DEF status
  <2>4. UNCHANGED <<needs, recipe, keep_going>> /\ returned' = returned
    BY <1>1, FixedKept DEF returned, report
  <2>5. Contract!Settle(h)
    BY <2>1, <2>2, <2>3, <2>4
       DEF Contract!Settle, Contract!With, Contract!Planned, Contract!fixed,
           Having, needs, recipe, status, returned, MakefileGraph
  <2>6. h \in Contract!Planned
    BY <1>6 DEF Contract!Planned, MakefileGraph
  <2> QED BY <2>5, <2>6 DEF Contract!Next
<1> QED BY <1>5, <1>6

(* Handling a result finishes a target of the contract.                    *)
LEMMA HandleCompletionRefines ==
  ASSUME IInv, prereqs_of = PrereqsOf(plans), HandleCompletion
  PROVE  Contract!Next
<1> DEFINE r == Head(results)
           t == r.target
           S == {u \in DOMAIN plans : states[u] = NoState /\ states'[u] = "Done"}
           F == {u \in DOMAIN plans : states[u] = NoState /\ states'[u] = "Failed"}
<1>1. /\ t \in DOMAIN plans /\ t \in Node /\ states[t] = "Running"
      /\ r.ok \in BOOLEAN
      /\ states'[t] \in IF r.ok THEN {"Done", "Rebuilt"} ELSE {"Failed"}
      /\ \A n \in Node \ {t} : states[n] # NoState => states'[n] = states[n]
      /\ \A n \in Node : states[n] = NoState =>
           states'[n] \in IF r.ok THEN {NoState, "Ready", "Done", "Failed"}
                                 ELSE {NoState, "Failed"}
      /\ \A n \in Node : states[n] = NoState /\ states'[n] = "Done" =>
           UpToDate(n) /\ AllPrereqsDone(states', n)
      /\ \A n \in Node : states[n] = NoState /\ states'[n] = "Failed" =>
           ~ r.ok \/ has_error
  BY CompletionEffect
<1>2. UNCHANGED <<resolved, report>>
  BY DEF HandleCompletion
<1> HIDE DEF r, t
<1>3. status[t] = "running"
  BY <1>1, Seen, StatusValues
<1>4. S \subseteq Having("todo") \ recipe /\ F \subseteq Having("todo")
  BY <1>1, Seen, UpToDateHasNoRecipe
<1>5. \A u \in S : needs[u] \subseteq Having("made") \cup {t} \cup S
  <2> SUFFICES ASSUME NEW u \in S, NEW p \in needs[u]
               PROVE  p \in Having("made") \cup {t} \cup S
    OBVIOUS
  <2>1. p \in prereqs_of[u] /\ p \in DOMAIN plans /\ p \in Node
    BY NeedsInGraph, Seen
  <2>2. states'[p] \in DoneStates
    BY <1>1, <2>1, Seen DEF AllPrereqsDone
  <2>3. CASE p # t /\ states[p] # NoState
    BY <1>1, <2>1, <2>2, <2>3, Seen
  <2>4. CASE states[p] = NoState
    BY <1>1, <2>1, <2>2, <2>4 DEF DoneStates, NoState
  <2> QED BY <2>3, <2>4
<1>6. r.ok => F = {} \/ Having("failed") # {}
  BY <1>1, Seen DEF IInv, ErrorsKnown
<1>7. ~ r.ok => S = {}
  BY <1>1, Seen DEF NoState
<1>8. S \cap F = {} /\ t \notin S /\ t \notin F
  BY <1>1 DEF NoState
<1>9. status' = [u \in DOMAIN plans |->
                   CASE u = t       -> IF r.ok THEN "made" ELSE "failed"
                     [] u \in S     -> "made"
                     [] u \in F \ S -> "failed"
                     [] OTHER       -> status[u]]
  <2>1. StatusOf(states'[t]) = IF r.ok THEN "made" ELSE "failed"
    BY <1>1, StatusValues
  <2>2. ASSUME NEW u \in DOMAIN plans, u # t
        PROVE  StatusOf(states'[u]) = IF u \in S THEN "made"
                                      ELSE IF u \in F THEN "failed" ELSE status[u]
    <3>1. CASE states[u] # NoState
      BY <1>1, <2>2, <3>1, Seen
    <3>2. CASE states[u] = NoState
      <4>1. states'[u] \in {NoState, "Ready", "Done", "Failed"}
        BY <1>1, <3>2, Seen
      <4>2. status[u] = "todo"
        BY <3>2, Seen, StatusValues
      <4> QED BY <3>2, <4>1, <4>2, StatusValues DEF NoState
    <3> QED BY <3>1, <3>2
  <2>3. status' = [u \in DOMAIN plans |-> StatusOf(states'[u])]
    BY <1>2, FixedKept
  <2> HIDE DEF S, F
  <2> QED BY <1>8, <2>1, <2>2, <2>3
<1>10. UNCHANGED <<needs, recipe, keep_going>> /\ returned' = returned
  BY <1>2, FixedKept DEF returned, report
<1> HIDE DEF S, F
<1>11. S \in IF r.ok THEN Contract!Settling(Contract!With("made") \cup {t}) ELSE {{}}
  <2>1. CASE ~ r.ok
    BY <1>7, <2>1
  <2>2. CASE r.ok
    <3>1. S \in SUBSET (Contract!With("todo") \ recipe)
      BY <1>4, SameSets
    <3>2. \A u \in S : needs[u] \subseteq Contract!With("made") \cup {t} \cup S
      BY <1>5, SameSets
    <3> QED BY <2>2, <3>1, <3>2 DEF Contract!Settling, needs, recipe
  <2> QED BY <1>1, <2>1, <2>2
<1>12. F \in Contract!GivenUp(~ r.ok \/ Contract!With("failed") # {})
  <2>1. F \subseteq Contract!With("todo")
    BY <1>4, SameSets
  <2>2. r.ok => F = {} \/ Contract!With("failed") # {}
    BY <1>6, SameSets
  <2> QED BY <1>1, <2>1, <2>2 DEF Contract!GivenUp
<1>13. Contract!Finish(t)
  <2>1. status' = [u \in Contract!Planned |->
                     CASE u = t       -> IF r.ok THEN "made" ELSE "failed"
                       [] u \in S     -> "made"
                       [] u \in F \ S -> "failed"
                       [] OTHER       -> status[u]]
    BY <1>9, SameSets
  <2>2. \E ok \in BOOLEAN :
        \E U \in IF ok THEN Contract!Settling(Contract!With("made") \cup {t}) ELSE {{}} :
        \E G \in Contract!GivenUp(~ ok \/ Contract!With("failed") # {}) :
          status' = [u \in Contract!Planned |->
                       CASE u = t       -> IF ok THEN "made" ELSE "failed"
                         [] u \in U     -> "made"
                         [] u \in G \ U -> "failed"
                         [] OTHER       -> status[u]]
    BY <1>1, <1>11, <1>12, <2>1, Zenon
  <2> QED BY <1>3, <1>10, <2>2
          DEF Contract!Finish, Contract!fixed, needs, recipe, status, returned
<1>14. t \in Contract!Planned
  BY <1>1, SameSets
<1> QED BY <1>13, <1>14 DEF Contract!Next

(* Returning returns.                                                      *)
LEMMA ReturnRefines ==
  ASSUME IInv, Return
  PROVE  Contract!Next
<1>1. /\ pc = "join" /\ outcome' = IF has_error THEN "error" ELSE "ok"
      /\ UNCHANGED <<resolved, sched>>
  BY DEF Return
<1>2. outcome = "none"
  BY <1>1 DEF IInv, PhaseKnown
<1>3. Having("running") = {}
  BY <1>1, IdleAtExit, Seen DEF RunningNodes
<1>4. Having("failed") = {} <=> ~ has_error
  BY Seen DEF IInv, ErrorsKnown
<1>5. UNCHANGED <<needs, recipe, keep_going>> /\ status' = status
  BY <1>1, FixedKept DEF status, sched
<1>6. returned = "no" /\ returned' = IF Having("failed") = {} THEN "ok" ELSE "error"
  BY <1>1, <1>2, <1>4 DEF returned
<1>7. Contract!With("running") = {} /\ (Contract!With("failed") = {} <=> Having("failed") = {})
  BY <1>3, SameSets
<1>8. Contract!Return
  BY <1>5, <1>6, <1>7 DEF Contract!Return, Contract!fixed, needs, recipe, status, returned
<1> QED BY <1>8 DEF Contract!Next

(* The parallel build, with its threads, channels, queue and barriers,     *)
(* keeps the contract.                                                     *)
THEOREM Refinement == Spec => ImplementsContract
<1>1. Init => Contract!Init
  BY InitRefines
<1>2. IInv /\ prereqs_of = PrereqsOf(plans) /\ [Next]_vars => [Contract!Next]_(Contract!vars)
  <2> SUFFICES ASSUME IInv, prereqs_of = PrereqsOf(plans), [Next]_vars
               PROVE  Contract!Next \/ UNCHANGED Contract!vars
    OBVIOUS
  <2>1. CASE LaunchJob
    BY <2>1, LaunchRefines
  <2>2. CASE CompleteWithoutJob
    BY <2>2, CompleteWithoutJobRefines
  <2>3. CASE HandleCompletion
    BY <2>3, HandleCompletionRefines
  <2>4. CASE Return
    BY <2>4, ReturnRefines
  <2>5. CASE AwaitResult \/ LeaveLoop \/ (\E w \in Workers : WorkerThread(w)) \/ UNCHANGED vars
    <3>1. UNCHANGED resolved /\ states' = states /\ outcome' = outcome
      BY <2>5 DEF AwaitResult, LeaveLoop, WorkerThread, TakeJob, FinishJob, ExitWorker, sched,
                  report, vars
    <3> QED BY <3>1, StutterRefines
  <2> QED BY <2>1, <2>2, <2>3, <2>4, <2>5 DEF Next, MainThread, Ended
<1> QED BY <1>1, <1>2, Invariant, GraphFixed, PTL DEF Spec, ImplementsContract, Contract!Spec

=============================================================================
