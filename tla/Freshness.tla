----------------------------- MODULE Freshness -----------------------------
(***************************************************************************)
(* The out-of-date test of exec/mod.rs, on makefiles of explicit rules:    *)
(* effective_mtime, the pre-check of build_with_rules and needs_rebuild.   *)
(*                                                                         *)
(* A test is a pure function of the times the executor believes: view[f],  *)
(* what file_mtime answers for f, 0 if it answers None.  Every file_mtime  *)
(* is remembered in mtime_cache, so each test comes with the set of files  *)
(* it asks for (its reads), which depends on where it stops.               *)
(*                                                                         *)
(* Left out: VPATH and GPATH, -W, second expansion, pattern rules,         *)
(* .SECONDARY and .NOTINTERMEDIATE.  In this fragment a prerequisite is    *)
(* always explicitly mentioned.                                            *)
(***************************************************************************)
EXTENDS Integers, Sequences, FiniteSets

CONSTANTS Files,
          MaxDepth    \* effective_mtime gives up below this depth; 10 in the code

ASSUME DepthAssumption == MaxDepth \in Nat

(* A makefile as the parser leaves it, one rule per target: rules with the *)
(* same single-colon target are merged.  recipe "empty" is `t: p ;`, a     *)
(* recipe with nothing to run.  siblings are the other targets of a        *)
(* grouped rule (&:).  may_fail and writes say what the recipes do.        *)
IsMakefile(mk) ==
  /\ mk.ruled \subseteq Files
  /\ \A f \in Files \ mk.ruled :
       mk.prereqs[f] = <<>> /\ mk.order_only[f] = <<>> /\ mk.recipe[f] = "none"
  /\ mk.prereqs \in [Files -> Seq(Files)] /\ mk.order_only \in [Files -> Seq(Files)]
  /\ mk.recipe \in [Files -> {"none", "empty", "cmd"}]
  /\ mk.siblings \in [Files -> SUBSET Files]
  /\ \A f \in Files : IsFiniteSet(mk.siblings[f]) /\ f \notin mk.siblings[f]
                     /\ \A s \in mk.siblings[f] : f \in mk.siblings[s]
  /\ mk.phony \subseteq Files /\ mk.intermediate \subseteq Files
  /\ mk.may_fail \subseteq Files /\ mk.writes \in [Files -> SUBSET Files]
  /\ mk.goals \in Seq(Files) /\ mk.delete_on_error \in BOOLEAN

(* The indices of a list that a search for Hit looks at: up to the first.  *)
Scanned(list, Hit(_)) ==
  {i \in DOMAIN list : \A j \in DOMAIN list : j < i => ~Hit(list[j])}

Found(list, Hit(_)) == \E i \in DOMAIN list : Hit(list[i])

Reads(list, Hit(_), ReadsOf(_)) ==
  UNION {ReadsOf(list[i]) : i \in Scanned(list, Hit)}

Latest(S) == CHOOSE m \in S \cup {0} : \A n \in S : n <= m
-----------------------------------------------------------------------------
(* A fault: only the file itself is looked at. *)
OwnMtime(mk, view, now) == [f \in Files |-> [time |-> view[f], reads |-> {f}]]

(* When f was made, given when what it needs was made: now if f is present *)
(* but would be made again, and for a file that is not there when it could *)
(* have been made.  0 is None.                                             *)
EffectiveAbove(mk, view, now, below) ==
  [f \in Files |->
     LET newer(p) == below[p].time > view[f]
         readsBelow(p) == below[p].reads
         from == IF f \in mk.ruled THEN mk.prereqs[f] ELSE <<>>
     IN  IF view[f] > 0
         THEN [time  |-> IF Found(from, newer) THEN now ELSE view[f],
               reads |-> {f} \cup Reads(from, newer, readsBelow)]
         ELSE IF f \in mk.phony
         THEN [time |-> now, reads |-> {f}]
         ELSE [time  |-> Latest({below[from[i]].time : i \in DOMAIN from}),
               reads |-> {f} \cup UNION {readsBelow(from[i]) : i \in DOMAIN from}] ]

(* The answer when so many levels are looked at: 0 is given for what is    *)
(* below the last of them.                                                 *)
EffectiveTo(mk, view, now, levels) ==
  LET eff[n \in 0 .. levels] ==
        IF n = 0 THEN [f \in Files |-> [time |-> 0, reads |-> {}]]
        ELSE EffectiveAbove(mk, view, now, eff[n - 1])
  IN  eff[levels]

(* A fault: it gives up a level too soon. *)
GivingUpEarly(mk, view, now) == EffectiveTo(mk, view, now, MaxDepth)

(* effective_mtime: the code counts depth from 0 up to 10. *)
EffectiveMtime(mk, view, now) == EffectiveTo(mk, view, now, MaxDepth + 1)

(* A deleted intermediate file: its absence alone rebuilds nothing. *)
Skippable(mk, view, p) == view[p] = 0 /\ p \in mk.intermediate /\ p \notin mk.phony

(* A fault: nothing is found fresh before its prerequisites are built. *)
NoPreCheck(mk, view, now, t) == [fresh |-> FALSE, reads |-> {}]

(* The pre-check: t exists, and nothing it needs makes it out of date, so  *)
(* that its prerequisites are not even visited.                            *)
PreCheck(mk, view, now, t) ==
  LET eff == EffectiveMtime(mk, view, now)
      newer(p) == \/ p \in mk.phony
                  \/ view[p] = 0 /\ p \notin mk.intermediate
                  \/ view[p] > 0 /\ eff[p].time > view[t]
      readsOf(p) == IF p \in mk.phony THEN {}
                    ELSE IF view[p] > 0 THEN {p} \cup eff[p].reads ELSE {p}
  IN  IF t \in mk.phony THEN [fresh |-> FALSE, reads |-> {}]
      ELSE IF view[t] = 0 THEN [fresh |-> FALSE, reads |-> {t}]
      ELSE [fresh |-> ~Found(mk.prereqs[t], newer),
            reads |-> {t} \cup Reads(mk.prereqs[t], newer, readsOf)]

(* needs_rebuild, once the prerequisites are built: whether t is stale.    *)
(* A prerequisite that is not there is infinitely new, but for an          *)
(* intermediate one whose recipe has not run.                              *)
NeedsRebuild(mk, view, now, built, t, any_prereq_rebuilt) ==
  LET eff == EffectiveMtime(mk, view, now)
      newer(p) == IF view[p] > 0 THEN view[p] > view[t]
                  ELSE \/ p \in mk.phony \/ built[p] = "rebuilt"
                       \/ p \notin mk.intermediate
                       \/ eff[p].time > view[t]
      readsOf(p) == {p} \cup IF Skippable(mk, view, p) /\ built[p] # "rebuilt"
                             THEN eff[p].reads ELSE {}
  IN  IF any_prereq_rebuilt THEN [stale |-> TRUE, reads |-> {}]
      ELSE IF view[t] = 0 THEN [stale |-> TRUE, reads |-> {t}]
      ELSE [stale |-> Found(mk.prereqs[t], newer),
            reads |-> {t} \cup Reads(mk.prereqs[t], newer, readsOf)]
=============================================================================
