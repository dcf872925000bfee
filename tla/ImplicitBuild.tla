--------------------------- MODULE ImplicitBuild ---------------------------
(***************************************************************************)
(* A sequential build by pattern rules: find_pattern_rule and its memory,  *)
(* build_with_pattern_rule, the out-of-date tests with the pattern rules   *)
(* they look up, and the removal of intermediate files.  A second build    *)
(* follows a first that succeeds.                                          *)
(*                                                                         *)
(* The walk from target to target is that of BuildWalk, which has what is  *)
(* left out here: rules with explicit prerequisites and order-only ones.   *)
(* A target with an explicit rule has a recipe and no prerequisites here.  *)
(* Left out, too: second expansion, -B, -W, -n, -q, --shuffle,             *)
(* .EXTRA_PREREQS, .DEFAULT and the collection of plans.                   *)
(***************************************************************************)
EXTENDS ImplicitRules

CONSTANTS MaxDepth,       \* effective_mtime gives up below this depth; 10 in the code
          Given           \* databases, goals, recipes, and the times of the files at first

VARIABLES
  given,     \* the database, the goals, and what the recipes do
  disk, clock,                            \* when each file was written, 0 if it is not there
  pattern_rule_cache,                     \* the answers given so far
  mtime_cache,                            \* the times looked up so far, 0 for none
  built, failed_targets, circular_dropped, intermediate_built,
  stack,     \* the targets being built by pattern rules, the last one first
  goals, errors,
  ret,       \* what the last call returned, until it is looked at
  log,       \* history: the pattern rules whose recipes ran
  explicit,  \* history: the explicit rules whose recipes ran
  round, outcome

files == <<disk, clock>>
caches == <<pattern_rule_cache, mtime_cache>>
memo == <<built, failed_targets, circular_dropped, intermediate_built>>
history == <<log, explicit>>
vars == <<given, files, caches, memo, stack, goals, errors, ret, history, round, outcome>>

db == given.db
rules == Searched(db)
top == Head(stack)
Wanted == IF stack = <<>> THEN Head(goals) ELSE Head(top.todo)
Calling == outcome = "none" /\ ret = "none"
             /\ IF stack = <<>> THEN goals # <<>> ELSE top.todo # <<>>
building == {stack[i].target : i \in DOMAIN stack}
World == [db |-> db, present |-> {f \in Files : disk[f] > 0}, building |-> building]
-----------------------------------------------------------------------------
(* Times, and the rules looked up for them.  A time comes with the set of  *)
(* what was looked up, <<"rule", f>> or <<"time", f>>.                     *)

Ask(f) == IF f \in DOMAIN pattern_rule_cache THEN pattern_rule_cache[f]
          ELSE find_pattern_rule(World, f)

file_mtime(f) == IF f \in DOMAIN mtime_cache THEN mtime_cache[f] ELSE disk[f]

Those(kind, asked) == {look[2] : look \in {l \in asked : l[1] = kind}}
RuleOf(f) == {<<"rule", f>>}
OwnTime(f) == {<<"time", f>>}

(* What is looked up is remembered.  A recipe has the remembered time of   *)
(* its target replaced, not those of the other files it writes.            *)
Remembering(asked, written) ==
  /\ pattern_rule_cache' = [f \in DOMAIN pattern_rule_cache \cup Those("rule", asked) |-> Ask(f)]
  /\ mtime_cache' = [f \in DOMAIN mtime_cache \cup Those("time", asked) |->
                       IF f \in written THEN clock ELSE file_mtime(f)]

InVpath(f) ==
  LET first == CHOOSE i \in Copies(World, f) : \A j \in Copies(World, f) : i <= j
  IN  <<db.vpath[first]>> \o f

(* The time of f, or of its copy in a directory of VPATH. *)
TimeIn(f, times) ==
  IF f \in Files /\ times[f] > 0 THEN times[f]
  ELSE IF find_in_vpath(World, f) THEN times[InVpath(f)] ELSE 0

Mtime(f) == TimeIn(f, [g \in Files |-> file_mtime(g)])
TimeOf(f) ==
  UNION {OwnTime(g) : g \in {f} \cap Files}
    \cup IF ~(f \in Files /\ file_mtime(f) > 0) /\ find_in_vpath(World, f)
         THEN OwnTime(InVpath(f)) ELSE {}

Present(f) == f \in World.present \/ find_in_vpath(World, f)

FoundPrereqs(f) == Ask(f).prereqs

Also(asked, answer) == [answer EXCEPT !.asked = @ \cup asked]

(* Whether a list has a hit, and what was looked up until the first one.   *)
FirstHit(verdicts) ==
  LET hit == SelectInSeq(verdicts, LAMBDA v : v.newer)
  IN  [newer |-> hit # 0,
       asked |-> UNION {verdicts[i].asked :
                          i \in {j \in DOMAIN verdicts : hit = 0 \/ j <= hit}}]

(* The latest of the times below, for a file that is not there. *)
Supposed(f, below) ==
  [time |-> Max({e.time : e \in ToSet(below)} \cup {0}),
   asked |-> RuleOf(f) \cup UNION {e.asked : e \in ToSet(below)}]

(* A fault: a file that is there is as old as it is. *)
JudgedAlone(f, own, below) == [time |-> own, asked |-> RuleOf(f)]

(* Its own, or now when it is older than something below. *)
Judged(f, own, below) ==
  LET found == FirstHit([i \in DOMAIN below |->
                           [newer |-> below[i].time > own, asked |-> below[i].asked]])
  IN  [time |-> IF found.newer THEN clock ELSE own, asked |-> RuleOf(f) \cup found.asked]

EffectiveOver(f, own, below) == IF own = 0 THEN Supposed(f, below) ELSE Judged(f, own, below)

(* When f was made, now if it would be made again, and for a file that is  *)
(* not there when it could have been made; 0 is unknown.                   *)
RECURSIVE effective_mtime(_, _), Times(_, _)
Times(prereqs, depth) == [i \in DOMAIN prereqs |-> effective_mtime(prereqs[i], depth)]
effective_mtime(f, depth) ==
  IF depth > MaxDepth THEN [time |-> 0, asked |-> {}]
  ELSE IF Mtime(f) = 0 /\ is_phony(db, f) THEN [time |-> clock, asked |-> TimeOf(f)]
  ELSE IF f \in db.ruled THEN [time |-> Mtime(f), asked |-> TimeOf(f)]
  ELSE Also(TimeOf(f), EffectiveOver(f, Mtime(f), Times(FoundPrereqs(f), depth + 1)))

is_explicitly_mentioned(f) == f \in db.explicitly_mentioned \cup db.ruled
is_intermediate(f) == f \in Names_of(db, "INTERMEDIATE")

(* A missing file that is not missed, and one that has to be made. *)
Spared(p) == is_secondary(db, p) /\ ~is_notintermediate(db, p)
Required(p) == is_explicitly_mentioned(p) /\ ~is_intermediate(p)

BuildableBy(answer) == answer # NoRule /\ rules[answer.id].recipe
has_buildable_recipe(p) == p \in db.ruled \/ BuildableBy(Ask(p))

(* Before the prerequisites of t are built, p makes t out of date: it is   *)
(* phony, or it is missed, or it is newer, or will be.                     *)
Missed(p) == ~Spared(p) /\ (Required(p) \/ is_notintermediate(db, p))

NewerBy(t, p, e) ==
  LET unknown == e.time = 0 /\ Mtime(p) = 0
  IN  [newer |-> e.time > Mtime(t) \/ (unknown /\ has_buildable_recipe(p)),
       asked |-> e.asked \cup IF unknown /\ p \notin db.ruled THEN RuleOf(p) ELSE {}]

(* A fault: a file that is not there is always made. *)
NewerIfMissing(t, p) ==
  IF is_phony(db, p) THEN [newer |-> TRUE, asked |-> {}]
  ELSE Also(TimeOf(p), IF Mtime(p) = 0 THEN [newer |-> TRUE, asked |-> {}]
                       ELSE NewerBy(t, p, effective_mtime(p, 0)))

Newer(t, p) ==
  IF is_phony(db, p) THEN [newer |-> TRUE, asked |-> {}]
  ELSE Also(TimeOf(p), IF Mtime(p) = 0 /\ (Missed(p) \/ Spared(p))
                       THEN [newer |-> Missed(p), asked |-> {}]
                       ELSE NewerBy(t, p, effective_mtime(p, 0)))

PreCheck(t, prereqs) ==
  IF is_phony(db, t) THEN [newer |-> TRUE, asked |-> {}]
  ELSE Also(TimeOf(t), IF Mtime(t) = 0 THEN [newer |-> TRUE, asked |-> {}]
                       ELSE FirstHit([i \in DOMAIN prereqs |-> Newer(t, prereqs[i])]))

(* After they are built.  Only t itself is looked for, not its copies.     *)
Known(p) ==
  \/ Mtime(p) > 0 \/ is_phony(db, p) \/ Spared(p) \/ Required(p)
  \/ p \in DOMAIN built /\ built[p]

KnownNewer(t, p) ==
  IF Mtime(p) > 0 THEN Mtime(p) > file_mtime(t) ELSE is_phony(db, p) \/ ~Spared(p)

StillNewerBy(t, p, e) ==
  [newer |-> e.time > file_mtime(t) \/ (e.time = 0 /\ is_notintermediate(db, p)), asked |-> e.asked]

StillNewer(t, p) ==
  Also(TimeOf(p), IF Known(p) THEN [newer |-> KnownNewer(t, p), asked |-> {}]
                  ELSE StillNewerBy(t, p, effective_mtime(p, 0)))

needs_rebuild(t, prereqs, any_prereq_rebuilt) ==
  IF any_prereq_rebuilt THEN [newer |-> TRUE, asked |-> {}]
  ELSE Also(OwnTime(t), IF file_mtime(t) = 0 THEN [newer |-> TRUE, asked |-> {}]
                        ELSE FirstHit([i \in DOMAIN prereqs |-> StillNewer(t, prereqs[i])]))
-----------------------------------------------------------------------------
(* Calls and returns.                                                      *)

(* pruned is history: the prerequisites that could not be made. *)
Frame == [target : Files, id : 1..Len(rules), stem : Seq(STRING), is_compat : BOOLEAN,
          prereqs : Seq(Files), siblings : SUBSET Files, todo : Seq(Files),
          any_rebuilt : BOOLEAN, pruned : SUBSET Files]

(* Siblings of one recipe count as built with it. *)
Covered(t, value, siblings, rebuilt) ==
  [f \in DOMAIN built \cup {t} \cup siblings |->
     IF f = t THEN value ELSE IF f \in siblings THEN rebuilt ELSE built[f]]

(* build_target's last lines. *)
Succeed(t, rebuilt, siblings) ==
  /\ built' = Covered(t, rebuilt, siblings, rebuilt)
  /\ ret' = IF rebuilt THEN "rebuilt" ELSE "ok"

Fail(t, error) ==
  /\ failed_targets' = failed_targets \cup {t}
  /\ ret' = error

Memoized ==
  /\ Calling /\ Wanted \in DOMAIN built \cup failed_targets
  /\ ret' = IF Wanted \notin DOMAIN built THEN "error"
            ELSE IF built[Wanted] THEN "rebuilt" ELSE "ok"
  /\ UNCHANGED <<given, files, caches, memo, stack, goals, errors, history, round, outcome>>

Unmet == Calling /\ Wanted \notin DOMAIN built \cup failed_targets

DropCycle ==
  /\ Unmet /\ Wanted \in building
  /\ Succeed(Wanted, FALSE, {})
  /\ circular_dropped' = circular_dropped \cup {Wanted}
  /\ UNCHANGED <<given, files, caches, failed_targets, intermediate_built, stack,
                 goals, errors, history, round, outcome>>

Writing(made) ==
  /\ disk' = [f \in Files |-> IF f \in made THEN clock ELSE disk[f]]
  /\ clock' = IF made = {} THEN clock ELSE clock + 1

(* What the tests of an explicit rule look up, and what its recipe leaves. *)
Looked == IF is_phony(db, Wanted) THEN {} ELSE TimeOf(Wanted)

Evicting(f) ==
  /\ mtime_cache' = [g \in (DOMAIN mtime_cache \cup Those("time", Looked)) \ {f} |-> file_mtime(g)]
  /\ UNCHANGED pattern_rule_cache

(* An explicit rule, whose recipe may also write other files. *)
BuildExplicit ==
  /\ Unmet /\ Wanted \notin building /\ Wanted \in db.ruled
  /\ IF Mtime(Wanted) > 0 /\ ~is_phony(db, Wanted)
     THEN /\ Succeed(Wanted, FALSE, {}) /\ Remembering(Looked, {})
          /\ UNCHANGED <<files, failed_targets, explicit>>
     ELSE \/ /\ Writing(given.writes[Wanted])
             /\ Succeed(Wanted, TRUE, {}) /\ Evicting(Wanted)
             /\ explicit' = explicit \cup {Wanted}
             /\ UNCHANGED failed_targets
          \/ /\ given.may_fail /\ Fail(Wanted, "error") /\ Remembering(Looked, {})
             /\ UNCHANGED <<files, built, explicit>>
  /\ UNCHANGED <<given, circular_dropped, intermediate_built, stack, goals, errors, log, round,
                 outcome>>

(* A fault: a circular dependency is followed. *)
LookingAgain == Unmet /\ Wanted \notin db.ruled

Looking == Unmet /\ Wanted \notin building /\ Wanted \notin db.ruled

(* No rule: it is there, here or in a directory of VPATH, or it cannot be  *)
(* made.                                                                   *)
Leaf ==
  /\ Looking /\ Ask(Wanted) = NoRule
  /\ IF Present(Wanted) \/ is_phony(db, Wanted)
     THEN Succeed(Wanted, FALSE, {}) /\ UNCHANGED failed_targets
     ELSE Fail(Wanted, "no rule") /\ UNCHANGED built
  /\ Remembering(RuleOf(Wanted), {})
  /\ UNCHANGED <<given, files, circular_dropped, intermediate_built, stack, goals, errors,
                 history, round, outcome>>

(* &: siblings only if nothing else has built them, peers always. *)
SiblingsOf(t, answer) ==
  LET siblings == Siblings(rules[answer.id], t, answer.stem)
  IN  IF rules[answer.id].is_grouped THEN siblings \ (DOMAIN built \cup building) ELSE siblings

(* The pattern rule of the target that is wanted, if it has one. *)
Found == {Ask(Wanted)} \ {NoRule}

FoundFresh ==
  /\ Looking
  /\ \E answer \in Found : \E check \in {PreCheck(Wanted, answer.prereqs)} :
       /\ ~check.newer
       /\ Remembering(RuleOf(Wanted) \cup check.asked, {})
       /\ Succeed(Wanted, FALSE, SiblingsOf(Wanted, answer))
  /\ UNCHANGED <<given, files, failed_targets, circular_dropped, intermediate_built, stack,
                 goals, errors, history, round, outcome>>

(* A prerequisite that is mentioned shares its rule, and the stem, with    *)
(* one that is not.                                                        *)
SharedBy(answer, others) ==
  /\ answer # NoRule
  /\ \E other \in others : \E q \in ToSet(rules[answer.id].targets) :
       ~is_explicitly_mentioned(other) /\ match_pattern(other, q) /\ Stem(other, q) = answer.stem

shares_rule_with_intermediate(p, prereqs) == SharedBy(Ask(p), ToSet(prereqs) \ {p})

(* First the mentioned ones, then those that are not, then those that one  *)
(* of these will make.                                                     *)
Ordered(prereqs) ==
  LET mentioned == SelectSeq(prereqs, is_explicitly_mentioned)
      shared(p) == shares_rule_with_intermediate(p, prereqs)
  IN  SelectSeq(mentioned, LAMBDA p : ~shared(p))
        \o SelectSeq(prereqs, LAMBDA p : ~is_explicitly_mentioned(p))
        \o SelectSeq(mentioned, shared)

Enter ==
  /\ Looking
  /\ \E answer \in Found : \E check \in {PreCheck(Wanted, answer.prereqs)} :
       /\ check.newer
       /\ Remembering(RuleOf(Wanted) \cup check.asked
                        \cup UNION {RuleOf(p) : p \in {q \in ToSet(answer.prereqs) :
                                                       is_explicitly_mentioned(q)}}, {})
       /\ stack' = <<[target |-> Wanted, id |-> answer.id, stem |-> answer.stem,
                      is_compat |-> answer.is_compat, prereqs |-> answer.prereqs,
                      siblings |-> SiblingsOf(Wanted, answer), todo |-> Ordered(answer.prereqs),
                      any_rebuilt |-> FALSE, pruned |-> {}]>> \o stack
  /\ UNCHANGED <<given, files, memo, goals, errors, ret, history, round, outcome>>
-----------------------------------------------------------------------------
(* After a prerequisite.                                                   *)

Returned == outcome = "none" /\ ret # "none" /\ stack # <<>>

(* A terminal rule wants a file, unless an explicit recipe was to make it. *)
Absent(p) ==
  /\ rules[top.id].is_terminal /\ ~is_phony(db, p) /\ p \notin db.ruled \cup circular_dropped
  /\ ~Present(p)

(* What cannot be made is left out, and makes the target out of date.      *)
Prunes(p) ==
  ret = "no rule" /\ rules[top.id].recipe /\ (~top.is_compat \/ ~is_explicitly_mentioned(p))

Resume ==
  /\ Returned
  /\ IF ret \in {"ok", "rebuilt"} THEN ~Absent(Wanted) ELSE Prunes(Wanted)
  /\ stack' = [stack EXCEPT ![1].todo = Tail(@),
                            ![1].any_rebuilt = @ \/ ret # "ok",
                            ![1].pruned = IF Prunes(Wanted) THEN @ \cup {Wanted} ELSE @]
  /\ ret' = "none"
  /\ UNCHANGED <<given, files, caches, memo, goals, errors, history, round, outcome>>

Abandon ==
  /\ Returned
  /\ IF ret \in {"ok", "rebuilt"} THEN Absent(Wanted) ELSE ~Prunes(Wanted)
  /\ Fail(top.target, "error")
  /\ stack' = Tail(stack)
  /\ UNCHANGED <<given, files, caches, built, circular_dropped, intermediate_built,
                 goals, errors, history, round, outcome>>
-----------------------------------------------------------------------------
(* The recipe.                                                             *)

Deciding == outcome = "none" /\ ret = "none" /\ stack # <<>> /\ top.todo = <<>>

(* A target of &: is made when a sibling is not there. *)
MissingSibling ==
  LET targets == IF rules[top.id].is_grouped THEN rules[top.id].targets ELSE <<>>
      sibling(i) == apply_stem(targets[i], top.stem)
  IN  FirstHit([i \in DOMAIN targets |->
        IF sibling(i) \notin top.siblings THEN [newer |-> FALSE, asked |-> {}]
        ELSE [newer |-> file_mtime(sibling(i)) = 0, asked |-> OwnTime(sibling(i))]])

Decision ==
  IF is_phony(db, top.target) THEN [newer |-> TRUE, asked |-> {}]
  ELSE LET d == needs_rebuild(top.target, top.prereqs, top.any_rebuilt)
       IN  IF d.newer THEN d ELSE Also(d.asked, MissingSibling)

Decided(newer, asked, written) ==
  Deciding /\ \E d \in {Decision} : d.newer = newer /\ Remembering(d.asked \cup asked, written)

Skip ==
  /\ Decided(FALSE, {}, {})
  /\ Succeed(top.target, FALSE, top.siblings)
  /\ stack' = Tail(stack)
  /\ UNCHANGED <<given, files, failed_targets, circular_dropped, intermediate_built, goals,
                 errors, history, round, outcome>>

Kept(f) == is_precious(db, f) \/ is_notintermediate(db, f) \/ is_secondary(db, f)
             \/ f \in ToSet(given.goals) \/ is_explicitly_mentioned(f)

(* A peer is also kept when the rule names a file of its own, or one that  *)
(* is mentioned elsewhere and has no rule.                                 *)
PeerKept(frame) ==
  \/ \E p \in ToSet(rules[frame.id].prerequisites) : ~IsPattern(p) /\ Required(p)
  \/ \E p \in ToSet(frame.prereqs) :
       p \in db.explicitly_mentioned \ db.ruled /\ ~is_intermediate(p)

Intermediates(frame) ==
  {f \in {frame.target} : is_intermediate(f) \/ ~Kept(f)}
    \cup {f \in frame.siblings : ~rules[frame.id].is_grouped
            /\ (is_intermediate(f) \/ ~(Kept(f) \/ PeerKept(frame)))}

(* A recipe makes its target and its siblings; one that is lazy only its   *)
(* target.  An empty recipe, or none, runs nothing.                        *)
Made(frame) ==
  IF ~rules[frame.id].recipe THEN {}
  ELSE IF frame.id \in given.lazy THEN {frame.target}
  ELSE {frame.target} \cup Siblings(rules[frame.id], frame.target, frame.stem)

(* A fault: the peers are not marked as built. *)
RunForgettingPeers ==
  /\ Decided(TRUE, OwnTime(top.target), {top.target}) /\ rules[top.id].recipe
  /\ Writing(Made(top))
  /\ Succeed(top.target, TRUE, {})
  /\ intermediate_built' = intermediate_built \cup Intermediates(top)
  /\ log' = Append(log, top)
  /\ stack' = Tail(stack)
  /\ UNCHANGED <<given, failed_targets, circular_dropped, goals, errors, explicit, round,
                 outcome>>

(* Peers count as rebuilt, siblings of &: as built. *)
Run ==
  /\ Decided(TRUE, OwnTime(top.target), {top.target}) /\ rules[top.id].recipe
  /\ Writing(Made(top))
  /\ built' = Covered(top.target, TRUE, top.siblings, ~rules[top.id].is_grouped)
  /\ ret' = "rebuilt"
  /\ intermediate_built' = intermediate_built \cup Intermediates(top)
  /\ log' = Append(log, top)
  /\ stack' = Tail(stack)
  /\ UNCHANGED <<given, failed_targets, circular_dropped, goals, errors, explicit, round,
                 outcome>>

(* A terminal rule may be without a recipe. *)
RunNothing ==
  /\ Decided(TRUE, OwnTime(top.target), {}) /\ ~rules[top.id].recipe
  /\ Succeed(top.target, FALSE, top.siblings)
  /\ stack' = Tail(stack)
  /\ UNCHANGED <<given, files, failed_targets, circular_dropped, intermediate_built, goals,
                 errors, history, round, outcome>>

(* The siblings of a recipe that failed count as built all the same.       *)
RecipeFails ==
  /\ Decided(TRUE, OwnTime(top.target), {}) /\ rules[top.id].recipe /\ given.may_fail
  /\ Fail(top.target, "error")
  /\ built' = [f \in DOMAIN built \cup top.siblings |->
                 IF f \in top.siblings THEN FALSE ELSE built[f]]
  /\ stack' = Tail(stack)
  /\ UNCHANGED <<given, files, circular_dropped, intermediate_built, goals, errors, history,
                 round, outcome>>
-----------------------------------------------------------------------------
(* Goals.                                                                  *)

(* delete_intermediate_files: not what was also found in VPATH. *)
End(result) ==
  LET to_delete == {f \in intermediate_built \ ToSet(given.goals) :
                      ~(is_precious(db, f) \/ is_phony(db, f) \/ is_secondary(db, f)
                          \/ is_notintermediate(db, f))}
  IN  /\ disk' = [f \in Files |-> IF f \in to_delete /\ ~find_in_vpath(World, f) THEN 0 ELSE disk[f]]
      /\ intermediate_built' = intermediate_built \ to_delete
      /\ outcome' = result /\ ret' = "none"

NextGoal ==
  /\ outcome = "none" /\ stack = <<>> /\ ret # "none"
  /\ LET failed == ret \in {"no rule", "error"}
     IN  /\ failed => given.keep_going
         /\ errors' = (errors \/ failed)
  /\ goals' = Tail(goals) /\ ret' = "none"
  /\ UNCHANGED <<given, files, caches, memo, stack, history, round, outcome>>

GoalFails ==
  /\ outcome = "none" /\ stack = <<>> /\ ret \in {"no rule", "error"} /\ ~given.keep_going
  /\ End("error")
  /\ UNCHANGED <<given, clock, caches, built, failed_targets, circular_dropped,
                 stack, goals, errors, history, round>>

Finish ==
  /\ outcome = "none" /\ stack = <<>> /\ ret = "none" /\ goals = <<>>
  /\ End(IF errors THEN "error" ELSE "ok")
  /\ UNCHANGED <<given, clock, caches, built, failed_targets, circular_dropped,
                 stack, goals, errors, history, round>>

(* make is run again. *)
Again ==
  /\ outcome = "ok" /\ round = 1
  /\ pattern_rule_cache' = <<>> /\ mtime_cache' = <<>> /\ built' = <<>> /\ failed_targets' = {}
  /\ circular_dropped' = {} /\ intermediate_built' = {} /\ log' = <<>> /\ explicit' = {}
  /\ goals' = given.goals /\ round' = 2 /\ outcome' = "none"
  /\ UNCHANGED <<given, files, stack, errors, ret>>
-----------------------------------------------------------------------------
Init ==
  /\ given \in Given
  /\ disk = given.first /\ clock = 3
  /\ pattern_rule_cache = <<>> /\ mtime_cache = <<>> /\ built = <<>> /\ failed_targets = {}
  /\ circular_dropped = {} /\ intermediate_built = {}
  /\ stack = <<>> /\ goals = given.goals /\ errors = FALSE /\ ret = "none"
  /\ log = <<>> /\ explicit = {} /\ round = 1 /\ outcome = "none"

Next ==
  \/ Memoized \/ DropCycle \/ BuildExplicit \/ Leaf \/ FoundFresh \/ Enter
  \/ Resume \/ Abandon \/ Skip \/ Run \/ RunNothing \/ RecipeFails
  \/ NextGoal \/ GoalFails \/ Finish \/ Again

Spec == Init /\ [][Next]_vars
-----------------------------------------------------------------------------
TypeOK ==
  /\ disk \in [Files -> 0..clock - 1] /\ clock \in Nat
  /\ \A f \in DOMAIN pattern_rule_cache : pattern_rule_cache[f].id \in 0..Len(rules)
  /\ DOMAIN mtime_cache \subseteq Files /\ \A f \in DOMAIN mtime_cache : mtime_cache[f] < clock
  /\ DOMAIN built \subseteq Files /\ \A f \in DOMAIN built : built[f] \in BOOLEAN
  /\ failed_targets \subseteq Files /\ circular_dropped \subseteq DOMAIN built
  /\ intermediate_built \subseteq Files
  /\ stack \in Seq(Frame) /\ IsInjective([i \in DOMAIN stack |-> stack[i].target])
  /\ \A i \in DOMAIN stack : IsSuffix(stack[i].todo, Ordered(stack[i].prereqs))
  /\ errors \in BOOLEAN /\ ret \in {"none", "ok", "rebuilt", "no rule", "error"}
  /\ log \in Seq(Frame) /\ explicit \subseteq db.ruled
  /\ round \in 1..2 /\ outcome \in {"none", "ok", "error"}


(* The recipe that makes several files runs once for them all, whichever   *)
(* is asked for first and whether or not a second one is asked for later.  *)
RunsOnce ==
  circular_dropped = {} =>
    \A i, j \in DOMAIN log :
      i # j => log[i].target # log[j].target
                 /\ (log[i].id = log[j].id => log[i].target \notin log[j].siblings)

(* The files of one recipe were written together, if at all.               *)
WrittenAtOnce(t, answer) ==
  answer # NoRule =>
    \A s \in Siblings(rules[answer.id], t, answer.stem) : given.first[s] = given.first[t]
Whole == \A t \in Files : WrittenAtOnce(t, Ask(t))

(* A recipe writes no other file than it should. *)
Tidy == given.lazy = {} /\ \A f \in Files : given.writes[f] \subseteq {f}

(* No goal makes a file that a chain for an earlier goal begins with.      *)
(* effective_mtime takes such a file, while it is missing, for nothing     *)
(* that has to be made, and the earlier goal may be found fresh.           *)
Sourced == db.ruled = {} \/ Len(given.goals) = 1

(* What these files are made from, and they themselves. *)
RECURSIVE Behind(_)
Behind(names) ==
  LET more == names \cup UNION {ToSet(FoundPrereqs(f)) : f \in names \ db.ruled}
  IN  IF more = names THEN names ELSE Behind(more)

Circular == \E f \in Files \ db.ruled : f \in Behind(ToSet(FoundPrereqs(f)))

(* When a file was written, whatever is remembered. *)
OnDisk(f) == TimeIn(f, disk)

(* What a build that succeeds asked for and has is not older than any file *)
(* it is made from, however many rules away, though what was found fresh   *)
(* was not visited, what is missing was not missed, and the rules of the   *)
(* files were looked up at different times.                                *)
FreshAtEnd ==
  ( /\ outcome = "ok" /\ Whole /\ Tidy /\ Sourced /\ ~Circular
    /\ \A i \in DOMAIN rules : rules[i].recipe )
    => \A t \in DOMAIN built : \A f \in Behind({t}) : OnDisk(t) > 0 => OnDisk(f) <= OnDisk(t)

(* A build after one that succeeded has nothing to do, though the          *)
(* intermediate files it made are gone and the rules are looked up again.  *)
(* Not so if one of those was there before the first build, if a target is *)
(* phony, or if a terminal rule applies only now that its prerequisites    *)
(* are there.                                                              *)
SecondBuildIdle ==
  ( /\ round = 2 /\ Whole /\ Tidy /\ Sourced /\ ~Circular /\ Names_of(db, "PHONY") = {}
    /\ \A i \in DOMAIN rules : ~rules[i].is_terminal
    /\ \A f \in Files : given.first[f] > 0 => disk[f] > 0 )
    => log = <<>> /\ explicit = {}
=============================================================================
