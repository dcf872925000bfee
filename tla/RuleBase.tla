------------------------------ MODULE RuleBase ------------------------------
(***************************************************************************)
(* The database of rules and what MakeState::register_rule does to it.     *)
(* Recipes, and the variables of a target, are the sequences of the        *)
(* numbers of the lines that gave them; a rule also has the number of its  *)
(* own line.  dollar: its prerequisites wait for second expansion;         *)
(* text_dollar is history: there was a dollar in what was read.            *)
(***************************************************************************)
EXTENDS FileNames, Sublists

CONSTANT Dotted   \* the pieces of names that begin with a dot

ASSUME DottedAssumption == Dotted \subseteq STRING

Specials == {"PHONY", "PRECIOUS", "NOTINTERMEDIATE", "INTERMEDIATE", "SECONDARY",
             "SUFFIXES", "SECONDEXPANSION", "NOTPARALLEL", "POSIX", "EXPORT_ALL_VARIABLES"}
SpecialTarget(target) == Len(target) = 1 /\ target[1] \in Specials

Rule == [targets : Seq(FileName \ {<<>>}), prerequisites : Seq(FileName),
         order_only : Seq(FileName), recipe : Seq(Nat), double_colon : BOOLEAN,
         grouped_siblings : Seq(FileName),
         static_stem : Seq(STRING), vars : Seq(Nat), lineno : Nat,
         text_dollar : BOOLEAN, dollar : BOOLEAN]

is_pattern(rule) == \E i \in DOMAIN rule.targets : IsPattern(rule.targets[i])

IsDatabase(db) ==
  /\ \A t \in DOMAIN db.rules : t \in FileName
  /\ \A t \in DOMAIN db.rules : db.rules[t] \in Seq(Rule)
  /\ db.pattern_rules \in Seq(Rule)
  /\ db.builtin_pattern_rules_count \in 0..Len(db.pattern_rules)
  /\ DOMAIN db.special_targets \subseteq Specials
  /\ \A s \in DOMAIN db.special_targets : \A t \in db.special_targets[s] : t \in FileName
  /\ db.default_target \in FileName
  /\ db.default_goal_explicit \in BOOLEAN
  /\ \A flag \in {"second_expansion", "posix_mode", "not_parallel", "export_all", "stopped"} :
       db[flag] \in BOOLEAN
  /\ \A t \in db.suffixes \cup db.not_parallel_targets \cup db.explicitly_mentioned :
       t \in FileName
-----------------------------------------------------------------------------
(* Special targets.                                                        *)

Names_of(db, special) ==
  IF special \in DOMAIN db.special_targets THEN db.special_targets[special] ELSE {}

(* Recorded without names, as for all targets. *)
Everything(db, special) ==
  special \in DOMAIN db.special_targets /\ db.special_targets[special] = {}

(* What is fatal: a file that is to be intermediate, or secondary, and not *)
(* intermediate.                                                           *)
Conflict(db, special, names) ==
  LET kept == Everything(db, "NOTINTERMEDIATE")
  IN  CASE special = "NOTINTERMEDIATE" ->
             \/ names = {} /\ Everything(db, "SECONDARY")
             \/ names \cap (Names_of(db, "INTERMEDIATE") \cup Names_of(db, "SECONDARY")) # {}
        [] special = "INTERMEDIATE" ->
             names # {} /\ (kept \/ names \cap Names_of(db, "NOTINTERMEDIATE") # {})
        [] special = "SECONDARY" -> kept \/ names \cap Names_of(db, "NOTINTERMEDIATE") # {}
        [] OTHER -> FALSE

(* The built-in rules, which come first, are thrown away. *)
DropBuiltins(db) ==
  [db EXCEPT !.pattern_rules = SubSeq(@, db.builtin_pattern_rules_count + 1, Len(@)),
             !.builtin_pattern_rules_count = 0]

Record(db, special, names) ==
  [db EXCEPT !.special_targets =
     [s \in DOMAIN @ \cup {special} |->
        IF s = special THEN Names_of(db, special) \cup names ELSE @[s]]]

Special(db, special, names) ==
  IF Conflict(db, special, names) THEN [db EXCEPT !.stopped = TRUE]
  ELSE CASE special = "SECONDEXPANSION" -> [db EXCEPT !.second_expansion = TRUE]
         [] special = "SUFFIXES" /\ names = {} -> [DropBuiltins(db) EXCEPT !.suffixes = {}]
         [] special = "SUFFIXES" /\ names # {} -> [db EXCEPT !.suffixes = @ \cup names]
         [] special = "POSIX" -> [db EXCEPT !.posix_mode = TRUE]
         [] special = "NOTPARALLEL" /\ names = {} -> [db EXCEPT !.not_parallel = TRUE]
         [] special = "NOTPARALLEL" /\ names # {} -> [db EXCEPT !.not_parallel_targets = @ \cup names]
         [] special = "EXPORT_ALL_VARIABLES" ->
              [Record(db, special, names) EXCEPT !.export_all = TRUE]
         [] OTHER -> Record(db, special, names)

MayBeDefault(t) == t[1] \notin Dotted \cup Specials /\ ~IsPattern(t)

(* The first target that may be the default goal is, while none is set:    *)
(* not one whose name begins with a dot.                                   *)
DefaultFrom(db, targets) ==
  LET candidates == Select(targets, {t \in ToSet(targets) : MayBeDefault(t)})
  IN  IF db.default_target # <<>> \/ db.default_goal_explicit \/ candidates = <<>> THEN db
      ELSE [db EXCEPT !.default_target = Head(candidates)]

is_precious(db, target) ==
  /\ "PRECIOUS" \in DOMAIN db.special_targets
  /\ \/ Everything(db, "PRECIOUS")
     \/ \E pattern \in Names_of(db, "PRECIOUS") : match_pattern(target, pattern)

is_secondary(db, target) ==
  Everything(db, "SECONDARY") \/ target \in Names_of(db, "SECONDARY")

(* By name .INTERMEDIATE wins, and .SECONDARY unless .NOTINTERMEDIATE has  *)
(* the name too.                                                           *)
is_notintermediate(db, target) ==
  /\ \/ Everything(db, "NOTINTERMEDIATE")
     \/ \E pattern \in Names_of(db, "NOTINTERMEDIATE") : match_pattern(target, pattern)
  /\ target \notin Names_of(db, "INTERMEDIATE")
  /\ target \in Names_of(db, "NOTINTERMEDIATE") \/ target \notin Names_of(db, "SECONDARY")
-----------------------------------------------------------------------------
(* Pattern rules.                                                          *)

Cancels(rule, builtin) ==
  /\ rule.recipe = <<>>
  /\ ToSet(builtin.targets) = ToSet(rule.targets)
  /\ ToSet(builtin.prerequisites) = ToSet(rule.prerequisites)

(* The built-in rules that the rule leaves. *)
BuiltinsLeft(db, rule) ==
  LET builtins == SubSeq(db.pattern_rules, 1, db.builtin_pattern_rules_count)
  IN  Select(builtins, {b \in ToSet(builtins) : ~Cancels(rule, b)})

(* A fault: the number of built-in rules is not kept. *)
CancelUncounted(db, rule) ==
  LET n == db.builtin_pattern_rules_count
      kept == BuiltinsLeft(db, rule)
  IN  [db EXCEPT !.pattern_rules = kept \o SubSeq(@, n + 1, Len(@))]

(* A rule without recipe cancels the built-in rules with its patterns. *)
Cancel(db, rule) ==
  LET n == db.builtin_pattern_rules_count
      kept == BuiltinsLeft(db, rule)
  IN  [db EXCEPT !.pattern_rules = kept \o SubSeq(@, n + 1, Len(@)),
                 !.builtin_pattern_rules_count = Len(kept)]

RegisterPattern(db, rule) ==
  LET literal == {p \in ToSet(rule.prerequisites \o rule.order_only) : ~IsPattern(p)}
      cancelled == Cancel([db EXCEPT !.explicitly_mentioned = @ \cup literal], rule)
      nothing == rule.recipe = <<>> /\ rule.prerequisites = <<>>
                   /\ rule.order_only = <<>> /\ ~rule.dollar
  IN  IF nothing THEN cancelled
      ELSE [cancelled EXCEPT !.pattern_rules = Append(@, rule)]

(* .c.o of two known suffixes is also %.o: %.c, and .c is %: %.c, without  *)
(* their own prerequisites; with .POSIX a rule that has any is neither.    *)
is_suffix_rule(db, target) ==
  target \in db.suffixes \/ (Len(target) = 2 /\ \A i \in 1..2 : <<target[i]>> \in db.suffixes)

suffix_to_pattern_rule(rule) ==
  LET target == rule.targets[1]
  IN  [rule EXCEPT !.targets = << <<Percent>> \o Tail(target) >>,
                   !.prerequisites = << <<Percent, target[1]>> >>]

WithSuffixRule(db, rule) ==
  IF /\ Len(rule.targets) = 1 /\ is_suffix_rule(db, rule.targets[1])
     /\ rule.prerequisites = <<>> \/ ~db.posix_mode
  THEN [db EXCEPT !.pattern_rules = Append(@, suffix_to_pattern_rule(rule))] ELSE db
-----------------------------------------------------------------------------
(* Explicit rules.                                                         *)

Without(s, t) == Select(s, ToSet(s) \ ToSet(t))

Distinct(s) ==
  LET first[n \in 0..Len(s)] ==
        IF n = 0 THEN <<>>
        ELSE IF Contains(first[n - 1], s[n]) THEN first[n - 1] ELSE Append(first[n - 1], s[n])
  IN  first[Len(s)]

(* Faults: what becomes a normal prerequisite is still order-only; the     *)
(* first recipe stays.                                                     *)
MergeKeepingOrderOnly(existing, rule) ==
  LET added == Distinct(Without(rule.prerequisites, existing.prerequisites))
      cooks == rule.recipe # <<>>
  IN  [existing EXCEPT
        !.prerequisites = IF cooks THEN added \o @ ELSE @ \o added,
        !.order_only = @ \o Without(rule.order_only, existing.prerequisites),
        !.recipe = IF cooks THEN rule.recipe ELSE @,
        !.vars = @ \o rule.vars]

MergeFirstRecipe(existing, rule) ==
  LET added == Distinct(Without(rule.prerequisites, existing.prerequisites))
      cooks == rule.recipe # <<>>
  IN  [existing EXCEPT
        !.prerequisites = IF cooks THEN added \o @ ELSE @ \o added,
        !.order_only = Without(@, rule.prerequisites)
                         \o Without(rule.order_only, existing.prerequisites),
        !.recipe = IF cooks /\ @ = <<>> THEN rule.recipe ELSE @,
        !.vars = @ \o rule.vars]

(* A second rule of a target: the prerequisites of the one with the recipe *)
(* come first, but those already there keep their place; the last recipe   *)
(* holds.                                                                  *)
Merge(existing, rule) ==
  LET added == Distinct(Without(rule.prerequisites, existing.prerequisites))
      cooks == rule.recipe # <<>>
  IN  [existing EXCEPT
        !.prerequisites = IF cooks THEN added \o @ ELSE @ \o added,
        !.order_only = Without(@, rule.prerequisites)
                         \o Without(rule.order_only, existing.prerequisites),
        !.dollar = @ \/ rule.dollar,
        !.recipe = IF cooks THEN rule.recipe ELSE @,
        !.lineno = IF cooks THEN rule.lineno ELSE @,
        !.grouped_siblings = IF rule.grouped_siblings # <<>> THEN rule.grouped_siblings ELSE @,
        !.static_stem = IF rule.static_stem # <<>> THEN rule.static_stem ELSE @,
        !.vars = @ \o rule.vars]

RulesOf(db, target) == IF target \in DOMAIN db.rules THEN db.rules[target] ELSE <<>>

SetRules(db, target, rules) ==
  [db EXCEPT !.rules = [t \in DOMAIN @ \cup {target} |-> IF t = target THEN rules ELSE @[t]]]

(* The parser has put all targets of a grouped rule in grouped_siblings. *)
RegisterExplicit(db, target, rule) ==
  LET own == [rule EXCEPT !.grouped_siblings = Select(@, ToSet(@) \ {target})]
      rules == RulesOf(db, target)
  IN  SetRules(db, target, IF rules = <<>> \/ rule.double_colon THEN Append(rules, own)
                           ELSE [rules EXCEPT ![1] = Merge(@, own)])

(* &: needs a recipe, unless a target has one already. *)
GroupWithoutRecipe(db, rule) ==
  /\ rule.grouped_siblings # <<>> /\ rule.recipe = <<>> /\ ~is_pattern(rule)
  /\ \A i \in DOMAIN rule.targets :
       \A k \in DOMAIN RulesOf(db, rule.targets[i]) :
         RulesOf(db, rule.targets[i])[k].recipe = <<>>

(* Each target is special or gets the rule, one after the other. *)
SpecialsOf(db, rule) ==
  LET upTo[n \in 0..Len(rule.targets)] ==
        IF n = 0 THEN db
        ELSE IF SpecialTarget(rule.targets[n])
        THEN Special(upTo[n - 1], rule.targets[n][1], ToSet(rule.prerequisites))
        ELSE upTo[n - 1]
  IN  upTo[Len(rule.targets)]

ExplicitOf(db, rule) ==
  LET upTo[n \in 0..Len(rule.targets)] ==
        IF n = 0 THEN db
        ELSE IF SpecialTarget(rule.targets[n]) THEN upTo[n - 1]
        ELSE RegisterExplicit(upTo[n - 1], rule.targets[n], rule)
  IN  upTo[Len(rule.targets)]

register_rule(db, rule) ==
  LET special == SpecialsOf(db, rule)
      started == DefaultFrom(special, rule.targets)
      mentioned == [WithSuffixRule(started, rule) EXCEPT
                      !.explicitly_mentioned =
                        @ \cup ToSet(rule.prerequisites) \cup ToSet(rule.order_only)]
  IN  IF GroupWithoutRecipe(db, rule) THEN [db EXCEPT !.stopped = TRUE]
      ELSE IF is_pattern(rule) THEN RegisterPattern(started, rule)
      ELSE ExplicitOf(mentioned, rule)

(* A variable of a target goes to all rules that the target has by then,   *)
(* or to a rule made for it.                                               *)
TargetVariable(db, target, placeholder, lineno) ==
  LET rules == RulesOf(db, target)
      holders == IF rules = <<>> THEN <<placeholder>> ELSE rules
  IN  SetRules(db, target, [k \in DOMAIN holders |-> [holders[k] EXCEPT !.vars = Append(@, lineno)]])
=============================================================================
