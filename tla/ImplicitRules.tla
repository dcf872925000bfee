--------------------------- MODULE ImplicitRules ---------------------------
(***************************************************************************)
(* Which pattern rule makes a file: find_pattern_rule_inner of exec/mod.rs *)
(* and the tests on patterns it is built from.                             *)
(*                                                                         *)
(* A search sees a world w: the database w.db, the files that are there,   *)
(* w.present, and those being built, w.building, which it takes for        *)
(* available: a circular dependency is dropped when it is met.             *)
(*                                                                         *)
(* The answer names a rule by its place in the order of the search.  Left  *)
(* out: second expansion, wildcards among the prerequisites, .WAIT, GPATH, *)
(* explicit rules for names in a directory of VPATH, and the search for    *)
(* the recipe of a target that has an explicit rule.                       *)
(***************************************************************************)
EXTENDS RuleBase, FiniteSets

CONSTANTS Files,        \* names of targets and prerequisites
          Directories,  \* the pieces of names that end with "/"
          MaxChain      \* no chain of rules is longer; 32 in the code

PatternRule == [targets : Seq(Files), prerequisites : Seq(Files), recipe : BOOLEAN,
                is_terminal : BOOLEAN, is_grouped : BOOLEAN]

NoRule == [id |-> 0, stem |-> <<>>, prereqs |-> <<>>, is_compat |-> FALSE]

(* The rules as they are searched: the user's before the built-in ones.    *)
Searched(db) ==
  LET n == db.builtin_pattern_rules_count
  IN  SubSeq(db.pattern_rules, n + 1, Len(db.pattern_rules)) \o SubSeq(db.pattern_rules, 1, n)
-----------------------------------------------------------------------------
(* Stems.                                                                  *)

(* The directory of a stem, when it came from the target and not from the  *)
(* pattern.                                                                *)
stem_dir(pattern, stem) ==
  IF \E i \in DOMAIN pattern : pattern[i] \in Directories THEN <<>>
  ELSE SubSeq(stem, 1, SelectLastInSeq(stem, LAMBDA piece : piece \in Directories))

(* lib/%.c, but also lib/x.h from x%.h when the target is lib/.o.          *)
subst_stem_in_prereq_dir(prereq, pattern, stem) ==
  LET dir == stem_dir(pattern, stem)
      base == SubSeq(stem, Len(dir) + 1, Len(stem))
  IN  IF dir = <<>> \/ ~IsPattern(prereq) \/ prereq[1] = Percent
      THEN apply_stem(prereq, stem)
      ELSE dir \o apply_stem(prereq, base)

(* The pattern that gives target this stem. *)
MatchedPattern(rule, target, stem) ==
  LET same(p) == match_pattern(target, p) /\ Stem(target, p) = stem
  IN  rule.targets[SelectInSeq(rule.targets, same)]

PrereqsOf(rule, target, stem) ==
  LET pattern == MatchedPattern(rule, target, stem)
  IN  [i \in DOMAIN rule.prerequisites |->
         subst_stem_in_prereq_dir(rule.prerequisites[i], pattern, stem)]

(* The other files a rule makes, which are &: siblings or peers.           *)
Siblings(rule, target, stem) ==
  LET made == {apply_stem(rule.targets[i], stem) : i \in DOMAIN rule.targets}
      peers == {apply_stem(p, stem) : p \in {q \in ToSet(rule.targets) : ~match_pattern(target, q)}}
  IN  (IF rule.is_grouped THEN made ELSE peers) \ {target}
-----------------------------------------------------------------------------
(* Candidates.                                                             *)

Shorter(c, d) ==
  \/ Len(c.stem) < Len(d.stem)
  \/ /\ Len(c.stem) = Len(d.stem)
     /\ (c.id < d.id \/ (c.id = d.id /\ c.place < d.place))

(* In the order of the search. *)
Earlier(c, d) == c.id < d.id \/ (c.id = d.id /\ c.place < d.place)

Candidate(rules, target, id, place, stem) ==
  [id |-> id, place |-> place, rule |-> rules[id], stem |-> stem,
   prereqs |-> PrereqsOf(rules[id], target, stem)]

Universal(c) == c.rule.targets[c.place] = <<Percent>>

Matched(rules, target) ==
  UNION { {Candidate(rules, target, id, k, Stem(target, rules[id].targets[k])) :
             k \in {j \in DOMAIN rules[id].targets : match_pattern(target, rules[id].targets[j])}} :
          id \in DOMAIN rules }

(* % alone does not apply to what another rule matches. *)
WithoutUniversal(matched) ==
  {c \in matched : ~Universal(c) \/ c.rule.is_terminal \/ \A d \in matched : Universal(d)}

Matching(db, target) == WithoutUniversal(Matched(Searched(db), target))

(* The shortest stem first, then the order of the search. *)
FirstOf(S, Ahead(_, _)) == CHOOSE c \in S : \A d \in S \ {c} : Ahead(c, d)

Usable(rule) == rule.recipe \/ rule.is_terminal
-----------------------------------------------------------------------------
(* What a prerequisite may come from.                                      *)

is_phony(db, f) == f \in Names_of(db, "PHONY")

Copies(w, f) == {i \in DOMAIN w.db.vpath : <<w.db.vpath[i]>> \o f \in w.present}

find_in_vpath(w, f) == Copies(w, f) # {}

Available(w, f) ==
  f \in w.present \/ is_phony(w.db, f) \/ find_in_vpath(w, f) \/ f \in w.building

Ruled(w, f) == Available(w, f) \/ f \in w.db.ruled

(* A fault: the last rule of a chain may be any rule. *)
RECURSIVE ExistsThroughTerminal(_, _, _, _)
ExistsThroughTerminal(w, f, visited, active) ==
  \/ f \in w.building
  \/ /\ f \notin visited /\ Cardinality(visited) <= MaxChain
     /\ \E c \in Matching(w.db, f) :
          /\ c.id \notin active /\ c.rule.recipe /\ ~Universal(c)
          /\ \A p \in ToSet(c.prereqs) :
               \/ Ruled(w, p)
               \/ ExistsThroughTerminal(w, p, visited \cup {f}, active \cup {c.id})

(* Some chain of rules makes f: no file and no rule comes twice in it, the *)
(* rule % is no link of it, and %:: only the last one.                     *)
RECURSIVE Exists(_, _, _, _)
Exists(w, f, visited, active) ==
  \/ f \in w.building
  \/ /\ f \notin visited /\ Cardinality(visited) <= MaxChain
     /\ \E c \in Matching(w.db, f) :
          /\ c.id \notin active /\ c.rule.recipe
          /\ ~Universal(c) \/ c.rule.is_terminal
          /\ \A p \in ToSet(c.prereqs) :
               \/ Ruled(w, p)
               \/ c.rule.is_terminal /\ p \in w.db.explicit_dep_names
               \/ ~c.rule.is_terminal /\ Exists(w, p, visited \cup {f}, active \cup {c.id})

Chained(w, f, id) == Ruled(w, f) \/ Exists(w, f, {}, {id})
-----------------------------------------------------------------------------
(* The first prerequisite that is not there, <<>> if all are, and the      *)
(* first that no chain makes.                                              *)
Lacking(w, c) ==
  LET missing == SelectSeq(c.prereqs, LAMBDA p : ~Ruled(w, p))
  IN  IF missing = <<>> THEN <<>> ELSE Head(missing)

LackingChain(w, c) ==
  LET missing == SelectSeq(c.prereqs, LAMBDA p : ~Chained(w, p, c.id))
  IN  IF missing = <<>> THEN <<>> ELSE Head(missing)

Answer(c, is_compat) == [id |-> c.id, stem |-> c.stem, prereqs |-> c.prereqs, is_compat |-> is_compat]

(* The best of the first of these that has any. *)
FirstAnswer(direct, indirect, compat, compat_chained, terminals) ==
  IF direct # {} THEN Answer(FirstOf(direct, Shorter), FALSE)
  ELSE IF indirect # {} THEN Answer(FirstOf(indirect, Shorter), FALSE)
  ELSE IF compat # {} THEN Answer(FirstOf(compat, Shorter), TRUE)
  ELSE IF compat_chained # {} THEN Answer(FirstOf(compat_chained, Shorter), TRUE)
  ELSE IF terminals # {} THEN Answer(FirstOf(terminals, Earlier), TRUE)
  ELSE NoRule

(* A missing prerequisite that some rule mentions. *)
Mentioned(w, p) == p \in w.db.explicit_dep_names /\ p \notin w.db.ruled

(* The first candidate whose prerequisites are there, or have rules; then  *)
(* the first whose prerequisites chains can make, if the rule is not       *)
(* terminal; then, as a compatibility rule, the first of those passes with *)
(* a missing prerequisite that is mentioned; then a terminal rule.         *)
Chosen(w, matching, usable, chaining) ==
  FirstAnswer({c \in usable : Lacking(w, c) = <<>>},
              {c \in chaining : LackingChain(w, c) = <<>>},
              {c \in usable : Mentioned(w, Lacking(w, c))},
              {c \in chaining : Mentioned(w, LackingChain(w, c))},
              {c \in matching : /\ c.rule.is_terminal /\ c.rule.recipe
                                 /\ \A p \in ToSet(c.prereqs) : Available(w, p)})

ChosenAmong(w, matching) ==
  Chosen(w, matching, {c \in matching : Usable(c.rule)},
         {c \in matching : Usable(c.rule) /\ ~c.rule.is_terminal})

find_pattern_rule(w, target) == ChosenAmong(w, Matching(w.db, target))
=============================================================================
