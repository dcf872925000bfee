-------------------------- MODULE RuleBase_proofs ---------------------------
(***************************************************************************)
(* What registering rules does to the database, for every rule: the types  *)
(* of what register_rule and its helpers return, what of the database they *)
(* leave alone, and what stays true of a history of rules that grows.      *)
(***************************************************************************)
EXTENDS RuleBase, SequenceFacts

(* A function on 1 .. n is a list. *)
LEMMA IsList ==
  ASSUME NEW S, NEW n \in Nat, NEW g, g = [i \in 1 .. n |-> g[i]],
         \A i \in 1 .. n : g[i] \in S
  PROVE  g \in Seq(S) /\ Len(g) = n
<1>1. g \in [1 .. n -> S]
  OBVIOUS
<1> QED BY <1>1

(* What a recursive definition computes stays in a set that each step      *)
(* stays in.                                                               *)
Follows(k, L, V, base, step) ==
  k[0] = base /\ \A n \in 1 .. L : k[n - 1] \in V => k[n] = step[n][k[n - 1]]

(* A recursion whose base and steps stay in a set stays in it at every     *)
(* point up to its length.                                                 *)
LEMMA Unrolled ==
  ASSUME NEW L \in Nat, NEW V, NEW base \in V, NEW step \in [1 .. L -> [V -> V]],
         NEW k, Follows(k, L, V, base, step)
  PROVE  \A n \in 0 .. L : k[n] \in V
<1> DEFINE T == {n \in 0 .. L : k[n] \in V}
<1>1. 0 \in T
  BY DEF Follows
<1>2. ASSUME NEW n \in 1 .. L, n - 1 \in T PROVE n \in T
  <2>1. k[n - 1] \in V
    BY <1>2
  <2>2. step[n][k[n - 1]] \in V
    BY <2>1
  <2> QED BY <2>1, <2>2 DEF Follows
<1> HIDE DEF T
<1>3. \A n \in 0 .. L : n \in T
  BY <1>1, <1>2, Counting
<1> QED BY <1>3 DEF T

(* Tables of the database. *)
TablesOf(D, S) == UNION {[K -> S] : K \in SUBSET D}

(* The rule database, every field with its type.                           *)
Database ==
  [rules : TablesOf(FileName, Seq(Rule)), pattern_rules : Seq(Rule),
   builtin_pattern_rules_count : Nat, special_targets : TablesOf(Specials, SUBSET FileName),
   suffixes : SUBSET FileName, default_target : FileName, default_goal_explicit : BOOLEAN,
   second_expansion : BOOLEAN, posix_mode : BOOLEAN, not_parallel : BOOLEAN,
   not_parallel_targets : SUBSET FileName, export_all : BOOLEAN, unexport_all : BOOLEAN,
   explicitly_mentioned : SUBSET FileName, vpath : Seq(Seq(Seq(STRING))), stopped : BOOLEAN,
   log : Seq(Rule)]

(* A database whose built-in rules are the tail of its pattern rules: the  *)
(* length that RegisterPattern and DropBuiltins rely on.                   *)
Base == {d \in Database : d.builtin_pattern_rules_count <= Len(d.pattern_rules)}

(* A function on some of D into S is a table of S over D.                  *)
LEMMA TableIn ==
  ASSUME NEW D, NEW S, NEW K \in SUBSET D, NEW f \in [K -> S]
  PROVE  f \in TablesOf(D, S)
BY DEF TablesOf

(* What a table of S over D is.                                            *)
LEMMA TableHolds ==
  ASSUME NEW D, NEW S, NEW f \in TablesOf(D, S)
  PROVE  DOMAIN f \subseteq D /\ \A x \in DOMAIN f : f[x] \in S
<1>1. PICK K \in SUBSET D : f \in [K -> S]
  BY DEF TablesOf
<1> QED BY <1>1

(* The fields of a database, one by one.                                   *)
LEMMA BaseHolds ==
  ASSUME NEW d \in Base
  PROVE  /\ d.rules \in TablesOf(FileName, Seq(Rule)) /\ d.pattern_rules \in Seq(Rule)
         /\ d.builtin_pattern_rules_count \in Nat
         /\ d.builtin_pattern_rules_count <= Len(d.pattern_rules)
         /\ d.special_targets \in TablesOf(Specials, SUBSET FileName)
         /\ d.suffixes \in SUBSET FileName /\ d.default_target \in FileName
         /\ d.default_goal_explicit \in BOOLEAN /\ d.second_expansion \in BOOLEAN
         /\ d.posix_mode \in BOOLEAN /\ d.not_parallel \in BOOLEAN
         /\ d.not_parallel_targets \in SUBSET FileName /\ d.export_all \in BOOLEAN
         /\ d.unexport_all \in BOOLEAN /\ d.explicitly_mentioned \in SUBSET FileName
         /\ d.vpath \in Seq(Seq(Seq(STRING))) /\ d.stopped \in BOOLEAN
         /\ d.log \in Seq(Rule)
BY DEF Base, Database

(* An entry of the database may be replaced by one of its type.            *)
LEMMA BaseWith ==
  ASSUME NEW d \in Base
  PROVE  /\ \A v \in TablesOf(FileName, Seq(Rule)) : [d EXCEPT !.rules = v] \in Base
         /\ \A v \in TablesOf(Specials, SUBSET FileName) : [d EXCEPT !.special_targets = v] \in Base
         /\ \A v \in SUBSET FileName : /\ [d EXCEPT !.suffixes = v] \in Base
                                       /\ [d EXCEPT !.not_parallel_targets = v] \in Base
                                       /\ [d EXCEPT !.explicitly_mentioned = v] \in Base
         /\ \A v \in FileName : [d EXCEPT !.default_target = v] \in Base
         /\ \A v \in BOOLEAN : /\ [d EXCEPT !.default_goal_explicit = v] \in Base
                               /\ [d EXCEPT !.second_expansion = v] \in Base
                               /\ [d EXCEPT !.posix_mode = v] \in Base
                               /\ [d EXCEPT !.not_parallel = v] \in Base
                               /\ [d EXCEPT !.export_all = v] \in Base
                               /\ [d EXCEPT !.unexport_all = v] \in Base
                               /\ [d EXCEPT !.stopped = v] \in Base
         /\ \A v \in Seq(Seq(Seq(STRING))) : [d EXCEPT !.vpath = v] \in Base
         /\ \A v \in Seq(Rule) : [d EXCEPT !.log = v] \in Base
         /\ \A v \in Seq(Rule) : d.builtin_pattern_rules_count <= Len(v) =>
              [d EXCEPT !.pattern_rules = v] \in Base
         /\ \A v \in Seq(Rule), n \in Nat :
              n <= Len(v) => [d EXCEPT !.pattern_rules = v,
                                       !.builtin_pattern_rules_count = n] \in Base
BY DEF Base, Database

(* Noting the names a special target lists leaves a database.              *)
LEMMA RecordType ==
  ASSUME NEW d \in Base, NEW special \in Specials, NEW names \in SUBSET FileName
  PROVE  Record(d, special, names) \in Base
<1> DEFINE new == [s \in DOMAIN d.special_targets \cup {special} |->
                     IF s = special THEN Names_of(d, special) \cup names
                     ELSE d.special_targets[s]]
<1>1. /\ DOMAIN d.special_targets \subseteq Specials
      /\ \A s \in DOMAIN d.special_targets : d.special_targets[s] \in SUBSET FileName
  BY BaseHolds, TableHolds
<1>2. Names_of(d, special) \in SUBSET FileName
  BY <1>1 DEF Names_of
<1>3. new \in TablesOf(Specials, SUBSET FileName)
  <2>1. new \in [DOMAIN d.special_targets \cup {special} -> SUBSET FileName]
    BY <1>1, <1>2
  <2> HIDE DEF new
  <2> QED BY <1>1, <2>1, TableIn
<1>4. Record(d, special, names) = [d EXCEPT !.special_targets = new]
  BY DEF Record
<1> HIDE DEF new
<1> QED BY <1>3, <1>4, BaseWith

(* Cutting the built-in pattern rules off leaves a database with none.     *)
LEMMA DropBuiltinsType ==
  ASSUME NEW d \in Base
  PROVE  DropBuiltins(d) \in Base
<1> DEFINE rest == SubSeq(d.pattern_rules, d.builtin_pattern_rules_count + 1, Len(d.pattern_rules))
<1>1. rest \in Seq(Rule)
  BY BaseHolds
<1>2. DropBuiltins(d) = [d EXCEPT !.pattern_rules = rest, !.builtin_pattern_rules_count = 0]
  BY DEF DropBuiltins
<1> HIDE DEF rest
<1>3. 0 \in Nat /\ 0 <= Len(rest)
  BY <1>1
<1>4. [d EXCEPT !.pattern_rules = rest, !.builtin_pattern_rules_count = 0] \in Base
  BY <1>1, <1>3, BaseWith
<1> QED BY <1>2, <1>4

(* Every special target of register_special_target leaves a database.      *)
LEMMA SpecialType ==
  ASSUME NEW d \in Base, NEW special \in Specials, NEW names \in SUBSET FileName
  PROVE  Special(d, special, names) \in Base
<1>1. /\ d.suffixes \cup names \in SUBSET FileName
      /\ d.not_parallel_targets \cup names \in SUBSET FileName
  BY BaseHolds
<1>2. [DropBuiltins(d) EXCEPT !.suffixes = {}] \in Base
  BY DropBuiltinsType, BaseWith
<1>3. /\ Record(d, special, names) \in Base
      /\ [Record(d, special, names) EXCEPT !.export_all = TRUE] \in Base
  BY RecordType, BaseWith
<1>4. /\ [d EXCEPT !.stopped = TRUE] \in Base /\ [d EXCEPT !.second_expansion = TRUE] \in Base
      /\ [d EXCEPT !.suffixes = @ \cup names] \in Base /\ [d EXCEPT !.posix_mode = TRUE] \in Base
      /\ [d EXCEPT !.not_parallel = TRUE] \in Base
      /\ [d EXCEPT !.not_parallel_targets = @ \cup names] \in Base
  BY <1>1, BaseWith
<1> QED BY <1>2, <1>3, <1>4 DEF Special

(* The members of a list, under the two names the libraries give them.     *)
LEMMA SetRange ==
  ASSUME NEW s
  PROVE  ToSet(s) = Range(s)
BY DEF ToSet, Range

(* Looking for a default goal leaves a database.                           *)
LEMMA DefaultFromType ==
  ASSUME NEW d \in Base, NEW targets \in Seq(FileName)
  PROVE  DefaultFrom(d, targets) \in Base
<1> DEFINE S == {t \in ToSet(targets) : MayBeDefault(t)}
<1>1. Select(targets, S) \in Seq(FileName)
  BY SelectType
<1> HIDE DEF S
<1>2. Select(targets, S) # <<>> => Head(Select(targets, S)) \in FileName
  BY <1>1
<1>3. Select(targets, S) # <<>> => [d EXCEPT !.default_target = Head(Select(targets, S))] \in Base
  BY <1>2, BaseWith
<1> QED BY <1>3 DEF DefaultFrom, S

(* A pattern rule that cancels others leaves the built-ins counted.        *)
LEMMA CancelType ==
  ASSUME NEW d \in Base, NEW rule \in Rule
  PROVE  Cancel(d, rule) \in Base
<1> DEFINE n == d.builtin_pattern_rules_count
           kept == BuiltinsLeft(d, rule)
           rest == SubSeq(d.pattern_rules, n + 1, Len(d.pattern_rules))
<1>1. SubSeq(d.pattern_rules, 1, n) \in Seq(Rule) /\ rest \in Seq(Rule)
  BY BaseHolds
<1>2. kept \in Seq(Rule)
  BY <1>1, SelectType DEF BuiltinsLeft
<1>3. Cancel(d, rule) = [d EXCEPT !.pattern_rules = kept \o rest,
                                  !.builtin_pattern_rules_count = Len(kept)]
  BY DEF Cancel
<1> HIDE DEF kept, rest
<1>4. kept \o rest \in Seq(Rule) /\ Len(kept) \in Nat /\ Len(kept) <= Len(kept \o rest)
  BY <1>1, <1>2
<1> DEFINE both == kept \o rest
           count == Len(kept)
<1>5. both \in Seq(Rule) /\ count \in Nat /\ count <= Len(both)
  BY <1>4
<1>6. Cancel(d, rule) = [d EXCEPT !.pattern_rules = both, !.builtin_pattern_rules_count = count]
  BY <1>3
<1> HIDE DEF both, count
<1>7. [d EXCEPT !.pattern_rules = both, !.builtin_pattern_rules_count = count] \in Base
  BY <1>5, BaseWith
<1> QED BY <1>6, <1>7

(* Appending a pattern rule leaves the built-ins counted.                  *)
LEMMA LongerPatterns ==
  ASSUME NEW d \in Base, NEW rule \in Rule
  PROVE  [d EXCEPT !.pattern_rules = Append(@, rule)] \in Base
<1> DEFINE longer == Append(d.pattern_rules, rule)
<1>1. longer \in Seq(Rule) /\ d.builtin_pattern_rules_count <= Len(longer)
  BY BaseHolds
<1> HIDE DEF longer
<1>2. [d EXCEPT !.pattern_rules = longer] \in Base
  BY <1>1, BaseWith
<1> QED BY <1>2 DEF longer

(* The fields of a rule, one by one.                                       *)
LEMMA RuleHolds ==
  ASSUME NEW rule \in Rule
  PROVE  /\ rule.targets \in Seq(FileName \ {<<>>}) /\ rule.targets \in Seq(FileName)
         /\ Len(rule.targets) \in Nat /\ DOMAIN rule.targets = 1 .. Len(rule.targets)
         /\ \A i \in DOMAIN rule.targets : rule.targets[i] \in FileName /\ rule.targets[i] # <<>>
         /\ rule.prerequisites \in Seq(FileName) /\ rule.order_only \in Seq(FileName)
         /\ rule.recipe \in Seq(Nat) /\ rule.double_colon \in BOOLEAN
         /\ rule.grouped_siblings \in Seq(FileName) /\ rule.static_stem \in Seq(STRING)
         /\ rule.vars \in Seq(Nat) /\ rule.lineno \in Nat
         /\ rule.text_dollar \in BOOLEAN /\ rule.dollar \in BOOLEAN
         /\ ToSet(rule.prerequisites) \in SUBSET FileName
         /\ ToSet(rule.order_only) \in SUBSET FileName
<1>1. rule.prerequisites \in Seq(FileName) /\ rule.order_only \in Seq(FileName)
  BY DEF Rule
<1>2. ToSet(rule.prerequisites) \in SUBSET FileName /\ ToSet(rule.order_only) \in SUBSET FileName
  BY <1>1, RangeIn, SetRange
<1>3. rule.targets \in Seq(FileName \ {<<>>})
  BY DEF Rule
<1>4. /\ Len(rule.targets) \in Nat /\ DOMAIN rule.targets = 1 .. Len(rule.targets)
      /\ \A i \in 1 .. Len(rule.targets) : rule.targets[i] \in FileName \ {<<>>}
      /\ rule.targets \in Seq(FileName)
  BY <1>3
<1> QED BY <1>1, <1>2, <1>3, <1>4 DEF Rule

(* Registering a pattern rule leaves a database.                           *)
LEMMA RegisterPatternType ==
  ASSUME NEW d \in Base, NEW rule \in Rule
  PROVE  RegisterPattern(d, rule) \in Base
<1> DEFINE literal == {p \in ToSet(rule.prerequisites \o rule.order_only) : ~IsPattern(p)}
           more == [d EXCEPT !.explicitly_mentioned = @ \cup literal]
<1>1. literal \in SUBSET FileName
  <2>1. rule.prerequisites \o rule.order_only \in Seq(FileName)
    BY RuleHolds
  <2> QED BY <2>1, RangeIn, SetRange
<1>2. more \in Base
  <2> HIDE DEF literal
  <2> QED BY <1>1, BaseHolds, BaseWith
<1> HIDE DEF more
<1>3. Cancel(more, rule) \in Base
  BY <1>2, CancelType
<1>4. [Cancel(more, rule) EXCEPT !.pattern_rules = Append(@, rule)] \in Base
  BY <1>3, LongerPatterns
<1> QED BY <1>3, <1>4 DEF RegisterPattern, more

(* A suffix rule written as a pattern rule is a rule.                      *)
LEMMA SuffixType ==
  ASSUME NEW rule \in Rule, Len(rule.targets) = 1
  PROVE  suffix_to_pattern_rule(rule) \in Rule
<1> DEFINE target == rule.targets[1]
<1>1. target \in Seq(STRING) /\ target # <<>>
  BY RuleHolds DEF FileName
<1> HIDE DEF target
<1>2. << <<Percent>> \o Tail(target) >> \in Seq(FileName \ {<<>>})
  <2>1. Tail(target) \in Seq(STRING) /\ <<Percent>> \in Seq(STRING)
    <3>1. Percent \in STRING
      BY PercentAssumption
    <3>2. <<Percent>> \in Seq(STRING)
      BY <3>1
    <3>3. Tail(target) \in Seq(STRING)
      BY <1>1, HeadTailProperties
    <3> QED BY <3>2, <3>3
  <2>2. <<Percent>> \o Tail(target) \in FileName \ {<<>>}
    BY <2>1 DEF FileName
  <2> QED BY <2>2
<1>3. << <<Percent, target[1]>> >> \in Seq(FileName)
  <2>1. target[1] \in STRING /\ Percent \in STRING
    <3>1. Percent \in STRING
      BY PercentAssumption
    <3>2. 1 \in 1 .. Len(target)
      BY <1>1, EmptySeq
    <3>3. target[1] \in STRING
      BY <1>1, <3>2, ElementOfSeq
    <3> QED BY <3>1, <3>3
  <2>2. <<Percent, target[1]>> \in FileName
    BY <2>1 DEF FileName
  <2> QED BY <2>2
<1>4. suffix_to_pattern_rule(rule) =
        [rule EXCEPT !.targets = << <<Percent>> \o Tail(target) >>,
                     !.prerequisites = << <<Percent, target[1]>> >>]
  BY DEF suffix_to_pattern_rule, target
<1> QED BY <1>2, <1>3, <1>4 DEF Rule

(* Registering a suffix rule as a pattern rule leaves a database.          *)
LEMMA WithSuffixType ==
  ASSUME NEW d \in Base, NEW rule \in Rule
  PROVE  WithSuffixRule(d, rule) \in Base
BY SuffixType, LongerPatterns DEF WithSuffixRule

(* Taking from a list what another names leaves the rest of it.            *)
LEMMA WithoutType ==
  ASSUME NEW A, NEW s \in Seq(A), NEW t
  PROVE  Without(s, t) \in Seq(A) /\ ToSet(Without(s, t)) = ToSet(s) \ ToSet(t)
<1> DEFINE S == ToSet(s) \ ToSet(t)
<1>1. Select(s, S) \in Seq(A) /\ Range(Select(s, S)) = Range(s) \cap S
  BY SelectType, SelectRange
<1> QED BY <1>1, SetRange DEF Without

(* Each member once, in the order of the first.                            *)
LEMMA DistinctHolds ==
  ASSUME NEW A, NEW s \in Seq(A)
  PROVE  /\ Distinct(s) \in Seq(A) /\ ToSet(Distinct(s)) = ToSet(s)
         /\ IsInjective(Distinct(s))
<1> DEFINE L == Len(s)
           V == Seq(A)
           above(n, b) == IF Contains(b, s[n]) THEN b ELSE Append(b, s[n])
           step == [n \in 1 .. L |-> [b \in V |-> above(n, b)]]
           body(k) == [n \in 0 .. L |-> IF n = 0 THEN <<>> ELSE above(n, k[n - 1])]
           first == CHOOSE k : k = body(k)
<1>1. L \in Nat /\ <<>> \in V /\ DOMAIN s = 1 .. L /\ \A n \in 1 .. L : s[n] \in A
  OBVIOUS
<1>2. \A n \in 1 .. L, b \in V : above(n, b) \in V
  <2> SUFFICES ASSUME NEW n \in 1 .. L, NEW b \in V PROVE above(n, b) \in V
    OBVIOUS
  <2>1. Append(b, s[n]) \in V
    BY <1>1
  <2> QED BY <2>1
<1>3. step \in [1 .. L -> [V -> V]]
  <2> HIDE DEF L, above, V
  <2> QED BY <1>2
<1>4. PICK f : Iterates(f, L, V, <<>>, step)
  <2> HIDE DEF L, step, V
  <2> QED BY <1>1, <1>3, Recursion
<1>5. f = body(f)
  <2>1. /\ f \in [0 .. L -> V] /\ f[0] = <<>>
        /\ \A n \in 1 .. L : f[n] = step[n][f[n - 1]]
    <3> HIDE DEF L, step, V
    <3> QED BY <1>4 DEF Iterates
  <2>2. \A n \in 1 .. L : n - 1 \in 0 .. L
    BY <1>1
  <2>3. \A n \in 1 .. L : f[n] = above(n, f[n - 1])
    <3> HIDE DEF L, above, V
    <3> QED BY <2>1, <2>2
  <2>4. \A n \in 0 .. L : n = 0 \/ n \in 1 .. L
    BY <1>1
  <2> HIDE DEF L, above, V
  <2> QED BY <2>1, <2>3, <2>4
<1>6. first = body(first)
  <2> HIDE DEF body
  <2> QED BY <1>5
<1>7. Distinct(s) = first[L]
  BY DEF Distinct
<1>8. first[0] = <<>> /\ \A n \in 1 .. L : first[n] = above(n, first[n - 1])
  <2>1. \A n \in 0 .. L : first[n] = IF n = 0 THEN <<>> ELSE above(n, first[n - 1])
    <3> HIDE DEF L, first, above
    <3> QED BY <1>6
  <2>2. 0 \in 0 .. L /\ \A n \in 1 .. L : n \in 0 .. L /\ n # 0
    BY <1>1
  <2> HIDE DEF L, first, above
  <2> QED BY <2>1, <2>2
<1> HIDE DEF first
<1> DEFINE T == {n \in 0 .. L : /\ first[n] \in Seq(A) /\ IsInjective(first[n])
                                /\ Range(first[n]) = {s[i] : i \in 1 .. n}}
<1>9. 0 \in T
  <2>1. <<>> \in Seq(A) /\ IsInjective(<<>>) /\ Range(<<>>) = {}
    BY DEF IsInjective, Range
  <2>2. {s[i] : i \in 1 .. 0} = {} /\ 0 \in 0 .. L
    BY <1>1
  <2> HIDE DEF L
  <2> QED BY <1>8, <2>1, <2>2
<1>10. ASSUME NEW n \in 1 .. L, n - 1 \in T PROVE n \in T
  <2> DEFINE b == first[n - 1]
  <2>1. b \in Seq(A) /\ IsInjective(b) /\ Range(b) = {s[i] : i \in 1 .. n - 1}
    BY <1>10
  <2>2. first[n] = IF Contains(b, s[n]) THEN b ELSE Append(b, s[n])
    BY <1>8
  <2>3. s[n] \in A /\ n \in 0 .. L
    BY <1>1
  <2>4. Contains(b, s[n]) <=> s[n] \in Range(b)
    <3>1. DOMAIN b = 1 .. Len(b)
      BY <2>1
    <3> HIDE DEF b
    <3> QED BY <3>1 DEF Contains, Range
  <2>5. {s[i] : i \in 1 .. n} = {s[i] : i \in 1 .. n - 1} \cup {s[n]}
    <3>1. \A i \in 1 .. n : i = n \/ i \in 1 .. n - 1
      BY <1>1
    <3>2. n \in 1 .. n /\ \A i \in 1 .. n - 1 : i \in 1 .. n
      BY <1>1
    <3> QED BY <3>1, <3>2
  <2> HIDE DEF b
  <2>6. CASE Contains(b, s[n])
    BY <2>1, <2>2, <2>3, <2>4, <2>5, <2>6
  <2>7. CASE ~Contains(b, s[n])
    <3>1. /\ Append(b, s[n]) \in Seq(A) /\ Range(Append(b, s[n])) = Range(b) \cup {s[n]}
          /\ IsInjective(Append(b, s[n]))
      BY <2>1, <2>3, <2>4, <2>7, AppendRange
    <3> QED BY <2>1, <2>2, <2>3, <2>5, <2>7, <3>1
  <2> QED BY <2>6, <2>7
<1> HIDE DEF T
<1>11. L \in T
  <2>1. \A n \in 0 .. L : n \in T
    BY <1>1, <1>9, <1>10, Counting
  <2> QED BY <1>1, <2>1
<1>12. Range(first[L]) = {s[i] : i \in 1 .. L} /\ first[L] \in Seq(A) /\ IsInjective(first[L])
  BY <1>11 DEF T
<1>13. ToSet(s) = {s[i] : i \in 1 .. L}
  BY <1>1 DEF ToSet
<1> HIDE DEF L
<1> QED BY <1>7, <1>12, <1>13, SetRange

(* Two rules of one target merge into a rule.                              *)
LEMMA MergeType ==
  ASSUME NEW existing \in Rule, NEW rule \in Rule
  PROVE  Merge(existing, rule) \in Rule
<1> DEFINE added == Distinct(Without(rule.prerequisites, existing.prerequisites))
           weak == Without(existing.order_only, rule.prerequisites)
                     \o Without(rule.order_only, existing.prerequisites)
<1>1. added \in Seq(FileName)
  BY RuleHolds, WithoutType, DistinctHolds
<1>2. weak \in Seq(FileName)
  <2>1. /\ Without(existing.order_only, rule.prerequisites) \in Seq(FileName)
        /\ Without(rule.order_only, existing.prerequisites) \in Seq(FileName)
    BY RuleHolds, WithoutType
  <2> QED BY <2>1, ConcatProperties
<1> DEFINE strong == IF rule.recipe # <<>> THEN added \o existing.prerequisites
                     ELSE existing.prerequisites \o added
           vars_ == existing.vars \o rule.vars
<1>3. strong \in Seq(FileName) /\ vars_ \in Seq(Nat)
  <2> HIDE DEF added
  <2>1. existing.prerequisites \in Seq(FileName) /\ existing.vars \in Seq(Nat) /\ rule.vars \in Seq(Nat)
    BY RuleHolds
  <2> QED BY <1>1, <2>1, ConcatProperties
<1>4. Merge(existing, rule) =
        [existing EXCEPT
           !.prerequisites = strong, !.order_only = weak,
           !.dollar = @ \/ rule.dollar,
           !.recipe = IF rule.recipe # <<>> THEN rule.recipe ELSE @,
           !.lineno = IF rule.recipe # <<>> THEN rule.lineno ELSE @,
           !.grouped_siblings = IF rule.grouped_siblings # <<>> THEN rule.grouped_siblings ELSE @,
           !.static_stem = IF rule.static_stem # <<>> THEN rule.static_stem ELSE @,
           !.vars = vars_]
  BY DEF Merge
<1> HIDE DEF added, weak, strong, vars_
<1> QED BY <1>2, <1>3, <1>4 DEF Rule

(* What the database holds for a name is a list of rules.                  *)
LEMMA RulesOfType ==
  ASSUME NEW d \in Base, NEW target
  PROVE  RulesOf(d, target) \in Seq(Rule)
<1>1. target \in DOMAIN d.rules => d.rules[target] \in Seq(Rule)
  BY BaseHolds, TableHolds
<1> QED BY <1>1 DEF RulesOf

(* Storing a list of rules under a name leaves a database.                 *)
LEMMA SetRulesType ==
  ASSUME NEW d \in Base, NEW target \in FileName, NEW rules \in Seq(Rule)
  PROVE  SetRules(d, target, rules) \in Base
<1> DEFINE new == [t \in DOMAIN d.rules \cup {target} |-> IF t = target THEN rules ELSE d.rules[t]]
<1>1. DOMAIN d.rules \subseteq FileName /\ \A t \in DOMAIN d.rules : d.rules[t] \in Seq(Rule)
  BY BaseHolds, TableHolds
<1>2. new \in [DOMAIN d.rules \cup {target} -> Seq(Rule)]
  BY <1>1
<1>3. SetRules(d, target, rules) = [d EXCEPT !.rules = new]
  BY DEF SetRules
<1> HIDE DEF new
<1>4. new \in TablesOf(FileName, Seq(Rule))
  BY <1>1, <1>2, TableIn
<1> QED BY <1>3, <1>4, BaseWith

(* The rule as it is kept for one of its targets.                          *)
Own(rule, target) ==
  [rule EXCEPT !.grouped_siblings = Select(@, ToSet(@) \ {target})]

(* The copy of a rule that one of its targets keeps is a rule.             *)
LEMMA OwnType ==
  ASSUME NEW rule \in Rule, NEW target
  PROVE  Own(rule, target) \in Rule
<1>1. \A S : Select(rule.grouped_siblings, S) \in Seq(FileName)
  BY RuleHolds, SelectType
<1>2. Select(rule.grouped_siblings, ToSet(rule.grouped_siblings) \ {target}) \in Seq(FileName)
  BY <1>1
<1> QED BY <1>2 DEF Own, Rule

(* register_explicit appends the first rule of a target and every double-  *)
(* colon rule, and merges the others into the first.                       *)
LEMMA RegisterExplicitIs ==
  ASSUME NEW d, NEW target, NEW rule
  PROVE  RegisterExplicit(d, target, rule) =
           SetRules(d, target,
             IF RulesOf(d, target) = <<>> \/ rule.double_colon
             THEN Append(RulesOf(d, target), Own(rule, target))
             ELSE [RulesOf(d, target) EXCEPT ![1] = Merge(@, Own(rule, target))])
BY DEF RegisterExplicit, Own

(* Registering a rule under one target leaves a database.                  *)
LEMMA RegisterExplicitType ==
  ASSUME NEW d \in Base, NEW target \in FileName, NEW rule \in Rule
  PROVE  RegisterExplicit(d, target, rule) \in Base
<1> DEFINE rules == RulesOf(d, target)
           own == Own(rule, target)
<1>1. rules \in Seq(Rule) /\ own \in Rule
  BY RulesOfType, OwnType
<1> HIDE DEF rules, own
<1>2. Append(rules, own) \in Seq(Rule)
  BY <1>1
<1>3. rules # <<>> => [rules EXCEPT ![1] = Merge(@, own)] \in Seq(Rule)
  <2> SUFFICES ASSUME rules # <<>> PROVE [rules EXCEPT ![1] = Merge(rules[1], own)] \in Seq(Rule)
    OBVIOUS
  <2>1. rules[1] \in Rule
    BY <1>1, ElementOfSeq, EmptySeq
  <2>2. Merge(rules[1], own) \in Rule
    BY <1>1, <2>1, MergeType
  <2> QED BY <1>1, <2>2
<1> QED BY <1>2, <1>3, RegisterExplicitIs, SetRulesType DEF rules, own

(* The databases that registering a rule goes through: of the special      *)
(* targets and of the others.                                              *)
LEMMA SpecialsSteps ==
  ASSUME NEW d \in Base, NEW rule \in Rule
  PROVE  \E u \in [0 .. Len(rule.targets) -> Base] :
           /\ SpecialsOf(d, rule) = u[Len(rule.targets)] /\ u[0] = d
           /\ \A n \in 1 .. Len(rule.targets) : u[n] =
                IF SpecialTarget(rule.targets[n])
                THEN Special(u[n - 1], rule.targets[n][1], ToSet(rule.prerequisites))
                ELSE u[n - 1]
<1> DEFINE L == Len(rule.targets)
           V == Base
           above(n, b) == IF SpecialTarget(rule.targets[n])
                          THEN Special(b, rule.targets[n][1], ToSet(rule.prerequisites))
                          ELSE b
           step == [n \in 1 .. L |-> [b \in V |-> above(n, b)]]
           body(k) == [n \in 0 .. L |-> IF n = 0 THEN d ELSE above(n, k[n - 1])]
           upTo == CHOOSE k : k = body(k)
<1>1. L \in Nat /\ d \in V
  BY RuleHolds
<1>2. \A n \in 1 .. L, b \in V : above(n, b) \in V
  BY RuleHolds, SpecialType DEF SpecialTarget
<1>3. step \in [1 .. L -> [V -> V]]
  <2> HIDE DEF L, above, V
  <2> QED BY <1>2
<1>4. PICK g : Iterates(g, L, V, d, step)
  <2> HIDE DEF L, step, V
  <2> QED BY <1>1, <1>3, Recursion
<1>5. g = body(g)
  <2>1. /\ g \in [0 .. L -> V] /\ g[0] = d
        /\ \A n \in 1 .. L : g[n] = step[n][g[n - 1]]
    <3> HIDE DEF L, step, V
    <3> QED BY <1>4 DEF Iterates
  <2>2. \A n \in 1 .. L : n - 1 \in 0 .. L
    BY <1>1
  <2>3. \A n \in 1 .. L : g[n] = above(n, g[n - 1])
    <3> HIDE DEF L, above, V
    <3> QED BY <2>1, <2>2
  <2>4. \A n \in 0 .. L : n = 0 \/ n \in 1 .. L
    BY <1>1
  <2> HIDE DEF L, above, V
  <2> QED BY <2>1, <2>3, <2>4
<1>6. upTo = body(upTo)
  <2> HIDE DEF body
  <2> QED BY <1>5
<1>7. SpecialsOf(d, rule) = upTo[L]
  BY DEF SpecialsOf
<1>8. upTo[0] = d /\ \A n \in 1 .. L : upTo[n] = above(n, upTo[n - 1])
  <2>1. \A n \in 0 .. L : upTo[n] = IF n = 0 THEN d ELSE above(n, upTo[n - 1])
    <3> HIDE DEF L, upTo, above
    <3> QED BY <1>6
  <2>2. 0 \in 0 .. L /\ \A n \in 1 .. L : n \in 0 .. L /\ n # 0
    BY <1>1
  <2> HIDE DEF L, upTo, above
  <2> QED BY <2>1, <2>2
<1>9. Follows(upTo, L, V, d, step)
  <2>1. \A n \in 1 .. L : upTo[n - 1] \in V => upTo[n] = step[n][upTo[n - 1]]
    <3> HIDE DEF L, upTo, above, V
    <3> QED BY <1>8
  <2> HIDE DEF L, upTo, above, V, step
  <2> QED BY <1>8, <2>1 DEF Follows
<1>10. \A n \in 0 .. L : upTo[n] \in V
  <2> HIDE DEF L, upTo, step, V, above, body
  <2> QED BY <1>1, <1>3, <1>9, Unrolled
<1>11. upTo \in [0 .. L -> V]
  <2>1. upTo = [n \in 0 .. L |-> upTo[n]]
    <3> HIDE DEF L, upTo, above
    <3> QED BY <1>6
  <2> HIDE DEF L, upTo, V
  <2> QED BY <1>10, <2>1
<1> HIDE DEF upTo
<1> QED BY <1>7, <1>8, <1>11

(* A rule with several targets is registered under them one after the      *)
(* other, special targets skipped.                                         *)
LEMMA ExplicitSteps ==
  ASSUME NEW d \in Base, NEW rule \in Rule
  PROVE  \E u \in [0 .. Len(rule.targets) -> Base] :
           /\ ExplicitOf(d, rule) = u[Len(rule.targets)] /\ u[0] = d
           /\ \A n \in 1 .. Len(rule.targets) : u[n] =
                IF SpecialTarget(rule.targets[n]) THEN u[n - 1]
                ELSE RegisterExplicit(u[n - 1], rule.targets[n], rule)
<1> DEFINE L == Len(rule.targets)
           V == Base
           above(n, b) == IF SpecialTarget(rule.targets[n]) THEN b
                          ELSE RegisterExplicit(b, rule.targets[n], rule)
           step == [n \in 1 .. L |-> [b \in V |-> above(n, b)]]
           body(k) == [n \in 0 .. L |-> IF n = 0 THEN d ELSE above(n, k[n - 1])]
           upTo == CHOOSE k : k = body(k)
<1>1. L \in Nat /\ d \in V
  BY RuleHolds
<1>2. \A n \in 1 .. L, b \in V : above(n, b) \in V
  BY RuleHolds, RegisterExplicitType
<1>3. step \in [1 .. L -> [V -> V]]
  <2> HIDE DEF L, above, V
  <2> QED BY <1>2
<1>4. PICK g : Iterates(g, L, V, d, step)
  <2> HIDE DEF L, step, V
  <2> QED BY <1>1, <1>3, Recursion
<1>5. g = body(g)
  <2>1. /\ g \in [0 .. L -> V] /\ g[0] = d
        /\ \A n \in 1 .. L : g[n] = step[n][g[n - 1]]
    <3> HIDE DEF L, step, V
    <3> QED BY <1>4 DEF Iterates
  <2>2. \A n \in 1 .. L : n - 1 \in 0 .. L
    BY <1>1
  <2>3. \A n \in 1 .. L : g[n] = above(n, g[n - 1])
    <3> HIDE DEF L, above, V
    <3> QED BY <2>1, <2>2
  <2>4. \A n \in 0 .. L : n = 0 \/ n \in 1 .. L
    BY <1>1
  <2> HIDE DEF L, above, V
  <2> QED BY <2>1, <2>3, <2>4
<1>6. upTo = body(upTo)
  <2> HIDE DEF body
  <2> QED BY <1>5
<1>7. ExplicitOf(d, rule) = upTo[L]
  BY DEF ExplicitOf
<1>8. upTo[0] = d /\ \A n \in 1 .. L : upTo[n] = above(n, upTo[n - 1])
  <2>1. \A n \in 0 .. L : upTo[n] = IF n = 0 THEN d ELSE above(n, upTo[n - 1])
    <3> HIDE DEF L, upTo, above
    <3> QED BY <1>6
  <2>2. 0 \in 0 .. L /\ \A n \in 1 .. L : n \in 0 .. L /\ n # 0
    BY <1>1
  <2> HIDE DEF L, upTo, above
  <2> QED BY <2>1, <2>2
<1>9. Follows(upTo, L, V, d, step)
  <2>1. \A n \in 1 .. L : upTo[n - 1] \in V => upTo[n] = step[n][upTo[n - 1]]
    <3> HIDE DEF L, upTo, above, V
    <3> QED BY <1>8
  <2> HIDE DEF L, upTo, above, V, step
  <2> QED BY <1>8, <2>1 DEF Follows
<1>10. \A n \in 0 .. L : upTo[n] \in V
  <2> HIDE DEF L, upTo, step, V, above, body
  <2> QED BY <1>1, <1>3, <1>9, Unrolled
<1>11. upTo \in [0 .. L -> V]
  <2>1. upTo = [n \in 0 .. L |-> upTo[n]]
    <3> HIDE DEF L, upTo, above
    <3> QED BY <1>6
  <2> HIDE DEF L, upTo, V
  <2> QED BY <1>10, <2>1
<1> HIDE DEF upTo
<1> QED BY <1>7, <1>8, <1>11

(* The rule with what it mentions, before its targets get it.              *)
Started(d, rule) == DefaultFrom(SpecialsOf(d, rule), rule.targets)

(* The database after a rule's special targets, its suffix rule and its    *)
(* prerequisites are noted, before its targets are.                        *)
Mentioned(d, rule) ==
  [WithSuffixRule(Started(d, rule), rule) EXCEPT
     !.explicitly_mentioned = @ \cup ToSet(rule.prerequisites) \cup ToSet(rule.order_only)]

(* The three ways register_rule goes: refuse, keep a pattern rule,         *)
(* register every target.                                                  *)
LEMMA RegisterIs ==
  ASSUME NEW d, NEW rule
  PROVE  register_rule(d, rule) =
           IF GroupWithoutRecipe(d, rule) THEN [d EXCEPT !.stopped = TRUE]
           ELSE IF is_pattern(rule) THEN RegisterPattern(Started(d, rule), rule)
           ELSE ExplicitOf(Mentioned(d, rule), rule)
BY DEF register_rule, Mentioned, Started

(* What register_rule notes before it registers leaves a database.         *)
LEMMA StartedType ==
  ASSUME NEW d \in Base, NEW rule \in Rule
  PROVE  SpecialsOf(d, rule) \in Base /\ Started(d, rule) \in Base /\ Mentioned(d, rule) \in Base
<1>1. SpecialsOf(d, rule) \in Base
  <2>1. PICK u \in [0 .. Len(rule.targets) -> Base] : SpecialsOf(d, rule) = u[Len(rule.targets)]
    BY SpecialsSteps
  <2> QED BY <2>1, RuleHolds
<1>2. Started(d, rule) \in Base
  BY <1>1, RuleHolds, DefaultFromType DEF Started
<1> DEFINE w == WithSuffixRule(Started(d, rule), rule)
           names == w.explicitly_mentioned \cup ToSet(rule.prerequisites) \cup ToSet(rule.order_only)
<1>3. w \in Base
  BY <1>2, WithSuffixType
<1>4. Mentioned(d, rule) = [w EXCEPT !.explicitly_mentioned = names]
  BY DEF Mentioned
<1> HIDE DEF w
<1>5. names \in SUBSET FileName
  BY <1>3, BaseHolds, RuleHolds
<1> HIDE DEF names
<1> QED BY <1>1, <1>2, <1>3, <1>4, <1>5, BaseWith

(* register_rule leaves a database.                                        *)
LEMMA RegisterType ==
  ASSUME NEW d \in Base, NEW rule \in Rule
  PROVE  register_rule(d, rule) \in Base
<1>1. ExplicitOf(Mentioned(d, rule), rule) \in Base
  <2>1. PICK u \in [0 .. Len(rule.targets) -> Base] :
               ExplicitOf(Mentioned(d, rule), rule) = u[Len(rule.targets)]
    BY StartedType, ExplicitSteps
  <2> QED BY <2>1, RuleHolds
<1>2. RegisterPattern(Started(d, rule), rule) \in Base
  BY StartedType, RegisterPatternType
<1>3. [d EXCEPT !.stopped = TRUE] \in Base
  BY BaseWith
<1> QED BY <1>1, <1>2, <1>3, RegisterIs

(* The history of registered rules grows by a rule.                        *)
LEMMA LogType ==
  ASSUME NEW d \in Base, NEW rule \in Rule
  PROVE  [d EXCEPT !.log = Append(@, rule)] \in Base
<1>1. Append(d.log, rule) \in Seq(Rule)
  BY BaseHolds
<1> QED BY <1>1, BaseWith

(* The first % of a pattern, and the stem.                                 *)
LEMMA FirstPercentHolds ==
  ASSUME NEW pattern \in FileName, IsPattern(pattern)
  PROVE  FirstPercent(pattern) \in 1 .. Len(pattern)
<1> DEFINE I == {i \in 1 .. Len(pattern) : pattern[i] = Percent}
<1>1. FirstPercent(pattern) = IF I # {} THEN Min(I) ELSE 0
  BY DEF FirstPercent, SelectInSeq
<1>2. I # {} /\ I \in SUBSET Nat
  BY DEF IsPattern, Contains
<1>3. I \subseteq 1 .. Len(pattern)
  OBVIOUS
<1> HIDE DEF I
<1>4. \E m \in I : \A n \in I : m <= n
  BY <1>2, LeastNumber
<1>5. Min(I) \in I
  BY <1>4 DEF Min
<1> QED BY <1>1, <1>2, <1>3, <1>5

(* A pattern is cut at its first % into two names.                         *)
LEMMA BeforeAfterType ==
  ASSUME NEW pattern \in FileName, IsPattern(pattern)
  PROVE  /\ Before(pattern) \in FileName /\ After(pattern) \in FileName
         /\ Len(After(pattern)) = Len(pattern) - FirstPercent(pattern)
<1> DEFINE p == FirstPercent(pattern)
<1>1. p \in 1 .. Len(pattern) /\ Len(pattern) \in Nat /\ pattern \in Seq(STRING)
  BY FirstPercentHolds DEF FileName
<1> HIDE DEF p
<1>2. SubSeq(pattern, 1, p - 1) \in Seq(STRING)
  BY <1>1
<1>3. /\ SubSeq(pattern, p + 1, Len(pattern)) \in Seq(STRING)
      /\ Len(SubSeq(pattern, p + 1, Len(pattern))) = Len(pattern) - p
  BY <1>1
<1> QED BY <1>2, <1>3 DEF Before, After, FileName, p

(* What % stands for is text.                                              *)
LEMMA StemType ==
  ASSUME NEW target \in FileName, NEW pattern \in FileName, match_pattern(target, pattern)
  PROVE  Stem(target, pattern) \in Seq(STRING)
<1>1. CASE ~IsPattern(pattern)
  BY <1>1 DEF Stem
<1>2. CASE IsPattern(pattern)
  <2> DEFINE p == FirstPercent(pattern)
             n == Len(target) - Len(After(pattern))
  <2>1. /\ p \in 1 .. Len(pattern) /\ Len(pattern) \in Nat /\ Len(target) \in Nat
        /\ target \in Seq(STRING)
    BY <1>2, FirstPercentHolds DEF FileName
  <2>2. n = Len(target) - (Len(pattern) - p) /\ Len(target) >= Len(pattern) - 1
    BY <1>2, BeforeAfterType DEF match_pattern
  <2> HIDE DEF p, n
  <2>3. p \in 1 .. Len(target) + 1 /\ n \in p - 1 .. Len(target)
    BY <2>1, <2>2
  <2>4. SubSeq(target, p, n) \in Seq(STRING)
    BY <2>1, <2>3, SubSeqProperties
  <2>5. Stem(target, pattern) = SubSeq(target, p, n)
    BY <1>2 DEF Stem, p, n
  <2> QED BY <2>4, <2>5
<1> QED BY <1>1, <1>2

(* A pattern with its % filled in is a name.                               *)
LEMMA ApplyStemType ==
  ASSUME NEW pattern \in FileName, NEW stem \in Seq(STRING)
  PROVE  apply_stem(pattern, stem) \in FileName
<1>1. CASE IsPattern(pattern)
  <2>1. Before(pattern) \in Seq(STRING) /\ After(pattern) \in Seq(STRING)
    BY <1>1, BeforeAfterType DEF FileName
  <2>2. Before(pattern) \o stem \in Seq(STRING)
    BY <2>1, ConcatProperties
  <2>3. Before(pattern) \o stem \o After(pattern) \in Seq(STRING)
    BY <2>1, <2>2, ConcatProperties
  <2> QED BY <1>1, <2>3 DEF apply_stem, FileName
<1>2. CASE ~IsPattern(pattern)
  BY <1>2 DEF apply_stem
<1> QED BY <1>1, <1>2

(* What registering a rule leaves alone of the database.                   *)
Quiet(d, e) ==
  /\ e.log = d.log /\ e.default_goal_explicit = d.default_goal_explicit
  /\ d.stopped => e.stopped

(* What registering the explicit targets of a rule leaves alone.           *)
Silent(d, e) ==
  /\ Quiet(d, e) /\ e.stopped = d.stopped
  /\ e.default_target = d.default_target /\ e.second_expansion = d.second_expansion
  /\ e.special_targets = d.special_targets
  /\ e.pattern_rules = d.pattern_rules
  /\ e.builtin_pattern_rules_count = d.builtin_pattern_rules_count

(* Two steps that leave the tables alone leave them alone together.        *)
LEMMA SilentTwice ==
  ASSUME NEW d, NEW e, NEW g, Silent(d, e), Silent(e, g)
  PROVE  Silent(d, g)
BY DEF Silent, Quiet

(* Only the targets that mark intermediate files can conflict.             *)
LEMMA ConflictNever ==
  ASSUME NEW d, NEW names
  PROVE  ~Conflict(d, "SECONDEXPANSION", names)
BY DEF Conflict

(* A special target touches no rule, and of second expansion only what     *)
(* .SECONDEXPANSION says.                                                  *)
LEMMA SpecialIs ==
  ASSUME NEW d \in Base, NEW special \in Specials, NEW names \in SUBSET FileName
  PROVE  /\ Quiet(d, Special(d, special, names))
         /\ Special(d, special, names).rules = d.rules
         /\ Special(d, special, names).default_target = d.default_target
         /\ Special(d, special, names).second_expansion
              <=> d.second_expansion \/ special = "SECONDEXPANSION"
<1>1. CASE Conflict(d, special, names)
  <2>1. special # "SECONDEXPANSION"
    BY <1>1, ConflictNever
  <2> QED BY <1>1, <2>1 DEF Special, Quiet, Base, Database
<1>2. CASE ~Conflict(d, special, names)
  <2>1. CASE special = "SECONDEXPANSION"
    BY <1>2, <2>1 DEF Special, Quiet, Base, Database
  <2>2. CASE special = "SUFFIXES"
    BY <1>2, <2>2 DEF Special, Quiet, Base, Database, DropBuiltins
  <2>3. CASE special \in {"POSIX", "NOTPARALLEL"}
    BY <1>2, <2>3 DEF Special, Quiet, Base, Database
  <2>4. CASE special = "EXPORT_ALL_VARIABLES"
    BY <1>2, <2>4 DEF Special, Quiet, Base, Database, Record
  <2>5. CASE special \notin {"SECONDEXPANSION", "SUFFIXES", "POSIX", "NOTPARALLEL",
                             "EXPORT_ALL_VARIABLES"}
    <3>1. Special(d, special, names) = Record(d, special, names)
      BY <1>2, <2>5 DEF Special
    <3> QED BY <2>5, <3>1 DEF Quiet, Base, Database, Record
  <2> QED BY <2>1, <2>2, <2>3, <2>4, <2>5
<1> QED BY <1>1, <1>2

(* .SECONDEXPANSION is among the targets of the rule.                      *)
SecondOf(rule) == Contains(rule.targets, <<"SECONDEXPANSION">>)

(* Second expansion is switched on by the last of some targets or by one   *)
(* before it.                                                              *)
LEMMA SecondAt ==
  ASSUME NEW rule \in Rule
  PROVE  /\ SecondOf(rule) <=> \E i \in 1 .. Len(rule.targets) : rule.targets[i] = <<"SECONDEXPANSION">>
         /\ \A i \in 1 .. Len(rule.targets) :
              rule.targets[i] = <<"SECONDEXPANSION">>
                <=> SpecialTarget(rule.targets[i]) /\ rule.targets[i][1] = "SECONDEXPANSION"
<1>1. DOMAIN rule.targets = 1 .. Len(rule.targets)
  BY RuleHolds
<1>2. ASSUME NEW i \in 1 .. Len(rule.targets)
      PROVE  rule.targets[i] = <<"SECONDEXPANSION">>
                <=> SpecialTarget(rule.targets[i]) /\ rule.targets[i][1] = "SECONDEXPANSION"
  <2> DEFINE t == rule.targets[i]
  <2>1. t \in Seq(STRING)
    BY <1>1, <1>2, RuleHolds DEF FileName
  <2>2. t = <<"SECONDEXPANSION">> => Len(t) = 1 /\ t[1] = "SECONDEXPANSION"
    OBVIOUS
  <2>3. Len(t) = 1 /\ t[1] = "SECONDEXPANSION" => t = <<"SECONDEXPANSION">>
    <3> HIDE DEF t
    <3> QED BY <2>1
  <2> HIDE DEF t
  <2>4. SpecialTarget(t) <=> Len(t) = 1 /\ t[1] \in Specials
    BY DEF SpecialTarget
  <2>5. "SECONDEXPANSION" \in Specials
    BY DEF Specials
  <2> QED BY <2>2, <2>3, <2>4, <2>5 DEF t
<1> QED BY <1>1, <1>2 DEF SecondOf, Contains

(* All special targets of a rule together.                                 *)
LEMMA SpecialsIs ==
  ASSUME NEW d \in Base, NEW rule \in Rule
  PROVE  /\ Quiet(d, SpecialsOf(d, rule)) /\ SpecialsOf(d, rule).rules = d.rules
         /\ SpecialsOf(d, rule).default_target = d.default_target
         /\ SpecialsOf(d, rule).second_expansion <=> d.second_expansion \/ SecondOf(rule)
<1> DEFINE L == Len(rule.targets)
           names == ToSet(rule.prerequisites)
<1>1. PICK u \in [0 .. L -> Base] :
        /\ SpecialsOf(d, rule) = u[L] /\ u[0] = d
        /\ \A n \in 1 .. L : u[n] =
             IF SpecialTarget(rule.targets[n])
             THEN Special(u[n - 1], rule.targets[n][1], names)
             ELSE u[n - 1]
  BY SpecialsSteps
<1>2. L \in Nat /\ names \in SUBSET FileName
  BY RuleHolds
<1> DEFINE Told(n) == \E i \in 1 .. n : rule.targets[i] = <<"SECONDEXPANSION">>
           Holds(n) == /\ Quiet(d, u[n]) /\ u[n].rules = d.rules
                       /\ u[n].default_target = d.default_target
                       /\ u[n].second_expansion <=> d.second_expansion \/ Told(n)
           T == {n \in 0 .. L : Holds(n)}
<1> HIDE DEF L, names
<1>3. 0 \in T
  <2>1. ~Told(0)
    OBVIOUS
  <2>2. Quiet(d, d) /\ d.second_expansion \in BOOLEAN
    BY BaseHolds DEF Quiet
  <2> QED BY <1>1, <1>2, <2>1, <2>2
<1>4. ASSUME NEW n \in 1 .. L, n - 1 \in T
      PROVE  n \in T
  <2> DEFINE b == u[n - 1]
  <2>1. b \in Base /\ Holds(n - 1)
    BY <1>1, <1>2, <1>4
  <2>2. Told(n) <=> Told(n - 1) \/ rule.targets[n] = <<"SECONDEXPANSION">>
    BY <1>2
  <2>3. rule.targets[n] = <<"SECONDEXPANSION">>
                <=> SpecialTarget(rule.targets[n]) /\ rule.targets[n][1] = "SECONDEXPANSION"
    BY SecondAt DEF L
  <2>4. CASE SpecialTarget(rule.targets[n])
    <3> DEFINE e == Special(b, rule.targets[n][1], names)
    <3>1. rule.targets[n][1] \in Specials
      BY <2>4 DEF SpecialTarget
    <3>2. /\ Quiet(b, e) /\ e.rules = b.rules /\ e.default_target = b.default_target
          /\ e.second_expansion <=> b.second_expansion \/ rule.targets[n][1] = "SECONDEXPANSION"
      <4> HIDE DEF b
      <4> QED BY <1>2, <2>1, <3>1, SpecialIs
    <3>3. u[n] = e
      BY <1>1, <2>4
    <3>4. Quiet(d, b) /\ b.rules = d.rules /\ b.default_target = d.default_target
          /\ (b.second_expansion <=> d.second_expansion \/ Told(n - 1))
      BY <2>1
    <3> HIDE DEF b, e, Told
    <3>5. Quiet(d, e)
      BY <3>2, <3>4 DEF Quiet
    <3> QED BY <2>2, <2>3, <2>4, <3>2, <3>3, <3>4, <3>5
  <2>5. CASE ~SpecialTarget(rule.targets[n])
    <3>1. u[n] = u[n - 1]
      BY <1>1, <2>5
    <3> HIDE DEF Told
    <3> QED BY <2>1, <2>2, <2>3, <2>5, <3>1
  <2> QED BY <2>4, <2>5
<1>5. \A n \in 0 .. L : n \in T
  <2> HIDE DEF T
  <2> QED BY <1>2, <1>3, <1>4, Counting
<1>6. Holds(L)
  <2>1. L \in 0 .. L
    BY <1>2
  <2> QED BY <1>5, <2>1
<1>7. Told(L) <=> SecondOf(rule)
  BY SecondAt DEF L
<1> HIDE DEF Told
<1> QED BY <1>1, <1>6, <1>7

(* A suffix rule adds at most one pattern rule, which has a line.          *)
LEMMA WithSuffixIs ==
  ASSUME NEW d \in Base, NEW rule \in Rule
  PROVE  /\ Quiet(d, WithSuffixRule(d, rule)) /\ WithSuffixRule(d, rule).rules = d.rules
         /\ WithSuffixRule(d, rule).stopped = d.stopped
         /\ WithSuffixRule(d, rule).default_target = d.default_target
         /\ WithSuffixRule(d, rule).second_expansion = d.second_expansion
         /\ WithSuffixRule(d, rule).special_targets = d.special_targets
         /\ WithSuffixRule(d, rule).builtin_pattern_rules_count = d.builtin_pattern_rules_count
         /\ \/ WithSuffixRule(d, rule).pattern_rules = d.pattern_rules
            \/ /\ Len(rule.targets) = 1
               /\ WithSuffixRule(d, rule).pattern_rules
                    = Append(d.pattern_rules, suffix_to_pattern_rule(rule))
BY DEF WithSuffixRule, Quiet, Base, Database

(* Storing the rules of one name leaves those of the others alone.         *)
LEMMA SetRulesIs ==
  ASSUME NEW d \in Base, NEW target, NEW rules
  PROVE  /\ Silent(d, SetRules(d, target, rules))
         /\ \A t : RulesOf(SetRules(d, target, rules), t)
                     = IF t = target THEN rules ELSE RulesOf(d, t)
         /\ DOMAIN SetRules(d, target, rules).rules = DOMAIN d.rules \cup {target}
<1> DEFINE new == [t \in DOMAIN d.rules \cup {target} |-> IF t = target THEN rules ELSE d.rules[t]]
           e == [d EXCEPT !.rules = new]
<1>1. SetRules(d, target, rules) = e
  BY DEF SetRules
<1>2. DOMAIN new = DOMAIN d.rules \cup {target}
      /\ \A t \in DOMAIN d.rules \cup {target} : new[t] = IF t = target THEN rules ELSE d.rules[t]
  OBVIOUS
<1> HIDE DEF new
<1>3. Silent(d, e) /\ e.rules = new
  BY DEF Silent, Quiet, Base, Database
<1> HIDE DEF e
<1> QED BY <1>1, <1>2, <1>3 DEF RulesOf

(* Registering a rule under one target touches the rules of that target    *)
(* only.                                                                   *)
LEMMA ExplicitIs ==
  ASSUME NEW d \in Base, NEW rule \in Rule
  PROVE  Silent(d, ExplicitOf(d, rule))
<1> DEFINE L == Len(rule.targets)
<1>1. PICK u \in [0 .. L -> Base] :
        /\ ExplicitOf(d, rule) = u[L] /\ u[0] = d
        /\ \A n \in 1 .. L : u[n] =
             IF SpecialTarget(rule.targets[n]) THEN u[n - 1]
             ELSE RegisterExplicit(u[n - 1], rule.targets[n], rule)
  BY ExplicitSteps
<1>2. L \in Nat
  BY RuleHolds
<1> DEFINE S == {n \in 0 .. L : Silent(d, u[n])}
<1> HIDE DEF L
<1>3. 0 \in S
  BY <1>1, <1>2 DEF Silent, Quiet
<1>4. ASSUME NEW n \in 1 .. L, n - 1 \in S
      PROVE  n \in S
  <2> DEFINE b == u[n - 1]
  <2>1. b \in Base /\ Silent(d, b) /\ n \in 0 .. L
    BY <1>1, <1>2, <1>4
  <2> HIDE DEF b
  <2>2. Silent(b, RegisterExplicit(b, rule.targets[n], rule))
    BY <2>1, RegisterExplicitIs, SetRulesIs
  <2>3. Silent(d, RegisterExplicit(b, rule.targets[n], rule))
    BY <2>1, <2>2, SilentTwice
  <2> QED BY <1>1, <2>1, <2>3 DEF b
<1>5. \A n \in 0 .. L : n \in S
  <2> HIDE DEF S
  <2> QED BY <1>2, <1>3, <1>4, Counting
<1>6. L \in 0 .. L
  BY <1>2
<1> QED BY <1>1, <1>5, <1>6

(* Cancelling cuts built-in rules away and lowers their count by as many.  *)
LEMMA CancelIs ==
  ASSUME NEW d \in Base, NEW rule
  PROVE  /\ Quiet(d, Cancel(d, rule)) /\ Cancel(d, rule).rules = d.rules
         /\ Cancel(d, rule).stopped = d.stopped
         /\ Cancel(d, rule).default_target = d.default_target
         /\ Cancel(d, rule).second_expansion = d.second_expansion
         /\ Cancel(d, rule).special_targets = d.special_targets
         /\ Cancel(d, rule).builtin_pattern_rules_count = Len(BuiltinsLeft(d, rule))
         /\ Cancel(d, rule).pattern_rules
              = BuiltinsLeft(d, rule) \o SubSeq(d.pattern_rules, d.builtin_pattern_rules_count + 1,
                                                Len(d.pattern_rules))
<1> DEFINE kept == BuiltinsLeft(d, rule)
           count == Len(kept)
           both == kept \o SubSeq(d.pattern_rules, d.builtin_pattern_rules_count + 1,
                                                Len(d.pattern_rules))
<1>1. Cancel(d, rule) = [d EXCEPT !.pattern_rules = both, !.builtin_pattern_rules_count = count]
  BY DEF Cancel
<1>2. both = BuiltinsLeft(d, rule) \o SubSeq(d.pattern_rules, d.builtin_pattern_rules_count + 1,
                                                Len(d.pattern_rules))
      /\ count = Len(BuiltinsLeft(d, rule))
  OBVIOUS
<1> HIDE DEF kept, both, count
<1> DEFINE e == [d EXCEPT !.pattern_rules = both, !.builtin_pattern_rules_count = count]
<1>3. /\ Quiet(d, e) /\ e.rules = d.rules /\ e.stopped = d.stopped
      /\ e.default_target = d.default_target /\ e.second_expansion = d.second_expansion
      /\ e.special_targets = d.special_targets /\ e.builtin_pattern_rules_count = count
      /\ e.pattern_rules = both
  BY DEF Quiet, Base, Database
<1> HIDE DEF e
<1>4. Cancel(d, rule) = e
  BY <1>1 DEF e
<1> QED BY <1>2, <1>3, <1>4

(* Registering a pattern rule cancels built-in ones and appends it, or     *)
(* only cancels.                                                           *)
LEMMA RegisterPatternIs ==
  ASSUME NEW d \in Base, NEW rule \in Rule
  PROVE  /\ Quiet(d, RegisterPattern(d, rule)) /\ RegisterPattern(d, rule).rules = d.rules
         /\ RegisterPattern(d, rule).stopped = d.stopped
         /\ RegisterPattern(d, rule).default_target = d.default_target
         /\ RegisterPattern(d, rule).second_expansion = d.second_expansion
         /\ RegisterPattern(d, rule).special_targets = d.special_targets
         /\ RegisterPattern(d, rule).builtin_pattern_rules_count = Len(BuiltinsLeft(d, rule))
         /\ \E last \in {<<>>, <<rule>>} :
              RegisterPattern(d, rule).pattern_rules
                = (BuiltinsLeft(d, rule) \o SubSeq(d.pattern_rules, d.builtin_pattern_rules_count + 1,
                                                   Len(d.pattern_rules))) \o last
<1> DEFINE literal == {p \in ToSet(rule.prerequisites \o rule.order_only) : ~IsPattern(p)}
           names == d.explicitly_mentioned \cup literal
           more == [d EXCEPT !.explicitly_mentioned = names]
           b == Cancel(more, rule)
           left == BuiltinsLeft(d, rule)
           rest == SubSeq(d.pattern_rules, d.builtin_pattern_rules_count + 1, Len(d.pattern_rules))
<1>1. literal \in SUBSET FileName
  <2>1. rule.prerequisites \o rule.order_only \in Seq(FileName)
    BY RuleHolds
  <2> QED BY <2>1, RangeIn, SetRange
<1>2. names \in SUBSET FileName
  <2> HIDE DEF literal
  <2> QED BY <1>1, BaseHolds
<1>3. \/ RegisterPattern(d, rule) = b
      \/ RegisterPattern(d, rule) = [b EXCEPT !.pattern_rules = Append(@, rule)]
  BY DEF RegisterPattern
<1> HIDE DEF names
<1>4. more \in Base
  BY <1>2, BaseWith
<1>5. /\ Quiet(d, more) /\ more.rules = d.rules /\ more.default_target = d.default_target
      /\ more.stopped = d.stopped
      /\ more.second_expansion = d.second_expansion /\ more.special_targets = d.special_targets
      /\ more.builtin_pattern_rules_count = d.builtin_pattern_rules_count
      /\ more.pattern_rules = d.pattern_rules
  BY DEF Quiet, Base, Database
<1> HIDE DEF more
<1>6. BuiltinsLeft(more, rule) = left
  BY <1>5 DEF BuiltinsLeft
<1>7. /\ Quiet(more, b) /\ b.rules = more.rules /\ b.default_target = more.default_target
      /\ b.stopped = more.stopped
      /\ b.second_expansion = more.second_expansion /\ b.special_targets = more.special_targets
      /\ b.builtin_pattern_rules_count = Len(left)
      /\ b.pattern_rules = left \o rest
  BY <1>4, <1>5, <1>6, CancelIs
<1>8. b \in Base
  BY <1>4, CancelType
<1> HIDE DEF b
<1>9. left \o rest \in Seq(Rule)
  BY <1>7, <1>8, BaseHolds
<1>10. left = BuiltinsLeft(d, rule) /\ rest = SubSeq(d.pattern_rules, d.builtin_pattern_rules_count + 1, Len(d.pattern_rules))
  OBVIOUS
<1> DEFINE both == left \o rest
<1> HIDE DEF left, rest
<1>11. both \o <<>> = both /\ both \o <<rule>> = Append(both, rule)
  BY <1>9
<1>12. both = BuiltinsLeft(d, rule) \o SubSeq(d.pattern_rules, d.builtin_pattern_rules_count + 1,
                                              Len(d.pattern_rules))
  BY <1>10
<1>13. b.pattern_rules = both
  BY <1>7
<1>14. Quiet(d, b)
  BY <1>5, <1>7 DEF Quiet
<1> HIDE DEF both
<1>15. CASE RegisterPattern(d, rule) = b
  BY <1>5, <1>7, <1>10, <1>11, <1>12, <1>13, <1>14, <1>15
<1>16. CASE RegisterPattern(d, rule) = [b EXCEPT !.pattern_rules = Append(@, rule)]
  <2> DEFINE longer == Append(both, rule)
             e == [b EXCEPT !.pattern_rules = longer]
  <2>1. RegisterPattern(d, rule) = e
    BY <1>13, <1>16
  <2>2. longer = both \o <<rule>>
    BY <1>11
  <2> HIDE DEF longer
  <2>3. /\ e.log = b.log /\ e.default_goal_explicit = b.default_goal_explicit
        /\ e.stopped = b.stopped /\ e.rules = b.rules /\ e.default_target = b.default_target
        /\ e.second_expansion = b.second_expansion /\ e.special_targets = b.special_targets
        /\ e.builtin_pattern_rules_count = b.builtin_pattern_rules_count
        /\ e.pattern_rules = longer
    BY <1>8 DEF Base, Database
  <2> HIDE DEF e
  <2>4. Quiet(d, e)
    BY <1>14, <2>3 DEF Quiet
  <2> QED BY <1>5, <1>7, <1>10, <1>12, <2>1, <2>2, <2>3, <2>4
<1> QED BY <1>3, <1>15, <1>16

(* Only which members are in the set matters.                              *)
LEMMA SelectSame ==
  ASSUME NEW A, NEW seq \in Seq(A), NEW S, NEW R,
         \A i \in DOMAIN seq : seq[i] \in S <=> seq[i] \in R
  PROVE  Select(seq, S) = Select(seq, R)
<1> DEFINE AsWas(u) == \A i \in DOMAIN u : u[i] \in S <=> u[i] \in R
           T == {u \in Seq(A) : AsWas(u) => Select(u, S) = Select(u, R)}
<1>1. <<>> \in T
  BY SelectEmpty
<1>2. ASSUME NEW u \in Seq(A), NEW e \in A, u \in T
      PROVE  Append(u, e) \in T
  <2> DEFINE v == Append(u, e)
  <2>1. /\ v \in Seq(A) /\ Len(v) = Len(u) + 1 /\ v[Len(u) + 1] = e
        /\ DOMAIN v = 1 .. Len(u) + 1 /\ DOMAIN u = 1 .. Len(u)
        /\ \A i \in 1 .. Len(u) : v[i] = u[i]
    BY <1>2
  <2>2. AsWas(v) => AsWas(u) /\ (e \in S <=> e \in R)
    <3> HIDE DEF v
    <3>1. Len(u) + 1 \in DOMAIN v /\ \A i \in DOMAIN u : i \in DOMAIN v /\ v[i] = u[i]
      <4>1. Len(u) \in Nat
        BY <1>2
      <4> QED BY <2>1, <4>1
    <3> QED BY <2>1, <3>1
  <2>3. /\ Select(v, S) = IF e \in S THEN Append(Select(u, S), e) ELSE Select(u, S)
        /\ Select(v, R) = IF e \in R THEN Append(Select(u, R), e) ELSE Select(u, R)
    BY <1>2, SelectAppend
  <2>4. AsWas(u) => Select(u, S) = Select(u, R)
    BY <1>2
  <2>5. AsWas(v) => Select(v, S) = Select(v, R)
    <3> HIDE DEF v, AsWas
    <3> QED BY <2>2, <2>3, <2>4
  <2>6. v \in Seq(A)
    BY <2>1
  <2> HIDE DEF v, AsWas
  <2> QED BY <2>5, <2>6 DEF v
<1>3. \A u \in Seq(A) : u \in T
  <2> HIDE DEF T
  <2> QED BY <1>1, <1>2, SequenceInduction
<1>4. seq \in T /\ AsWas(seq)
  BY <1>3
<1> QED BY <1>4

(* The rules of a target among those registered, and what is to come of    *)
(* them.                                                                   *)
OfTarget(t) == {r \in Rule : Contains(r.targets, t) /\ ~is_pattern(r)}

(* The rules of a target among those registered.                           *)
GivenIn(log, t) ==
  Select(log, {r \in ToSet(log) : Contains(r.targets, t) /\ ~is_pattern(r)})

(* The normal prerequisites that some rules have together.                 *)
NormalOf(seen) == UNION {ToSet(seen[i].prerequisites) : i \in DOMAIN seen}

(* Their order-only prerequisites.                                         *)
WeakOf(seen) == UNION {ToSet(seen[i].order_only) : i \in DOMAIN seen}

(* Those of them that have a recipe.                                       *)
CookedOf(seen) == Select(seen, {r \in ToSet(seen) : r.recipe # <<>>})

(* The recipe that wins among them.                                        *)
LastRecipe(seen) == IF CookedOf(seen) = <<>> THEN <<>> ELSE Last(CookedOf(seen)).recipe

(* What stands in a list is a member of it.                                *)
LEMMA InRange ==
  ASSUME NEW A, NEW seq \in Seq(A), NEW i \in DOMAIN seq
  PROVE  seq[i] \in ToSet(seq) /\ seq[i] \in A
BY DEF ToSet

(* The rules of a target are selected by a set that does not depend on the *)
(* history.                                                                *)
LEMMA GivenIs ==
  ASSUME NEW log \in Seq(Rule), NEW t
  PROVE  GivenIn(log, t) = Select(log, OfTarget(t)) /\ GivenIn(log, t) \in Seq(Rule)
<1> DEFINE S == {r \in ToSet(log) : Contains(r.targets, t) /\ ~is_pattern(r)}
<1>1. \A i \in DOMAIN log : log[i] \in S <=> log[i] \in OfTarget(t)
  BY InRange DEF OfTarget
<1>2. GivenIn(log, t) = Select(log, S)
  BY DEF GivenIn
<1> HIDE DEF S
<1> QED BY <1>1, <1>2, SelectSame, SelectType

(* A newly registered rule comes last among those of its targets.          *)
LEMMA GivenAppend ==
  ASSUME NEW log \in Seq(Rule), NEW rule \in Rule, NEW t
  PROVE  GivenIn(Append(log, rule), t)
           = IF Contains(rule.targets, t) /\ ~is_pattern(rule)
             THEN Append(GivenIn(log, t), rule) ELSE GivenIn(log, t)
<1>1. Append(log, rule) \in Seq(Rule)
  OBVIOUS
<1>2. /\ GivenIn(log, t) = Select(log, OfTarget(t))
      /\ GivenIn(Append(log, rule), t) = Select(Append(log, rule), OfTarget(t))
  BY <1>1, GivenIs
<1>3. rule \in OfTarget(t) <=> Contains(rule.targets, t) /\ ~is_pattern(rule)
  BY DEF OfTarget
<1> QED BY <1>2, <1>3, SelectAppend

(* The rules that have a recipe.                                           *)
Cooked_ == {r \in Rule : r.recipe # <<>>}

(* Those with a recipe are selected by a set that does not depend on the   *)
(* list.                                                                   *)
LEMMA CookedIs ==
  ASSUME NEW seen \in Seq(Rule)
  PROVE  CookedOf(seen) = Select(seen, Cooked_) /\ CookedOf(seen) \in Seq(Rule)
<1> DEFINE S == {r \in ToSet(seen) : r.recipe # <<>>}
<1>1. \A i \in DOMAIN seen : seen[i] \in S <=> seen[i] \in Cooked_
  BY InRange DEF Cooked_
<1>2. CookedOf(seen) = Select(seen, S)
  BY DEF CookedOf
<1> HIDE DEF S
<1> QED BY <1>1, <1>2, SelectSame, SelectType

(* The rule of a target is what rules with these prerequisites make.       *)
Fits(r, normal, weak, once, recipe) ==
  /\ ToSet(r.prerequisites) = normal
  /\ weak \ normal \subseteq ToSet(r.order_only) /\ ToSet(r.order_only) \subseteq weak
  /\ once => IsInjective(r.prerequisites) /\ ToSet(r.order_only) = weak \ normal
  /\ r.recipe = recipe

(* No prerequisite is named twice where none is named.                     *)
LEMMA EmptySet ==
  ToSet(<<>>) = {} /\ IsInjective(<<>>)
BY DEF ToSet, IsInjective

(* The copy a target keeps of its rule has its prerequisites and recipe.   *)
LEMMA FitsOwn ==
  ASSUME NEW rule \in Rule, NEW target, NEW normal, NEW weak, NEW once, NEW recipe
  PROVE  /\ Own(rule, target).prerequisites = rule.prerequisites
         /\ Own(rule, target).order_only = rule.order_only
         /\ Own(rule, target).recipe = rule.recipe
BY DEF Own, Rule

(* A rule leaves those of other targets alone.                             *)
LEMMA ExplicitOthers ==
  ASSUME NEW d \in Base, NEW rule \in Rule, NEW t, ~Contains(rule.targets, t)
  PROVE  /\ RulesOf(ExplicitOf(d, rule), t) = RulesOf(d, t)
         /\ t \in DOMAIN ExplicitOf(d, rule).rules <=> t \in DOMAIN d.rules
<1> DEFINE L == Len(rule.targets)
<1>1. PICK u \in [0 .. L -> Base] :
        /\ ExplicitOf(d, rule) = u[L] /\ u[0] = d
        /\ \A n \in 1 .. L : u[n] =
             IF SpecialTarget(rule.targets[n]) THEN u[n - 1]
             ELSE RegisterExplicit(u[n - 1], rule.targets[n], rule)
  BY ExplicitSteps
<1>2. L \in Nat /\ \A n \in 1 .. L : rule.targets[n] # t
  BY RuleHolds DEF Contains
<1> HIDE DEF L
<1> DEFINE AsWas(b) == /\ RulesOf(b, t) = RulesOf(d, t)
                       /\ t \in DOMAIN b.rules <=> t \in DOMAIN d.rules
           T == {n \in 0 .. L : AsWas(u[n])}
<1>3. 0 \in T
  BY <1>1, <1>2
<1>4. ASSUME NEW n \in 1 .. L, n - 1 \in T
      PROVE  n \in T
  <2> DEFINE b == u[n - 1]
  <2>1. b \in Base /\ AsWas(b) /\ n \in 0 .. L
    BY <1>1, <1>2, <1>4
  <2> HIDE DEF b
  <2>2. AsWas(RegisterExplicit(b, rule.targets[n], rule))
    <3> DEFINE target == rule.targets[n]
               new == IF RulesOf(b, target) = <<>> \/ rule.double_colon
                      THEN Append(RulesOf(b, target), Own(rule, target))
                      ELSE [RulesOf(b, target) EXCEPT ![1] = Merge(@, Own(rule, target))]
    <3>1. RegisterExplicit(b, target, rule) = SetRules(b, target, new)
      BY RegisterExplicitIs
    <3> HIDE DEF new
    <3>2. /\ \A y : RulesOf(SetRules(b, target, new), y) = IF y = target THEN new ELSE RulesOf(b, y)
          /\ DOMAIN SetRules(b, target, new).rules = DOMAIN b.rules \cup {target}
      BY <2>1, SetRulesIs
    <3>3. target # t
      BY <1>2
    <3> HIDE DEF target
    <3>4. AsWas(SetRules(b, target, new))
      BY <2>1, <3>2, <3>3
    <3> QED BY <3>1, <3>4 DEF target
  <2>3. u[n] = b \/ u[n] = RegisterExplicit(b, rule.targets[n], rule)
    BY <1>1 DEF b
  <2> QED BY <2>1, <2>2, <2>3
<1>5. \A n \in 0 .. L : n \in T
  <2> HIDE DEF T
  <2> QED BY <1>2, <1>3, <1>4, Counting
<1>6. L \in 0 .. L
  BY <1>2
<1> QED BY <1>1, <1>5, <1>6

(* A target with one more rule.                                            *)
LEMMA OneMore ==
  ASSUME NEW seen \in Seq(Rule), NEW rule \in Rule
  PROVE  /\ Append(seen, rule) # <<>>
         /\ (\A i \in DOMAIN Append(seen, rule) : ~Append(seen, rule)[i].double_colon)
              <=> (\A i \in DOMAIN seen : ~seen[i].double_colon) /\ ~rule.double_colon
<1> DEFINE v == Append(seen, rule)
           n == Len(seen)
<1>1. /\ n \in Nat /\ DOMAIN v = 1 .. n + 1 /\ DOMAIN seen = 1 .. n /\ v[n + 1] = rule
      /\ \A i \in 1 .. n : v[i] = seen[i]
  OBVIOUS
<1>2. 1 .. n + 1 = 1 .. n \cup {n + 1}
  BY <1>1
<1>3. v # <<>>
  <2>1. v[n + 1] = rule /\ n + 1 \in DOMAIN v
    BY <1>1
  <2>2. DOMAIN <<>> = {}
    OBVIOUS
  <2> QED BY <2>1, <2>2
<1> HIDE DEF v, n
<1> QED BY <1>1, <1>2, <1>3 DEF v

(* The first n rules are the built-in ones, which have no line.            *)
SplitAt(patterns, n) ==
  \A i \in DOMAIN patterns : i <= n <=> patterns[i].lineno = 0

(* Without the built-in rules none is left.                                *)
LEMMA SplitNone ==
  ASSUME NEW patterns \in Seq(Rule), NEW n \in 0 .. Len(patterns), SplitAt(patterns, n)
  PROVE  /\ SubSeq(patterns, n + 1, Len(patterns)) \in Seq(Rule)
         /\ SplitAt(SubSeq(patterns, n + 1, Len(patterns)), 0)
         /\ SubSeq(patterns, 1, n) \in Seq(Rule)
         /\ \A i \in DOMAIN SubSeq(patterns, 1, n) : SubSeq(patterns, 1, n)[i].lineno = 0
<1> DEFINE L == Len(patterns)
           rest == SubSeq(patterns, n + 1, L)
           first == SubSeq(patterns, 1, n)
<1>1. L \in Nat /\ n \in Nat /\ n <= L /\ DOMAIN patterns = 1 .. L
      /\ \A i \in 1 .. L : patterns[i] \in Rule
  OBVIOUS
<1> HIDE DEF L
<1>2. /\ rest \in Seq(Rule) /\ DOMAIN rest = 1 .. L - n
      /\ \A i \in 1 .. L - n : rest[i] = patterns[n + i]
  BY <1>1 DEF L
<1>3. /\ first \in Seq(Rule) /\ DOMAIN first = 1 .. n
      /\ \A i \in 1 .. n : first[i] = patterns[i]
  BY <1>1 DEF L
<1> HIDE DEF rest, first
<1>4. ASSUME NEW i \in 1 .. L - n
      PROVE  rest[i].lineno # 0 /\ ~(i <= 0)
  <2>1. n + i \in 1 .. L /\ ~(n + i <= n) /\ ~(i <= 0)
    BY <1>1
  <2> QED BY <1>1, <1>2, <2>1 DEF SplitAt
<1>5. SplitAt(rest, 0)
  BY <1>2, <1>4 DEF SplitAt
<1>6. \A i \in 1 .. n : first[i].lineno = 0
  BY <1>1, <1>3 DEF SplitAt
<1> QED BY <1>2, <1>3, <1>5, <1>6 DEF rest, first, L

(* Built-in rules go before the others.                                    *)
LEMMA SplitJoined ==
  ASSUME NEW left \in Seq(Rule), NEW rest \in Seq(Rule),
         \A i \in DOMAIN left : left[i].lineno = 0, SplitAt(rest, 0)
  PROVE  left \o rest \in Seq(Rule) /\ SplitAt(left \o rest, Len(left))
<1> DEFINE both == left \o rest
           n == Len(left)
           m == Len(rest)
<1>1. /\ both \in Seq(Rule) /\ n \in Nat /\ m \in Nat /\ DOMAIN both = 1 .. n + m
      /\ DOMAIN left = 1 .. n /\ DOMAIN rest = 1 .. m
      /\ \A i \in 1 .. n : both[i] = left[i]
      /\ \A i \in 1 .. n + m : i > n => both[i] = rest[i - n]
  OBVIOUS
<1> HIDE DEF both, n, m
<1>2. ASSUME NEW i \in 1 .. n + m
      PROVE  i <= n <=> both[i].lineno = 0
  <2>1. CASE i <= n
    <3>1. i \in 1 .. n
      BY <1>1, <2>1
    <3> QED BY <1>1, <2>1, <3>1
  <2>2. CASE i > n
    <3>1. i - n \in 1 .. m /\ ~(i - n <= 0)
      BY <1>1, <2>2
    <3>2. rest[i - n].lineno # 0
      BY <1>1, <3>1 DEF SplitAt
    <3> QED BY <1>1, <2>2, <3>2
  <2> QED BY <1>1, <2>1, <2>2
<1> QED BY <1>1, <1>2 DEF SplitAt, both, n

(* A rule of a makefile appended is counted as no built-in one.            *)
LEMMA SplitAppend ==
  ASSUME NEW patterns \in Seq(Rule), NEW n \in 0 .. Len(patterns), SplitAt(patterns, n),
         NEW rule \in Rule, rule.lineno # 0
  PROVE  SplitAt(Append(patterns, rule), n)
<1> DEFINE v == Append(patterns, rule)
           L == Len(patterns)
<1>1. /\ L \in Nat /\ n \in Nat /\ n <= L /\ DOMAIN v = 1 .. L + 1 /\ DOMAIN patterns = 1 .. L
      /\ v[L + 1] = rule /\ \A i \in 1 .. L : v[i] = patterns[i]
  OBVIOUS
<1> HIDE DEF v, L
<1>2. ASSUME NEW i \in 1 .. L + 1
      PROVE  i <= n <=> v[i].lineno = 0
  <2>1. i = L + 1 \/ i \in 1 .. L
    BY <1>1
  <2>2. CASE i = L + 1
    BY <1>1, <2>2
  <2>3. CASE i \in 1 .. L
    BY <1>1, <2>3 DEF SplitAt
  <2> QED BY <2>1, <2>2, <2>3
<1> QED BY <1>1, <1>2 DEF SplitAt, v

(* The files that are to be intermediate, or secondary, and those that are *)
(* not.                                                                    *)
Apart(d) ==
  Names_of(d, "NOTINTERMEDIATE")
    \cap (Names_of(d, "INTERMEDIATE") \cup Names_of(d, "SECONDARY")) = {}

(* The built-in rules come first, and no file is marked both ways.         *)
Tidy(d) == SplitAt(d.pattern_rules, d.builtin_pattern_rules_count) /\ Apart(d)

(* Only the pattern rules and the special targets matter for it.           *)
LEMMA TidySame ==
  ASSUME NEW d, NEW e, Tidy(d), e.pattern_rules = d.pattern_rules,
         e.builtin_pattern_rules_count = d.builtin_pattern_rules_count,
         e.special_targets = d.special_targets
  PROVE  Tidy(e)
BY DEF Tidy, Apart, Names_of

(* Recording names under a special target adds them to that one only.      *)
LEMMA RecordNames ==
  ASSUME NEW d \in Base, NEW special, NEW names
  PROVE  /\ Record(d, special, names).pattern_rules = d.pattern_rules
         /\ Record(d, special, names).builtin_pattern_rules_count = d.builtin_pattern_rules_count
         /\ \A s : Names_of(Record(d, special, names), s)
                     = IF s = special THEN Names_of(d, s) \cup names ELSE Names_of(d, s)
<1> DEFINE more == Names_of(d, special) \cup names
           new == [s \in DOMAIN d.special_targets \cup {special} |->
                     IF s = special THEN more ELSE d.special_targets[s]]
           e == [d EXCEPT !.special_targets = new]
<1>1. Record(d, special, names) = e
  BY DEF Record
<1>2. DOMAIN new = DOMAIN d.special_targets \cup {special} /\ new[special] = more
      /\ \A s \in DOMAIN new : s # special => new[s] = d.special_targets[s]
  OBVIOUS
<1> HIDE DEF new
<1>3. /\ e.special_targets = new /\ e.pattern_rules = d.pattern_rules
      /\ e.builtin_pattern_rules_count = d.builtin_pattern_rules_count
  BY DEF Base, Database
<1> HIDE DEF e
<1>4. ASSUME NEW s
      PROVE  Names_of(e, s) = IF s = special THEN Names_of(d, s) \cup names ELSE Names_of(d, s)
  <2>1. CASE s = special
    BY <1>2, <1>3, <2>1 DEF Names_of
  <2>2. CASE s # special
    BY <1>2, <1>3, <2>2 DEF Names_of
  <2> QED BY <2>1, <2>2
<1> QED BY <1>1, <1>3, <1>4

(* Recording names that do not conflict marks no file both ways.           *)
LEMMA TidyRecord ==
  ASSUME NEW d \in Base, NEW special, NEW names, ~Conflict(d, special, names), Tidy(d)
  PROVE  Tidy(Record(d, special, names))
<1> DEFINE e == Record(d, special, names)
           not == Names_of(d, "NOTINTERMEDIATE")
           inter == Names_of(d, "INTERMEDIATE")
           second == Names_of(d, "SECONDARY")
<1>1. /\ e.pattern_rules = d.pattern_rules
      /\ e.builtin_pattern_rules_count = d.builtin_pattern_rules_count
      /\ \A s : Names_of(e, s) = IF s = special THEN Names_of(d, s) \cup names ELSE Names_of(d, s)
  BY RecordNames
<1> HIDE DEF e
<1>2. not \cap (inter \cup second) = {}
  BY DEF Tidy, Apart
<1>3. CASE special = "NOTINTERMEDIATE"
  <2>1. names \cap (inter \cup second) = {}
    BY <1>3 DEF Conflict
  <2>2. /\ Names_of(e, "NOTINTERMEDIATE") = not \cup names
        /\ Names_of(e, "INTERMEDIATE") = inter /\ Names_of(e, "SECONDARY") = second
    BY <1>1, <1>3
  <2>3. Apart(e)
    <3> HIDE DEF not, inter, second
    <3> QED BY <1>2, <2>1, <2>2 DEF Apart
  <2> QED BY <1>1, <2>3 DEF Tidy, e
<1>4. CASE special = "INTERMEDIATE"
  <2>1. names \cap not = {}
    BY <1>4 DEF Conflict
  <2>2. /\ Names_of(e, "NOTINTERMEDIATE") = not
        /\ Names_of(e, "INTERMEDIATE") = inter \cup names /\ Names_of(e, "SECONDARY") = second
    BY <1>1, <1>4
  <2>3. Apart(e)
    <3> HIDE DEF not, inter, second
    <3> QED BY <1>2, <2>1, <2>2 DEF Apart
  <2> QED BY <1>1, <2>3 DEF Tidy, e
<1>5. CASE special = "SECONDARY"
  <2>1. names \cap not = {}
    BY <1>5 DEF Conflict
  <2>2. /\ Names_of(e, "NOTINTERMEDIATE") = not
        /\ Names_of(e, "INTERMEDIATE") = inter /\ Names_of(e, "SECONDARY") = second \cup names
    BY <1>1, <1>5
  <2>3. Apart(e)
    <3> HIDE DEF not, inter, second
    <3> QED BY <1>2, <2>1, <2>2 DEF Apart
  <2> QED BY <1>1, <2>3 DEF Tidy, e
<1>6. CASE special \notin {"NOTINTERMEDIATE", "INTERMEDIATE", "SECONDARY"}
  <2>1. /\ Names_of(e, "NOTINTERMEDIATE") = not
        /\ Names_of(e, "INTERMEDIATE") = inter /\ Names_of(e, "SECONDARY") = second
    BY <1>1, <1>6
  <2>2. Apart(e)
    BY <1>2, <2>1 DEF Apart
  <2> QED BY <1>1, <2>2 DEF Tidy, e
<1> QED BY <1>3, <1>4, <1>5, <1>6

(* Cutting off the built-in rules leaves those of makefiles.               *)
LEMMA TidyDrop ==
  ASSUME NEW d \in Base, Tidy(d)
  PROVE  Tidy(DropBuiltins(d))
<1> DEFINE rest == SubSeq(d.pattern_rules, d.builtin_pattern_rules_count + 1, Len(d.pattern_rules))
           e == [d EXCEPT !.pattern_rules = rest, !.builtin_pattern_rules_count = 0]
<1>1. DropBuiltins(d) = e
  BY DEF DropBuiltins
<1>2. /\ d.pattern_rules \in Seq(Rule) /\ d.builtin_pattern_rules_count \in 0 .. Len(d.pattern_rules)
      /\ SplitAt(d.pattern_rules, d.builtin_pattern_rules_count)
  BY BaseHolds DEF Tidy
<1>3. SplitAt(rest, 0)
  BY <1>2, SplitNone
<1> HIDE DEF rest
<1>4. /\ e.pattern_rules = rest /\ e.builtin_pattern_rules_count = 0
      /\ e.special_targets = d.special_targets
  BY DEF Base, Database
<1> HIDE DEF e
<1> QED BY <1>1, <1>3, <1>4 DEF Tidy, Apart, Names_of

(* A special target keeps the tables tidy.                                 *)
LEMMA TidySpecial ==
  ASSUME NEW d \in Base, NEW special \in Specials, NEW names \in SUBSET FileName, Tidy(d)
  PROVE  Tidy(Special(d, special, names))
<1> DEFINE Like(e, b) == /\ e.pattern_rules = b.pattern_rules
                         /\ e.builtin_pattern_rules_count = b.builtin_pattern_rules_count
                         /\ e.special_targets = b.special_targets
           e == Special(d, special, names)
<1>1. CASE Conflict(d, special, names)
  <2>1. Like(e, d)
    BY <1>1 DEF Special, Base, Database
  <2> HIDE DEF e
  <2> QED BY <2>1, TidySame DEF e
<1>2. CASE ~Conflict(d, special, names)
  <2>1. CASE special \in {"SECONDEXPANSION", "POSIX", "NOTPARALLEL"}
    <3>1. Like(e, d)
      BY <1>2, <2>1 DEF Special, Base, Database
    <3> HIDE DEF e
    <3> QED BY <3>1, TidySame DEF e
  <2>2. CASE special = "SUFFIXES"
    <3>1. CASE names = {}
      <4> DEFINE b == DropBuiltins(d)
                 none == {}
      <4>1. e = [b EXCEPT !.suffixes = none]
        BY <1>2, <2>2, <3>1 DEF Special
      <4>2. b \in Base /\ Tidy(b)
        BY DropBuiltinsType, TidyDrop
      <4> HIDE DEF b, e, none
      <4>3. Like(e, b)
        BY <4>1, <4>2 DEF Base, Database
      <4> QED BY <4>2, <4>3, TidySame DEF e
    <3>2. CASE names # {}
      <4>1. Like(e, d)
        BY <1>2, <2>2, <3>2 DEF Special, Base, Database
      <4> HIDE DEF e
      <4> QED BY <4>1, TidySame DEF e
    <3> QED BY <3>1, <3>2
  <2>3. CASE special = "EXPORT_ALL_VARIABLES"
    <3> DEFINE b == Record(d, special, names)
    <3>1. e = [b EXCEPT !.export_all = TRUE]
      BY <1>2, <2>3 DEF Special
    <3>2. b \in Base /\ Tidy(b)
      BY <1>2, RecordType, TidyRecord
    <3> HIDE DEF b, e
    <3>3. Like(e, b)
      BY <3>1, <3>2 DEF Base, Database
    <3> QED BY <3>2, <3>3, TidySame DEF e
  <2>4. CASE special \notin {"SECONDEXPANSION", "SUFFIXES", "POSIX", "NOTPARALLEL",
                             "EXPORT_ALL_VARIABLES"}
    <3>1. e = Record(d, special, names)
      BY <1>2, <2>4 DEF Special
    <3> QED BY <1>2, <3>1, TidyRecord
  <2> QED BY <2>1, <2>2, <2>3, <2>4
<1> QED BY <1>1, <1>2

(* So do all those of a rule.                                              *)
LEMMA TidySpecials ==
  ASSUME NEW d \in Base, NEW rule \in Rule, Tidy(d)
  PROVE  Tidy(SpecialsOf(d, rule))
<1> DEFINE L == Len(rule.targets)
           names == ToSet(rule.prerequisites)
<1>1. PICK u \in [0 .. L -> Base] :
        /\ SpecialsOf(d, rule) = u[L] /\ u[0] = d
        /\ \A n \in 1 .. L : u[n] =
             IF SpecialTarget(rule.targets[n])
             THEN Special(u[n - 1], rule.targets[n][1], names)
             ELSE u[n - 1]
  BY SpecialsSteps
<1>2. L \in Nat /\ names \in SUBSET FileName
  BY RuleHolds
<1> HIDE DEF L, names
<1> DEFINE T == {n \in 0 .. L : Tidy(u[n])}
<1>3. 0 \in T
  BY <1>1, <1>2
<1>4. ASSUME NEW n \in 1 .. L, n - 1 \in T
      PROVE  n \in T
  <2> DEFINE b == u[n - 1]
  <2>1. b \in Base /\ Tidy(b) /\ n \in 0 .. L
    BY <1>1, <1>2, <1>4
  <2>2. SpecialTarget(rule.targets[n]) => rule.targets[n][1] \in Specials
    BY DEF SpecialTarget
  <2>3. u[n] = IF SpecialTarget(rule.targets[n]) THEN Special(b, rule.targets[n][1], names) ELSE b
    BY <1>1
  <2> HIDE DEF b
  <2>4. SpecialTarget(rule.targets[n]) => Tidy(Special(b, rule.targets[n][1], names))
    BY <1>2, <2>1, <2>2, TidySpecial
  <2> QED BY <2>1, <2>3, <2>4
<1>5. \A n \in 0 .. L : n \in T
  <2> HIDE DEF T
  <2> QED BY <1>2, <1>3, <1>4, Counting
<1>6. L \in 0 .. L
  BY <1>2
<1> QED BY <1>1, <1>5, <1>6

(* The count of built-in rules is within the list.                         *)
LEMMA SplitBase ==
  ASSUME NEW d \in Base
  PROVE  d.pattern_rules \in Seq(Rule) /\ d.builtin_pattern_rules_count \in 0 .. Len(d.pattern_rules)
BY BaseHolds

(* A rule without recipe cancels only built-in rules.                      *)
LEMMA TidyPattern ==
  ASSUME NEW d \in Base, NEW rule \in Rule, rule.lineno # 0, Tidy(d)
  PROVE  Tidy(RegisterPattern(d, rule))
<1> DEFINE ps == d.pattern_rules
           n == d.builtin_pattern_rules_count
           builtins == SubSeq(ps, 1, n)
           left == BuiltinsLeft(d, rule)
           rest == SubSeq(ps, n + 1, Len(ps))
           e == RegisterPattern(d, rule)
<1>1. ps \in Seq(Rule) /\ n \in 0 .. Len(ps) /\ SplitAt(ps, n)
  BY SplitBase DEF Tidy
<1>2. e.builtin_pattern_rules_count = Len(left) /\ e.special_targets = d.special_targets
      /\ \E last \in {<<>>, <<rule>>} : e.pattern_rules = (left \o rest) \o last
  BY RegisterPatternIs
<1> HIDE DEF e
<1>3. /\ rest \in Seq(Rule) /\ SplitAt(rest, 0) /\ builtins \in Seq(Rule)
      /\ \A i \in DOMAIN builtins : builtins[i].lineno = 0
  BY <1>1, SplitNone
<1>4. left \in Seq(Rule) /\ \A i \in DOMAIN left : left[i].lineno = 0
  <2> DEFINE S == {b \in ToSet(builtins) : ~Cancels(rule, b)}
  <2>1. left = Select(builtins, S)
    BY DEF BuiltinsLeft
  <2> HIDE DEF builtins
  <2>2. \A b \in S : b.lineno = 0
    BY <1>3 DEF ToSet
  <2> HIDE DEF S
  <2>3. left \in Seq(Rule) /\ Range(left) = Range(builtins) \cap S
    BY <1>3, <2>1, SelectType, SelectRange
  <2> QED BY <2>2, <2>3 DEF Range
<1> DEFINE both == left \o rest
<1> HIDE DEF left, rest
<1>5. both \in Seq(Rule) /\ SplitAt(both, Len(left)) /\ Len(left) \in 0 .. Len(both)
  <2>1. both \in Seq(Rule) /\ SplitAt(both, Len(left))
    BY <1>3, <1>4, SplitJoined
  <2>2. Len(left) \in 0 .. Len(both)
    BY <1>3, <1>4
  <2> QED BY <2>1, <2>2
<1>6. e.pattern_rules = both \/ e.pattern_rules = Append(both, rule)
  <2>1. both \o <<>> = both /\ both \o <<rule>> = Append(both, rule)
    <3> HIDE DEF both
    <3> QED BY <1>5
  <2> QED BY <1>2, <2>1
<1>7. SplitAt(Append(both, rule), Len(left))
  <2> HIDE DEF both
  <2> QED BY <1>5, SplitAppend
<1> HIDE DEF both
<1>8. SplitAt(e.pattern_rules, e.builtin_pattern_rules_count)
  BY <1>2, <1>5, <1>6, <1>7
<1> QED BY <1>2, <1>8 DEF Tidy, Apart, Names_of, e

(* A rule that is being read has a line, unlike the built-in ones.         *)
Numbered(rules) == \A i \in DOMAIN rules : rules[i].lineno # 0

(* How two rules stand to each other: the recipe of r ends above q; or q   *)
(* is one of those that a queued text may overtake; or they are rules of   *)
(* one line.                                                               *)
Ahead(r, q) == r.lineno < q.lineno /\ \A k \in DOMAIN r.recipe : r.recipe[k] < q.lineno
Late(X, r, q) == q.lineno \in X /\ q.lineno < r.lineno
Alike(r, q) == r.lineno = q.lineno /\ r.recipe = q.recipe

(* Where a rule that is still open stands to those registered: below them; *)
(* and while it is being registered it may be beside its siblings.         *)
Lower(log, q, X) == \A i \in DOMAIN log : Ahead(log[i], q) \/ Late(X, log[i], q)
Beside(log, q, X) ==
  \A i \in DOMAIN log : Ahead(log[i], q) \/ Late(X, log[i], q) \/ Alike(log[i], q)

(* .SECONDEXPANSION is above line n.                                       *)
ToldAbove(log, n) == \E i \in DOMAIN log : SecondOf(log[i]) /\ log[i].lineno < n
Due(d, q) == ~d.stopped => (q.dollar <=> q.text_dollar /\ ToldAbove(d.log, q.lineno))

(* Nothing of the rule is further down than line n.                        *)
Within(r, n) == r.lineno <= n /\ \A k \in DOMAIN r.recipe : r.recipe[k] <= n
AllWithin(rules, n) == \A i \in DOMAIN rules : Within(rules[i], n)

(* The history is in order, and second expansion as it says.               *)
InLine(log, X) == \A j \in DOMAIN log : \A i \in 1 .. j - 1 :
  Late(X, log[i], log[j]) \/ Alike(log[i], log[j]) \/ Ahead(log[i], log[j])
ToldInLine(log) == \A j \in DOMAIN log :
  log[j].dollar <=> /\ log[j].text_dollar
                    /\ \E i \in 1 .. j - 1 : log[i].lineno < log[j].lineno /\ SecondOf(log[i])

(* While reading goes on, second expansion is on once .SECONDEXPANSION is  *)
(* in the history.                                                         *)
Told(d) == ~d.stopped => (d.second_expansion <=> \E i \in DOMAIN d.log : SecondOf(d.log[i]))

(* The history: nothing in it is further down than n, it is in order, and  *)
(* what rules say of second expansion is what it says.                     *)
LogFine(d, n, X) ==
  AllWithin(d.log, n) /\ InLine(d.log, X) /\ ToldInLine(d.log) /\ Told(d)

(* The open rules of one parser.                                           *)
Uniform(P) == \A i, j \in DOMAIN P : Alike(P[i], P[j])

(* Those of one parser: all of one line with one recipe, below all that is *)
(* registered, and told of second expansion as of their own line.          *)
OpenFine(d, P, n, X) ==
  /\ AllWithin(P, n) /\ Uniform(P)
  /\ \A j \in DOMAIN P : Lower(d.log, P[j], X) /\ Due(d, P[j])

(* The open rules of parsers that wait, the inner ones further down.       *)
Under(X, P, Q) == \A i \in DOMAIN P : \A j \in DOMAIN Q : Late(X, Q[j], P[i])

(* All of them were caught open by a conditional, so that queued text may  *)
(* overtake them.                                                          *)
Exposed(P, X) == \A i \in DOMAIN P : P[i].lineno \in X

(* A longer history: what was there, and one rule more.                    *)
LEMMA LogAppend ==
  ASSUME NEW log \in Seq(Rule), NEW p \in Rule
  PROVE  /\ Append(log, p) \in Seq(Rule) /\ Len(log) \in Nat
         /\ DOMAIN log = 1 .. Len(log) /\ DOMAIN Append(log, p) = 1 .. Len(log) + 1
         /\ \A i \in 1 .. Len(log) : Append(log, p)[i] = log[i] /\ log[i] \in Rule
         /\ Append(log, p)[Len(log) + 1] = p
         /\ \A i \in DOMAIN Append(log, p) : 
              \/ i \in DOMAIN log /\ Append(log, p)[i] = log[i]
              \/ i = Len(log) + 1 /\ Append(log, p)[i] = p
<1> DEFINE l == Append(log, p)
<1>1. /\ l \in Seq(Rule) /\ Len(log) \in Nat
      /\ DOMAIN log = 1 .. Len(log) /\ DOMAIN l = 1 .. Len(log) + 1
      /\ \A i \in 1 .. Len(log) : l[i] = log[i] /\ log[i] \in Rule
      /\ l[Len(log) + 1] = p
  OBVIOUS
<1> HIDE DEF l
<1>2. \A i \in 1 .. Len(log) + 1 : i \in 1 .. Len(log) \/ i = Len(log) + 1
  BY <1>1
<1>3. \A i \in DOMAIN l : \/ i \in DOMAIN log /\ l[i] = log[i]
                          \/ i = Len(log) + 1 /\ l[i] = p
  BY <1>1, <1>2
<1> QED BY <1>1, <1>3 DEF l

(* What holds of every registered rule and of a new one.                   *)
LEMMA LogPlus ==
  ASSUME NEW log \in Seq(Rule), NEW p \in Rule, NEW n, NEW X, NEW q
  PROVE  /\ AllWithin(log, n) /\ Within(p, n) => AllWithin(Append(log, p), n)
         /\ Lower(log, q, X) /\ (Ahead(p, q) \/ Late(X, p, q)) => Lower(Append(log, p), q, X)
         /\ Beside(log, q, X) /\ (Ahead(p, q) \/ Late(X, p, q) \/ Alike(p, q))
              => Beside(Append(log, p), q, X)
<1> DEFINE l == Append(log, p)
<1>1. \A i \in DOMAIN l : (i \in DOMAIN log /\ l[i] = log[i]) \/ l[i] = p
  BY LogAppend
<1> HIDE DEF l
<1>2. AllWithin(log, n) /\ Within(p, n) => AllWithin(l, n)
  BY <1>1 DEF AllWithin
<1>3. Lower(log, q, X) /\ (Ahead(p, q) \/ Late(X, p, q)) => Lower(l, q, X)
  BY <1>1 DEF Lower
<1>4. Beside(log, q, X) /\ (Ahead(p, q) \/ Late(X, p, q) \/ Alike(p, q)) => Beside(l, q, X)
  BY <1>1 DEF Beside
<1> QED BY <1>2, <1>3, <1>4 DEF l

(* One rule more in the history turns second expansion on if it is         *)
(* .SECONDEXPANSION.                                                       *)
LEMMA ToldPlus ==
  ASSUME NEW log \in Seq(Rule), NEW p \in Rule, NEW n
  PROVE  ToldAbove(Append(log, p), n) <=> ToldAbove(log, n) \/ (SecondOf(p) /\ p.lineno < n)
<1> DEFINE l == Append(log, p)
<1>1. /\ \A i \in DOMAIN l : (i \in DOMAIN log /\ l[i] = log[i]) \/ l[i] = p
      /\ \A i \in DOMAIN log : i \in DOMAIN l /\ l[i] = log[i]
      /\ Len(log) + 1 \in DOMAIN l /\ l[Len(log) + 1] = p
  BY LogAppend
<1> HIDE DEF l
<1>2. ToldAbove(l, n) <=> ToldAbove(log, n) \/ (SecondOf(p) /\ p.lineno < n)
  BY <1>1 DEF ToldAbove
<1> QED BY <1>2 DEF l

(* A rule that stands where it may keeps the history in order.             *)
LEMMA InLinePlus ==
  ASSUME NEW log \in Seq(Rule), NEW p \in Rule, NEW X, InLine(log, X), Beside(log, p, X)
  PROVE  InLine(Append(log, p), X)
<1> DEFINE l == Append(log, p)
           L == Len(log)
<1>1. /\ L \in Nat /\ DOMAIN log = 1 .. L /\ DOMAIN l = 1 .. L + 1
      /\ \A i \in 1 .. L : l[i] = log[i]
      /\ l[L + 1] = p
  BY LogAppend
<1> HIDE DEF l, L
<1>2. ASSUME NEW j \in DOMAIN l, NEW i \in 1 .. j - 1
      PROVE  Late(X, l[i], l[j]) \/ Alike(l[i], l[j]) \/ Ahead(l[i], l[j])
  <2>1. i \in 1 .. L /\ l[i] = log[i] /\ i \in DOMAIN log
    BY <1>1
  <2>2. CASE j \in 1 .. L
    BY <1>1, <2>1, <2>2 DEF InLine
  <2>3. CASE j = L + 1
    BY <1>1, <2>1, <2>3 DEF Beside
  <2> QED BY <1>1, <2>2, <2>3
<1>3. InLine(l, X)
  BY <1>2 DEF InLine
<1> QED BY <1>3 DEF l

(* A rule that took second expansion from the history keeps the history's  *)
(* account of it.                                                          *)
LEMMA ToldInLinePlus ==
  ASSUME NEW log \in Seq(Rule), NEW p \in Rule, ToldInLine(log),
         p.dollar <=> p.text_dollar /\ ToldAbove(log, p.lineno)
  PROVE  ToldInLine(Append(log, p))
<1> DEFINE l == Append(log, p)
           L == Len(log)
<1>1. /\ L \in Nat /\ DOMAIN log = 1 .. L /\ DOMAIN l = 1 .. L + 1
      /\ \A i \in 1 .. L : l[i] = log[i]
      /\ l[L + 1] = p
  BY LogAppend
<1> HIDE DEF l, L
<1>2. ASSUME NEW j \in DOMAIN l
      PROVE  l[j].dollar <=> /\ l[j].text_dollar
                             /\ \E i \in 1 .. j - 1 : l[i].lineno < l[j].lineno /\ SecondOf(l[i])
  <2>1. \A i \in 1 .. j - 1 : i \in 1 .. L
    BY <1>1
  <2>2. CASE j \in 1 .. L
    BY <1>1, <2>1, <2>2 DEF ToldInLine
  <2>3. CASE j = L + 1
    <3>1. 1 .. j - 1 = DOMAIN log
      BY <1>1, <2>3
    <3> QED BY <1>1, <2>1, <2>3, <3>1 DEF ToldAbove
  <2> QED BY <1>1, <2>2, <2>3
<1>3. ToldInLine(l)
  BY <1>2 DEF ToldInLine
<1> QED BY <1>3 DEF l

(* A database with the same history, and no less an error.                 *)
Same(d, e) ==
  e.log = d.log /\ e.second_expansion = d.second_expansion /\ (d.stopped => e.stopped)

(* Further down in the text, and with more rules exposed, what stood where *)
(* it may still does.                                                      *)
LEMMA LaterFacts ==
  ASSUME NEW n \in Nat, NEW m \in Nat, n <= m, NEW X, NEW Y, X \subseteq Y
  PROVE  /\ \A r \in Rule : Within(r, n) => Within(r, m)
         /\ \A r, q : Late(X, r, q) => Late(Y, r, q)
<1>1. ASSUME NEW r \in Rule, Within(r, n)
      PROVE  Within(r, m)
  <2>1. r.lineno \in Nat /\ \A k \in DOMAIN r.recipe : r.recipe[k] \in Nat
    BY RuleHolds
  <2> QED BY <1>1, <2>1 DEF Within
<1>2. \A r, q : Late(X, r, q) => Late(Y, r, q)
  BY DEF Late
<1> QED BY <1>1, <1>2

(* Rules that end by line n end by any later line.                         *)
LEMMA WithinLater ==
  ASSUME NEW n \in Nat, NEW m \in Nat, n <= m, NEW P \in Seq(Rule), AllWithin(P, n)
  PROVE  AllWithin(P, m)
<1>1. \A i \in DOMAIN P : P[i] \in Rule
  BY InRange
<1>2. \A r \in Rule : Within(r, n) => Within(r, m)
  BY LaterFacts
<1> QED BY <1>1, <1>2 DEF AllWithin

(* An untouched history stays in order as reading goes on.                 *)
LEMMA LogFineLater ==
  ASSUME NEW d \in Base, NEW e \in Base, Same(d, e), NEW n \in Nat, NEW m \in Nat, n <= m,
         NEW X, NEW Y, X \subseteq Y, LogFine(d, n, X)
  PROVE  LogFine(e, m, Y)
<1>1. d.log \in Seq(Rule)
  BY BaseHolds
<1>2. AllWithin(e.log, m)
  BY <1>1, WithinLater DEF LogFine, Same
<1>3. \A r, q : Late(X, r, q) => Late(Y, r, q)
  BY DEF Late
<1>4. InLine(e.log, Y)
  BY <1>3 DEF LogFine, InLine, Same
<1>5. ToldInLine(e.log) /\ Told(e)
  BY DEF LogFine, Told, Same
<1> QED BY <1>2, <1>4, <1>5 DEF LogFine

(* So do the open rules of one parser.                                     *)
LEMMA OpenFineLater ==
  ASSUME NEW d \in Base, NEW e \in Base, Same(d, e), NEW n \in Nat, NEW m \in Nat, n <= m,
         NEW X, NEW Y, X \subseteq Y, NEW P \in Seq(Rule), OpenFine(d, P, n, X)
  PROVE  OpenFine(e, P, m, Y)
<1>1. AllWithin(P, m) /\ Uniform(P)
  BY WithinLater DEF OpenFine
<1>2. \A r, q : Late(X, r, q) => Late(Y, r, q)
  BY DEF Late
<1>3. \A q : Lower(d.log, q, X) => Lower(e.log, q, Y)
  BY <1>2 DEF Lower, Same
<1>4. \A q : Due(d, q) => Due(e, q)
  BY DEF Due, Same
<1> QED BY <1>1, <1>3, <1>4 DEF OpenFine

(* So does the order of two parsers' open rules.                           *)
LEMMA UnderLater ==
  ASSUME NEW X, NEW Y, X \subseteq Y, NEW P, NEW Q, Under(X, P, Q)
  PROVE  Under(Y, P, Q)
BY DEF Under, Late

(* A line opens rules: Fresh(d, P, m).                                     *)
Fresh(d, P, m) ==
  /\ Uniform(P) /\ AllWithin(P, m)
  /\ \A i \in DOMAIN P : /\ P[i].lineno = m
                         /\ P[i].dollar <=> P[i].text_dollar /\ d.second_expansion

(* A recipe line makes the recipes of all open rules longer.               *)
Cooked(P, Q, m) ==
  /\ DOMAIN Q = DOMAIN P
  /\ \A i \in DOMAIN P : /\ Q[i].lineno = P[i].lineno /\ Q[i].targets = P[i].targets
                         /\ Q[i].dollar = P[i].dollar /\ Q[i].text_dollar = P[i].text_dollar
                         /\ Q[i].recipe = Append(P[i].recipe, m)

(* A rule with the recipe of another.                                      *)
LEMMA WithRecipe ==
  ASSUME NEW rule \in Rule, NEW recipe
  PROVE  LET told == [rule EXCEPT !.recipe = recipe]
         IN  /\ told.lineno = rule.lineno /\ told.targets = rule.targets
             /\ told.dollar = rule.dollar /\ told.text_dollar = rule.text_dollar
             /\ told.recipe = recipe
BY DEF Rule

(* Databases with the same history, the same goal, and no error more.      *)
Equal(d, e) ==
  /\ Same(d, e) /\ e.stopped = d.stopped
  /\ e.default_target = d.default_target /\ e.default_goal_explicit = d.default_goal_explicit

(* Changes of the search path, of the names mentioned and of the error     *)
(* leave the history alone.                                                *)
LEMMA FieldsSame ==
  ASSUME NEW d \in Base
  PROVE  /\ \A v : Equal(d, [d EXCEPT !.vpath = v])
         /\ \A v : Equal(d, [d EXCEPT !.explicitly_mentioned = v])
         /\ Same(d, [d EXCEPT !.stopped = TRUE])
         /\ Equal(d, d)
BY DEF Base, Database, Equal, Same

(* All of these rules are below line n.                                    *)
Below(P, n) == \A i \in DOMAIN P : P[i].lineno > n

(* No rule is above line n if there is none.                               *)
LEMMA NoneBelow ==
  ASSUME NEW n
  PROVE  Below(<<>>, n)
BY DEF Below

(* With nothing exposed no parser that waits has an open rule.             *)
LEMMA NoneExposed ==
  ASSUME NEW P \in Seq(Rule), Exposed(P, {})
  PROVE  P = <<>>
<1>1. P # <<>> => 1 \in DOMAIN P
  OBVIOUS
<1> QED BY <1>1 DEF Exposed

=============================================================================
