----------------------- MODULE MakefileReader_proofs ------------------------
(***************************************************************************)
(* Theorems about reading makefiles, for every set of lines, every file    *)
(* tree and every command line.                                            *)
(***************************************************************************)
EXTENDS MakefileReader, RuleBase_proofs

(* The text of every name, a list of words, and that of a value.           *)
LEMMA TextsType ==
  ASSUME NEW table, IsTable(table)
  PROVE  Texts(table) \in [Names -> Seq(STRING)]
<1> DEFINE L == Cardinality(Names)
           V == [Names -> Seq(STRING)]
           part(b, n) == [i \in DOMAIN table[n].value |->
                            IF table[n].value[i] \in Names /\ table[n].flavor = "recursive"
                            THEN b[table[n].value[i]] ELSE <<table[n].value[i]>>]
           above(b) == [n \in Names |->
                          IF n \notin DOMAIN table THEN <<>> ELSE FlattenSeq(part(b, n))]
           base == [n \in Names |-> <<>>]
           step == [n \in 1 .. L |-> [b \in V |-> above(b)]]
           body(k) == [n \in 0 .. L |-> IF n = 0 THEN base ELSE above(k[n - 1])]
           text == CHOOSE k : k = body(k)
           code(k) == [depth \in 0..Cardinality(Names) |->
              [n \in Names |->
                IF n \notin DOMAIN table \/ depth = 0 THEN <<>>
                ELSE FlattenSeq([i \in DOMAIN table[n].value |->
                       LET w == table[n].value[i]
                       IN  IF w \in Names /\ table[n].flavor = "recursive"
                           THEN k[depth - 1][w] ELSE <<w>>])]]
<1>1. L \in Nat
  BY NamesAssumption, FS_CardinalityType
<1>2. base \in V
  OBVIOUS
<1>3. ASSUME NEW b \in V PROVE above(b) \in V
  <2>1. ASSUME NEW n \in Names, n \in DOMAIN table PROVE FlattenSeq(part(b, n)) \in Seq(STRING)
    <3> DEFINE words == table[n].value
               p == part(b, n)
    <3>1. words \in Seq(STRING)
      BY <2>1 DEF IsTable, Variable, Word
    <3>2. \A i \in 1 .. Len(words) : words[i] \in STRING
      BY <3>1
    <3>3. DOMAIN words = 1 .. Len(words) /\ Len(words) \in Nat
      BY <3>1
    <3>4. ASSUME NEW i \in 1 .. Len(words) PROVE p[i] \in Seq(STRING)
      <4>1. words[i] \in Names => b[words[i]] \in Seq(STRING)
        OBVIOUS
      <4>2. <<words[i]>> \in Seq(STRING)
        BY <3>2
      <4>3. (p[i] = b[words[i]] /\ words[i] \in Names) \/ p[i] = <<words[i]>>
        BY <3>3
      <4> HIDE DEF p
      <4> QED BY <4>1, <4>2, <4>3
    <3>5. p = [i \in 1 .. Len(words) |-> p[i]]
      BY <3>3
    <3> HIDE DEF p
    <3>6. p \in Seq(Seq(STRING))
      BY <3>3, <3>4, <3>5, IsList
    <3>7. FlattenSeq(p) \in Seq(STRING)
      BY <3>6, FlattenHolds
    <3> QED BY <3>7 DEF p
  <2>2. ASSUME NEW n \in Names PROVE above(b)[n] \in Seq(STRING)
    <3>1. above(b)[n] = IF n \notin DOMAIN table THEN <<>> ELSE FlattenSeq(part(b, n))
      OBVIOUS
    <3>2. <<>> \in Seq(STRING)
      OBVIOUS
    <3> HIDE DEF part, above
    <3> QED BY <2>1, <3>1, <3>2
  <2>3. above(b) = [n \in Names |-> above(b)[n]]
    OBVIOUS
  <2> HIDE DEF above
  <2> QED BY <2>2, <2>3
<1>4. step \in [1 .. L -> [V -> V]]
  <2> HIDE DEF L, above, V
  <2> QED BY <1>3
<1>5. PICK f : Iterates(f, L, V, base, step)
  <2> HIDE DEF L, base, step, V
  <2> QED BY <1>1, <1>2, <1>4, Recursion
<1>6. /\ f \in [0 .. L -> V] /\ f[0] = base
      /\ \A n \in 1 .. L : f[n] = step[n][f[n - 1]]
  <2> HIDE DEF L, base, step, V
  <2> QED BY <1>5 DEF Iterates
<1>7. f = body(f)
  <2>1. \A n \in 1 .. L : n - 1 \in 0 .. L
    BY <1>1
  <2>2. \A n \in 1 .. L : f[n] = above(f[n - 1])
    <3> HIDE DEF L, above, base, V
    <3> QED BY <1>6, <2>1
  <2>3. \A n \in 0 .. L : n = 0 \/ n \in 1 .. L
    BY <1>1
  <2> HIDE DEF L, above, base, V
  <2> QED BY <1>6, <2>2, <2>3
<1>8. text = body(text)
  <2> HIDE DEF body
  <2> QED BY <1>7
<1>9. \A k : code(k) = body(k)
  <2> SUFFICES ASSUME NEW k, NEW d \in 0 .. L PROVE code(k)[d] = body(k)[d]
    OBVIOUS
  <2>1. CASE d = 0
    BY <2>1
  <2>2. CASE d # 0
    BY <2>2
  <2> QED BY <2>1, <2>2
<1>10. Texts(table) = text[L]
  <2>1. Texts(table) = (CHOOSE k : k = code(k))[L]
    BY DEF Texts
  <2>2. (CHOOSE k : k = code(k)) = text
    <3> HIDE DEF code, body
    <3> QED BY <1>9
  <2> QED BY <2>1, <2>2
<1>11. \A n \in 0 .. L : text[n] \in V
  <2> DEFINE T == {n \in 0 .. L : text[n] \in V}
  <2>1. \A n \in 0 .. L : text[n] = IF n = 0 THEN base ELSE above(text[n - 1])
    <3> HIDE DEF L, text, above, base
    <3> QED BY <1>8
  <2> HIDE DEF text, above, base, V, L
  <2>2. 0 \in T
    BY <1>1, <1>2, <2>1
  <2>3. ASSUME NEW n \in 1 .. L, n - 1 \in T PROVE n \in T
    <3>1. n \in 0 .. L /\ n # 0 /\ text[n - 1] \in V
      BY <1>1, <2>3
    <3> QED BY <1>3, <2>1, <3>1
  <2> HIDE DEF T
  <2>4. \A n \in 0 .. L : n \in T
    BY <1>1, <2>2, <2>3, Counting
  <2> QED BY <2>4 DEF T
<1> HIDE DEF text, L
<1> QED BY <1>1, <1>10, <1>11

(* Expansion gives text, however the variables refer to one another.       *)
LEMMA ExpandType ==
  ASSUME NEW table, IsTable(table), NEW value \in Seq(STRING)
  PROVE  Expand(table, value) \in Seq(STRING)
<1> DEFINE parts == [i \in DOMAIN value |->
                       IF value[i] \in Names THEN Texts(table)[value[i]] ELSE <<value[i]>>]
<1>1. Texts(table) \in [Names -> Seq(STRING)]
  BY TextsType
<1>2. DOMAIN value = 1 .. Len(value) /\ Len(value) \in Nat
      /\ \A i \in 1 .. Len(value) : value[i] \in STRING
  OBVIOUS
<1>3. ASSUME NEW i \in 1 .. Len(value) PROVE parts[i] \in Seq(STRING)
  <2>1. value[i] \in Names => Texts(table)[value[i]] \in Seq(STRING)
    BY <1>1
  <2>2. <<value[i]>> \in Seq(STRING)
    BY <1>2
  <2>3. parts[i] = IF value[i] \in Names THEN Texts(table)[value[i]] ELSE <<value[i]>>
    BY <1>2
  <2> HIDE DEF parts
  <2> QED BY <2>1, <2>2, <2>3
<1>4. parts \in Seq(Seq(STRING))
  <2>1. parts = [i \in 1 .. Len(value) |-> parts[i]]
    BY <1>2
  <2> HIDE DEF parts
  <2> QED BY <1>2, <1>3, <2>1, IsList
<1>5. Expand(table, value) = FlattenSeq(parts)
  BY DEF Expand
<1> HIDE DEF parts
<1> QED BY <1>4, <1>5, FlattenHolds

(* What each kind of line does to the table of variables keeps its type.   *)
LEMMA BindType ==
  ASSUME NEW table, IsTable(table), NEW n \in Names, NEW v \in Variable
  PROVE  IsTable(Bind(table, n, v))
BY DEF IsTable, Bind

(* Rewriting one value leaves a table of variables.                        *)
LEMMA ValueType ==
  ASSUME NEW table, IsTable(table), NEW n, NEW value \in Seq(STRING)
  PROVE  IsTable([table EXCEPT ![n].value = value])
BY DEF IsTable, Variable, Word

(* What a first assignment creates is a variable.                          *)
LEMMA CreatedType ==
  ASSUME NEW a, a.value \in Seq(STRING), a.override \in BOOLEAN
  PROVE  Created(a) \in Variable
BY DEF Created, make_var, Variable, VarOrigin, Marks, Word

(* Expanding a value at once leaves an assignment.                         *)
LEMMA ImmediateType ==
  ASSUME NEW table, IsTable(table), NEW a \in Assignment
  PROVE  Immediate(table, a) \in Assignment
<1>1. a.value \in Seq(STRING)
  BY DEF Assignment, Word
<1>2. Expand(table, a.value) \in Seq(STRING)
  BY <1>1, ExpandType
<1> QED BY <1>2 DEF Immediate, Assignment, Word

(* What += leaves behind is a variable.                                    *)
LEMMA AppendType ==
  ASSUME NEW table, IsTable(table), NEW a \in Assignment, a.name \in DOMAIN table
  PROVE  Append_to(table, a) \in Variable
<1>1. table[a.name] \in Variable
  BY DEF IsTable
<1>2. a.value \in Seq(STRING) /\ Expand(table, a.value) \in Seq(STRING)
  BY ExpandType DEF Assignment, Word
<1> DEFINE more == IF table[a.name].flavor = "simple" THEN Expand(table, a.value) ELSE a.value
<1>3. more \in Seq(STRING)
  BY <1>2
<1>4. table[a.name].value \o more \in Seq(STRING)
  BY <1>1, <1>3 DEF Variable, Word
<1>5. Append_to(table, a) = [table[a.name] EXCEPT !.value = @ \o more,
                               !.origin = IF a.override THEN "override" ELSE @]
  BY DEF Append_to
<1> HIDE DEF more
<1> QED BY <1>1, <1>4, <1>5 DEF Variable, VarOrigin, Word

(* set_variable leaves a table of variables, whichever of its branches is  *)
(* taken.                                                                  *)
LEMMA SetVariableType ==
  ASSUME NEW table, IsTable(table), NEW a \in Assignment
  PROVE  IsTable(set_variable(table, a))
<1>1. a.name \in Names /\ a.value \in Seq(STRING) /\ a.flavor \in VarFlavor /\ a.override \in BOOLEAN
  BY DEF Assignment, Word
<1>2. Stored(table, a) \in Variable
  <2>1. a.name \in DOMAIN table => table[a.name] \in Variable
    BY DEF IsTable
  <2> QED BY <1>1, <2>1, AppendType, CreatedType DEF Stored
<1> DEFINE set == Bind(table, a.name, Stored(table, a))
<1>3. IsTable(set)
  BY <1>1, <1>2, BindType
<1>4. IsTable([set EXCEPT ![a.name].export = "exported"])
  <2> HIDE DEF set
  <2> QED BY <1>3 DEF IsTable, Variable, Marks
<1> QED BY <1>3, <1>4 DEF set_variable

(* A finished define block leaves a table of variables.                    *)
LEMMA DefineType ==
  ASSUME NEW table, IsTable(table), NEW name \in Names, NEW flavor \in VarFlavor,
         NEW override \in BOOLEAN, NEW body \in Seq(STRING)
  PROVE  IsTable(Define(table, name, flavor, override, body))
<1> DEFINE a == [value |-> body, flavor |-> flavor, override |-> override]
           now == Immediate(table, a)
<1>1. Created(now) \in Variable
  <2>1. Expand(table, a.value) \in Seq(STRING)
    BY ExpandType
  <2>2. now.value \in Seq(STRING) /\ now.override \in BOOLEAN
    BY <2>1 DEF Immediate
  <2> HIDE DEF now
  <2> QED BY <2>2, CreatedType
<1>2. IsTable(Bind(table, name, Created(now)))
  <2> HIDE DEF now
  <2> QED BY <1>1, BindType
<1>3. IsTable([table EXCEPT ![name].value = @ \o body])
  <2>1. CASE name \in DOMAIN table
    <3>1. table[name].value \o body \in Seq(STRING)
      BY <2>1 DEF IsTable, Variable, Word
    <3>2. IsTable([table EXCEPT ![name].value = table[name].value \o body])
      BY <3>1, ValueType
    <3> QED BY <3>2
  <2>2. CASE name \notin DOMAIN table
    BY <2>2 DEF IsTable
  <2> QED BY <2>1, <2>2
<1> HIDE DEF a, now
<1> QED BY <1>2, <1>3 DEF Define, a, now

(* undefine leaves a table of variables.                                   *)
LEMMA UndefineType ==
  ASSUME NEW table, IsTable(table), NEW name, NEW override
  PROVE  IsTable(Undefine(table, name, override))
BY DEF IsTable, Undefine

(* export and unexport leave a table of variables.                         *)
LEMMA MarkType ==
  ASSUME NEW table, IsTable(table), NEW names \in SUBSET Names, NEW mark \in Marks
  PROVE  IsTable(Mark(table, names, mark))
BY DEF IsTable, Mark, Variable, VarOrigin, Word

(* Handing the default goal to .DEFAULT_GOAL leaves a table of variables.  *)
LEMMA ShownType ==
  ASSUME NEW table, IsTable(table), NEW before, NEW d, d.default_target \in FileName
  PROVE  IsTable(Shown(table, before, d))
<1> DEFINE v == [value |-> d.default_target, flavor |-> "simple",
                 origin |-> "default", export |-> "unset"]
<1>1. v \in Variable
  BY DEF Variable, VarOrigin, Marks, Word, FileName
<1>2. IsTable(Bind(table, DefaultGoal, v))
  BY <1>1, BindType, ReaderAssumption
<1> HIDE DEF v
<1> QED BY <1>2 DEF Shown, v

(* One step of a flush leaves a database.                                  *)
LEMMA NextType ==
  ASSUME NEW d \in Base, NEW rule \in Rule
  PROVE  RegisterNext(d, rule) \in Base
BY RegisterType, LogType DEF RegisterNext

(* A flush registers the pending rules one after the other.                *)
LEMMA RegisteredSteps ==
  ASSUME NEW d \in Base, NEW f, PendingRules(f) \in Seq(Rule)
  PROVE  \E u \in [0 .. Len(PendingRules(f)) -> Base] :
           /\ Registered(d, f) = u[Len(PendingRules(f))] /\ u[0] = d
           /\ \A n \in 1 .. Len(PendingRules(f)) : u[n] = RegisterNext(u[n - 1], PendingRules(f)[n])
<1> DEFINE L == Len(PendingRules(f))
           V == Base
           above(n, b) == RegisterNext(b, PendingRules(f)[n])
           step == [n \in 1 .. L |-> [b \in V |-> above(n, b)]]
           body(k) == [n \in 0 .. L |-> IF n = 0 THEN d ELSE above(n, k[n - 1])]
           upTo == CHOOSE k : k = body(k)
<1>1. L \in Nat /\ d \in V
  OBVIOUS
<1>2. \A n \in 1 .. L, b \in V : above(n, b) \in V
  <2>1. \A n \in 1 .. Len(PendingRules(f)) : PendingRules(f)[n] \in Rule
    OBVIOUS
  <2> QED BY <2>1, NextType
<1>3. step \in [1 .. L -> [V -> V]]
  <2> HIDE DEF L, above, V
  <2> QED BY <1>2
<1>4. PICK g : Iterates(g, L, V, d, step)
  <2> HIDE DEF L, step, V
  <2> QED BY <1>1, <1>3, Recursion
<1>5. g = body(g)
  <2>1. /\ g \in [0 .. L -> V] /\ g[0] = d
        /\ \A n \in 1 .. L : g[n] = step[n][g[n - 1]]
    <3> HIDE DEF L, step, V
    <3> QED BY <1>4 DEF Iterates
  <2>2. \A n \in 1 .. L : n - 1 \in 0 .. L
    BY <1>1
  <2>3. \A n \in 1 .. L : g[n] = above(n, g[n - 1])
    <3> HIDE DEF L, above, V
    <3> QED BY <2>1, <2>2
  <2>4. \A n \in 0 .. L : n = 0 \/ n \in 1 .. L
    BY <1>1
  <2> HIDE DEF L, above, V
  <2> QED BY <2>1, <2>3, <2>4
<1>6. upTo = body(upTo)
  <2> HIDE DEF body
  <2> QED BY <1>5
<1>7. Registered(d, f) = upTo[L]
  BY DEF Registered
<1>8. upTo[0] = d /\ \A n \in 1 .. L : upTo[n] = above(n, upTo[n - 1])
  <2>1. \A n \in 0 .. L : upTo[n] = IF n = 0 THEN d ELSE above(n, upTo[n - 1])
    <3> HIDE DEF L, upTo, above
    <3> QED BY <1>6
  <2>2. 0 \in 0 .. L /\ \A n \in 1 .. L : n \in 0 .. L /\ n # 0
    BY <1>1
  <2> HIDE DEF L, upTo, above
  <2> QED BY <2>1, <2>2
<1>9. Follows(upTo, L, V, d, step)
  <2>1. \A n \in 1 .. L : upTo[n - 1] \in V => upTo[n] = step[n][upTo[n - 1]]
    <3> HIDE DEF L, upTo, above, V
    <3> QED BY <1>8
  <2> HIDE DEF L, upTo, above, V, step
  <2> QED BY <1>8, <2>1 DEF Follows
<1>10. \A n \in 0 .. L : upTo[n] \in V
  <2> HIDE DEF L, upTo, step, V, above, body
  <2> QED BY <1>1, <1>3, <1>9, Unrolled
<1>11. upTo \in [0 .. L -> V]
  <2>1. upTo = [n \in 0 .. L |-> upTo[n]]
    <3> HIDE DEF L, upTo, above
    <3> QED BY <1>6
  <2> HIDE DEF L, upTo, V
  <2> QED BY <1>10, <2>1
<1> HIDE DEF upTo
<1> QED BY <1>7, <1>8, <1>11

(* What is read of a rule.                                                 *)
LEMMA AsReadType ==
  ASSUME lineno \in Nat, NEW d, d.second_expansion \in BOOLEAN, NEW rule \in Rule
  PROVE  /\ AsRead(d, rule) \in Rule
         /\ AsRead(d, rule).lineno = lineno + 1
         /\ \A k \in DOMAIN AsRead(d, rule).recipe : AsRead(d, rule).recipe[k] = lineno + 1
         /\ AsRead(d, rule).recipe = [i \in DOMAIN rule.recipe |-> lineno + 1]
         /\ AsRead(d, rule).targets = rule.targets
         /\ AsRead(d, rule).text_dollar = rule.text_dollar
         /\ AsRead(d, rule).dollar <=> rule.text_dollar /\ d.second_expansion
<1> DEFINE kept == rule.text_dollar /\ d.second_expansion
           before == IF kept THEN <<>> ELSE rule.prerequisites
           lines == [i \in DOMAIN rule.recipe |-> lineno + 1]
<1>1. kept \in BOOLEAN
  OBVIOUS
<1>2. before \in Seq(FileName)
  <2>1. rule.prerequisites \in Seq(FileName) /\ <<>> \in Seq(FileName)
    BY RuleHolds
  <2> HIDE DEF kept
  <2> QED BY <2>1
<1>3. lines \in Seq(Nat)
  <2>1. DOMAIN rule.recipe = 1 .. Len(rule.recipe) /\ Len(rule.recipe) \in Nat
    BY RuleHolds
  <2> QED BY <2>1
<1>4. AsRead(d, rule) = [rule EXCEPT !.lineno = lineno + 1, !.dollar = kept,
                                     !.prerequisites = before, !.recipe = lines]
  BY DEF AsRead
<1>5. \A k \in DOMAIN lines : lines[k] = lineno + 1
  OBVIOUS
<1> HIDE DEF before, lines
<1>6. AsRead(d, rule) \in Rule /\ AsRead(d, rule).recipe = lines
  <2> DEFINE number == lineno + 1
  <2>1. number \in Nat
    OBVIOUS
  <2>2. AsRead(d, rule) = [rule EXCEPT !.lineno = number, !.dollar = kept,
                                       !.prerequisites = before, !.recipe = lines]
    BY <1>4
  <2> HIDE DEF kept, number
  <2>3. AsRead(d, rule) \in Rule
    BY <1>1, <1>2, <1>3, <2>1, <2>2 DEF Rule
  <2>4. AsRead(d, rule).recipe = lines
    BY <2>2 DEF Rule
  <2> QED BY <2>3, <2>4
<1>7. /\ AsRead(d, rule).lineno = lineno + 1
      /\ AsRead(d, rule).targets = rule.targets
      /\ AsRead(d, rule).text_dollar = rule.text_dollar
      /\ AsRead(d, rule).dollar = kept
  <2> HIDE DEF kept
  <2> QED BY <1>4 DEF Rule
<1> QED BY <1>5, <1>6, <1>7 DEF lines

(* The rules of the targets of a static pattern rule.                      *)
LEMMA StaticType ==
  ASSUME NEW line, line.rule \in Rule, line.targets \in Seq(FileName \ {<<>>}),
         line.pattern \in FileName
  PROVE  /\ expand_static_pattern_rule(line) \in Seq(Rule)
         /\ Len(expand_static_pattern_rule(line)) = Len(line.targets)
         /\ \A i \in 1 .. Len(line.targets) :
              expand_static_pattern_rule(line)[i].recipe = line.rule.recipe
<1> DEFINE rules == expand_static_pattern_rule(line)
           L == Len(line.targets)
           rule == line.rule
<1>1. L \in Nat /\ DOMAIN line.targets = 1 .. L /\ \A i \in 1 .. L : line.targets[i] \in FileName \ {<<>>}
  OBVIOUS
<1>2. ASSUME NEW i \in 1 .. L PROVE rules[i] \in Rule /\ rules[i].recipe = line.rule.recipe
  <2> DEFINE target == line.targets[i]
             matched == match_pattern(target, line.pattern)
             stem == Stem(target, line.pattern)
             own == <<target>>
             stem_ == IF matched THEN stem ELSE <<>>
             before == IF matched THEN [p \in DOMAIN rule.prerequisites |->
                                          apply_stem(rule.prerequisites[p], stem)]
                       ELSE <<>>
             dollar == rule.text_dollar /\ matched
  <2>1. target \in FileName \ {<<>>} /\ own \in Seq(FileName \ {<<>>})
    BY <1>1
  <2>2. matched => stem \in Seq(STRING)
    BY <2>1, StemType
  <2>3. stem_ \in Seq(STRING)
    <3>1. CASE matched
      BY <2>2, <3>1
    <3>2. CASE ~matched
      BY <3>2
    <3> QED BY <3>1, <3>2
  <2>4. before \in Seq(FileName)
    <3>1. /\ DOMAIN rule.prerequisites = 1 .. Len(rule.prerequisites)
          /\ Len(rule.prerequisites) \in Nat
          /\ \A p \in 1 .. Len(rule.prerequisites) : rule.prerequisites[p] \in FileName
      BY RuleHolds
    <3>2. ASSUME matched, NEW p \in 1 .. Len(rule.prerequisites)
          PROVE  apply_stem(rule.prerequisites[p], stem) \in FileName
      BY <2>2, <3>1, <3>2, ApplyStemType
    <3> HIDE DEF matched, stem, rule
    <3>3. matched => before \in Seq(FileName)
      BY <3>1, <3>2
    <3> QED BY <3>3
  <2>5. dollar \in BOOLEAN
    <3>1. rule.text_dollar \in BOOLEAN
      BY RuleHolds
    <3> QED BY <3>1
  <2>6. rules[i] = [rule EXCEPT !.targets = own, !.text_dollar = dollar, !.static_stem = stem_,
                                !.prerequisites = before]
    BY <1>1 DEF expand_static_pattern_rule
  <2>7. rule \in Rule
    OBVIOUS
  <2> HIDE DEF own, dollar, stem_, before, rules, rule
  <2>8. rules[i] \in Rule
    BY <2>1, <2>3, <2>4, <2>5, <2>6, <2>7 DEF Rule
  <2>9. rules[i].recipe = rule.recipe
    BY <2>6, <2>7 DEF Rule
  <2> QED BY <2>8, <2>9 DEF rule
<1>3. rules = [i \in 1 .. L |-> rules[i]]
  BY <1>1 DEF expand_static_pattern_rule
<1> HIDE DEF rules, L, rule
<1>4. rules \in Seq(Rule) /\ Len(rules) = L
  BY <1>1, <1>2, <1>3, IsList
<1> QED BY <1>2, <1>4 DEF rules, L

(* An open define block.                                                   *)
Block == [name : Names, flavor : VarFlavor, override : BOOLEAN, depth : Nat, body : Seq(STRING)]

(* What the parser keeps of one open conditional.                          *)
Branch == [active : BOOLEAN, seen_true : BOOLEAN, branches : Nat]

(* The types of a parser. *)
ParserType ==
  [of : {"makefile", "preread", "include", "eval"}, file : STRING \cup {"Makefile", "<eval>"},
   ignore : BOOLEAN, text : Seq(Lines), conditional_stack : Seq(Branch), define : Seq(Block),
   in_recipe : BOOLEAN, current_rule : Seq(Rule), siblings : Seq(Rule),
   queue : Seq(Seq(Lines)), looping : BOOLEAN]

(* A parser is in a recipe exactly when a rule is pending, and has         *)
(* siblings only beside one.                                               *)
Coherent(f) ==
  /\ Len(f.current_rule) <= 1 /\ Len(f.define) <= 1
  /\ f.in_recipe <=> f.current_rule # <<>>
  /\ f.current_rule = <<>> => f.siblings = <<>>

(* A parser, with its lists consistent with one another.                   *)
Frame == {f \in ParserType : Coherent(f)}

(* The fields of a parser, one by one.                                     *)
LEMMA FrameHolds ==
  ASSUME NEW f \in Frame
  PROVE  /\ f.of \in {"makefile", "preread", "include", "eval"}
         /\ f.text \in Seq(Lines) /\ f.conditional_stack \in Seq(Branch)
         /\ f.define \in Seq(Block) /\ f.in_recipe \in BOOLEAN
         /\ f.current_rule \in Seq(Rule) /\ f.siblings \in Seq(Rule)
         /\ f.queue \in Seq(Seq(Lines)) /\ f.looping \in BOOLEAN /\ Coherent(f)
BY DEF Frame, ParserType

(* An entry of a parser may be replaced by one of its type.                *)
LEMMA FrameWith ==
  ASSUME NEW f \in Frame
  PROVE  /\ \A v \in BOOLEAN : [f EXCEPT !.looping = v] \in Frame
         /\ \A v \in Seq(Lines) : [f EXCEPT !.text = v] \in Frame
         /\ \A v \in Seq(Seq(Lines)), w \in BOOLEAN :
              [f EXCEPT !.queue = v, !.looping = w] \in Frame /\ [f EXCEPT !.queue = v] \in Frame
         /\ \A v \in Seq(Branch) : [f EXCEPT !.conditional_stack = v] \in Frame
         /\ \A v \in Seq(Block) : Len(v) <= 1 => [f EXCEPT !.define = v] \in Frame
         /\ \A r \in Seq(Rule), s \in Seq(Rule) : Len(r) = 1 =>
              [f EXCEPT !.current_rule = r, !.siblings = s, !.in_recipe = TRUE] \in Frame
<1>1. f \in ParserType /\ Coherent(f)
  BY DEF Frame
<1>2. ASSUME NEW r \in Seq(Rule), NEW s \in Seq(Rule), Len(r) = 1
      PROVE  [f EXCEPT !.current_rule = r, !.siblings = s, !.in_recipe = TRUE] \in Frame
  <2>1. r # <<>>
    BY <1>2
  <2>2. Len(r) <= 1
    BY <1>2
  <2> QED BY <1>1, <2>1, <2>2 DEF Frame, ParserType, Coherent
<1> QED BY <1>1, <1>2 DEF Frame, ParserType, Coherent

(* A flush leaves a parser with nothing pending and touches nothing else   *)
(* of it.                                                                  *)
LEMMA FlushedType ==
  ASSUME NEW f \in Frame
  PROVE  /\ Flushed(f) \in Frame /\ Flushed(f).of = f.of
         /\ Flushed(f).current_rule = <<>> /\ Flushed(f).siblings = <<>>
         /\ Flushed(f) = [f EXCEPT !.current_rule = <<>>, !.siblings = <<>>, !.in_recipe = FALSE]
<1>1. f \in ParserType /\ Coherent(f)
  BY DEF Frame
<1>2. (f.in_recipe /\ f.current_rule = <<>>) = FALSE
  BY <1>1 DEF Coherent
<1>3. Flushed(f) = [f EXCEPT !.current_rule = <<>>, !.siblings = <<>>, !.in_recipe = FALSE]
  BY <1>2 DEF Flushed
<1>4. <<>> \in Seq(Rule) /\ Len(<<>>) <= 1
  OBVIOUS
<1> QED BY <1>1, <1>3, <1>4 DEF Frame, ParserType, Coherent

(* A new parser has read nothing.                                          *)
LEMMA ParserIs ==
  ASSUME NEW of \in {"makefile", "preread", "include", "eval"},
         NEW file \in STRING \cup {"Makefile", "<eval>"},
         NEW ignore \in BOOLEAN, NEW text \in Seq(Lines)
  PROVE  /\ Parser(of, file, ignore, text) \in Frame
         /\ Parser(of, file, ignore, text).of = of
         /\ Parser(of, file, ignore, text).current_rule = <<>>
         /\ Parser(of, file, ignore, text).siblings = <<>>
         /\ Parser(of, file, ignore, text).define = <<>>
         /\ Parser(of, file, ignore, text).conditional_stack = <<>>
         /\ Parser(of, file, ignore, text).looping = FALSE
<1>1. \A S : <<>> \in Seq(S)
  OBVIOUS
<1>2. Len(<<>>) <= 1
  OBVIOUS
<1> QED BY <1>1, <1>2 DEF Parser, Frame, ParserType, Coherent

(* What a parser has pending is a list of rules.                           *)
LEMMA PendingType ==
  ASSUME NEW f \in Frame
  PROVE  PendingRules(f) \in Seq(Rule)
<1>1. f.current_rule \in Seq(Rule) /\ f.siblings \in Seq(Rule)
  BY FrameHolds
<1>2. CASE f.current_rule = <<>>
  BY <1>2 DEF PendingRules
<1>3. CASE f.current_rule # <<>>
  <2> DEFINE recipe == f.current_rule[1].recipe
             others == [i \in DOMAIN f.siblings |-> [f.siblings[i] EXCEPT !.recipe = recipe]]
  <2>1. recipe \in Seq(Nat)
    BY <1>1, <1>3, ElementOfSeq, EmptySeq, RuleHolds
  <2> HIDE DEF recipe
  <2>2. DOMAIN f.siblings = 1 .. Len(f.siblings) /\ Len(f.siblings) \in Nat
        /\ \A i \in 1 .. Len(f.siblings) : f.siblings[i] \in Rule
    BY <1>1
  <2>3. ASSUME NEW r \in Rule PROVE [r EXCEPT !.recipe = recipe] \in Rule
    BY <2>1 DEF Rule
  <2>4. \A i \in 1 .. Len(f.siblings) : others[i] \in Rule
    BY <2>2, <2>3
  <2>5. others = [i \in 1 .. Len(f.siblings) |-> others[i]]
    BY <2>2
  <2> HIDE DEF others
  <2>6. others \in Seq(Rule)
    BY <2>2, <2>4, <2>5, IsList
  <2>7. others \o f.current_rule \in Seq(Rule)
    BY <1>1, <2>6, ConcatProperties
  <2> QED BY <1>3, <2>7 DEF PendingRules, others, recipe
<1> QED BY <1>2, <1>3

(* A flush leaves a database.                                              *)
LEMMA RegisteredType ==
  ASSUME NEW d \in Base, NEW f \in Frame
  PROVE  Registered(d, f) \in Base
<1>1. PendingRules(f) \in Seq(Rule)
  BY PendingType
<1>2. PICK u \in [0 .. Len(PendingRules(f)) -> Base] : Registered(d, f) = u[Len(PendingRules(f))]
  BY <1>1, RegisteredSteps
<1>3. Len(PendingRules(f)) \in Nat
  BY <1>1
<1> QED BY <1>2, <1>3

(* The innermost parser, and the others.                                   *)
LEMMA TopHolds ==
  ASSUME NEW fs \in Seq(Frame), fs # <<>>
  PROVE  /\ Len(fs) \in Nat \ {0} /\ DOMAIN fs = 1 .. Len(fs)
         /\ Last(fs) = fs[Len(fs)] /\ Last(fs) \in Frame
         /\ Front(fs) \in Seq(Frame) /\ Len(Front(fs)) = Len(fs) - 1
         /\ \A i \in 1 .. Len(fs) - 1 : Front(fs)[i] = fs[i]
<1>1. Len(fs) \in Nat \ {0} /\ DOMAIN fs = 1 .. Len(fs)
  BY EmptySeq, LenProperties
<1>2. Last(fs) = fs[Len(fs)] /\ Last(fs) \in Frame
  BY <1>1, ElementOfSeq DEF Last
<1>3. /\ Front(fs) \in Seq(Frame) /\ Len(Front(fs)) = Len(fs) - 1
      /\ \A i \in 1 .. Len(fs) - 1 : Front(fs)[i] = fs[i]
  <2>1. \A i \in 1 .. Len(fs) - 1 : fs[i] \in Frame
    BY <1>1, ElementOfSeq
  <2>2. /\ SubSeq(fs, 1, Len(fs) - 1) \in Seq(Frame)
        /\ Len(SubSeq(fs, 1, Len(fs) - 1)) = Len(fs) - 1
        /\ \A i \in 1 .. Len(fs) - 1 : SubSeq(fs, 1, Len(fs) - 1)[i] = fs[i]
    BY <1>1
  <2> QED BY <2>2 DEF Front
<1> QED BY <1>1, <1>2, <1>3

(* Starting a parser puts it on top of the others, which stay as they are. *)
LEMMA PushHolds ==
  ASSUME NEW fs \in Seq(Frame), NEW f \in Frame
  PROVE  /\ Append(fs, f) \in Seq(Frame) /\ Append(fs, f) # <<>>
         /\ Len(Append(fs, f)) = Len(fs) + 1 /\ Append(fs, f)[Len(fs) + 1] = f
         /\ \A i \in 1 .. Len(fs) : Append(fs, f)[i] = fs[i]
OBVIOUS

(* Updating the running parser leaves those that wait below it alone.      *)
LEMMA SetTopHolds ==
  ASSUME frames \in Seq(Frame), frames # <<>>, NEW f \in Frame
  PROVE  /\ SetTop(f) \in Seq(Frame) /\ SetTop(f) # <<>> /\ Len(SetTop(f)) = Len(frames)
         /\ Last(SetTop(f)) = f /\ Front(SetTop(f)) = Front(frames)
         /\ SetTop(f)[Len(frames)] = f
         /\ \A i \in 1 .. Len(frames) - 1 : SetTop(f)[i] = frames[i]
<1> DEFINE rest == Front(frames)
<1>1. /\ Len(frames) \in Nat \ {0} /\ rest \in Seq(Frame) /\ Len(rest) = Len(frames) - 1
      /\ \A i \in 1 .. Len(frames) - 1 : rest[i] = frames[i]
  BY TopHolds
<1> HIDE DEF rest
<1> DEFINE new == Append(rest, f)
<1>2. /\ new \in Seq(Frame) /\ new # <<>> /\ Len(new) = Len(frames)
      /\ \A i \in 1 .. Len(frames) - 1 : new[i] = frames[i]
      /\ new[Len(frames)] = f
  BY <1>1
<1>3. SubSeq(new, 1, Len(new) - 1) = rest
  BY <1>1
<1> QED BY <1>2, <1>3 DEF SetTop, Last, Front, rest

(* The parsers that read a file.                                           *)
FilesIn(fs) == {i \in DOMAIN fs : IsFile(fs[i])}

(* Texts that wait to be evaluated.                                        *)
Texts_ == Seq(Seq(Lines))

(* What is left to read.                                                   *)
AgendaEntry ==
  [file : STRING \cup {"Makefile"}, of : {"preread", "makefile"}, restores : BOOLEAN]

(* The inductive form of ReaderTypeOK: the same types, with parsers        *)
(* coherent and built-ins counted.                                         *)
Types ==
  /\ IsTable(variables) /\ IsTable(given) /\ db \in Base
  /\ frames \in Seq(Frame) /\ eval_pending \in Texts_
  /\ agenda \in Seq(AgendaEntry)
  /\ phase \in {"reading", "raising", "failed", "done"}
  /\ phase = "raising" => frames # <<>>
  /\ alphabet \subseteq Lines /\ lineno \in Nat /\ overrides \subseteq Names
  /\ reset_at \in Nat /\ exposed \subseteq Nat

(* What the lines hold. *)
LEMMA LineHolds ==
  ASSUME NEW line \in Lines
  PROVE  /\ line.kind \in {"if", "else", "rule", "static", "assign", "empty"} => line.evals \in Texts_
         /\ line.kind \in {"rule", "static"} => line.rule \in Rule
         /\ line.kind = "static" => /\ line.targets \in Seq(FileName \ {<<>>})
                                    /\ line.pattern \in FileName
         /\ line.kind = "assign" => line.assignment \in Assignment
         /\ line.kind = "target_variable" => line.target \in FileName \ {<<>>}
         /\ line.kind = "export" => line.names \subseteq Names /\ line.mark \in Marks
         /\ line.kind \in {"undefine", "define"} => line.name \in Names /\ line.override \in BOOLEAN
         /\ line.kind = "define" => line.flavor \in VarFlavor
         /\ line.kind = "text" => line.words \in Seq(STRING)
         /\ line.kind = "vpath" => line.pattern \in FileName /\ line.directories \in Seq(STRING)
         /\ line.kind = "include" => line.file \in STRING /\ line.ignore \in BOOLEAN
<1>1. IsLine(line)
  BY LinesAssumption
<1> QED BY <1>1 DEF IsLine, Queues, Texts_, Word

(* Taking the next line away leaves what the parser has pending and open.  *)
LEMMA TakenHolds ==
  ASSUME Types, CanRead
  PROVE  /\ Offered \subseteq Lines /\ frames # <<>> /\ Top \in Frame /\ Taken \in Frame
         /\ Taken.of = Top.of /\ Taken.current_rule = Top.current_rule
         /\ Taken.siblings = Top.siblings /\ Taken.define = Top.define
         /\ Taken.conditional_stack = Top.conditional_stack
         /\ Taken.looping = FALSE
         /\ Flushed(Taken) \in Frame /\ Registered(db, Taken) \in Base
         /\ PendingRules(Taken) = PendingRules(Top)
<1>1. frames # <<>> /\ ~Top.looping
  BY DEF CanRead
<1>2. Top \in Frame /\ frames \in Seq(Frame)
  BY <1>1, TopHolds DEF Top, Types
<1>3. Top.text \in Seq(Lines) /\ (Top.of = "eval" => Top.text # <<>>) /\ Top.looping = FALSE
  BY <1>1, <1>2, FrameHolds DEF CanRead
<1>4. Top.of = "eval" => Tail(Top.text) \in Seq(Lines) /\ Head(Top.text) \in Lines
  BY <1>3, HeadTailProperties
<1>5. Taken \in Frame
  BY <1>2, <1>4, FrameWith DEF Taken
<1>6. Offered \subseteq Lines
  BY <1>4 DEF Offered, Types
<1>7. /\ Taken.of = Top.of /\ Taken.current_rule = Top.current_rule
      /\ Taken.siblings = Top.siblings /\ Taken.define = Top.define
      /\ Taken.conditional_stack = Top.conditional_stack /\ Taken.looping = Top.looping
  <2>1. Top \in ParserType
    BY <1>2 DEF Frame
  <2> QED BY <2>1 DEF Taken, ParserType
<1>8. Flushed(Taken) \in Frame
  BY <1>5, FlushedType
<1>9. Registered(db, Taken) \in Base
  BY <1>5, RegisteredType DEF Types
<1>10. PendingRules(Taken) = PendingRules(Top)
  BY <1>7 DEF PendingRules
<1> QED BY <1>1, <1>2, <1>3, <1>5, <1>6, <1>7, <1>8, <1>9, <1>10

(* The state after a line that ends as EndLine says.                       *)
LEMMA EndLineType ==
  ASSUME Types, frames # <<>>, NEW f \in Frame, NEW d \in Base, NEW table, IsTable(table),
         NEW evals \in Texts_, NEW recipe \in BOOLEAN, EndLine(f, d, table, evals, recipe)
  PROVE  /\ IsTable(variables') /\ db' \in Base /\ eval_pending' \in Texts_
         /\ \E g \in Frame : g.of = f.of /\ frames' = SetTop(g)
<1> DEFINE pending == eval_pending \o evals
           complete == pending # <<>> /\ ~recipe
           g == [(IF complete THEN Flushed(f) ELSE f) EXCEPT !.looping = pending # <<>>]
<1>1. pending \in Texts_
  BY ConcatProperties DEF Types, Texts_
<1>2. frames' = SetTop(g) /\ db' = (IF complete THEN Registered(d, f) ELSE d)
      /\ variables' = Shown(table, d, db') /\ eval_pending' = pending
  BY DEF EndLine
<1> HIDE DEF pending
<1>3. db' \in Base
  BY <1>2, RegisteredType
<1>4. IsTable(variables')
  BY <1>2, <1>3, BaseHolds, ShownType
<1>5. Flushed(f) \in Frame /\ Flushed(f).of = f.of
  BY FlushedType
<1>6. g \in Frame /\ g.of = f.of
  <2> DEFINE h == IF complete THEN Flushed(f) ELSE f
             l == pending # <<>>
  <2>1. h \in Frame /\ h.of = f.of
    BY <1>5
  <2>2. l \in BOOLEAN /\ g = [h EXCEPT !.looping = l]
    OBVIOUS
  <2> HIDE DEF h, l, g
  <2>3. g \in Frame
    BY <2>1, <2>2, FrameWith
  <2>4. h \in ParserType
    BY <2>1 DEF Frame
  <2>5. g.of = h.of
    BY <2>2, <2>4 DEF ParserType
  <2> QED BY <2>1, <2>3, <2>5
<1> QED BY <1>1, <1>2, <1>3, <1>4, <1>6

(* After every line but include.                                           *)
Read ==
  /\ IsTable(variables') /\ db' \in Base /\ eval_pending' \in Texts_
  /\ \/ frames' = frames
     \/ \E g \in Frame : g.of = Top.of /\ frames' = SetTop(g)

(* An assignment to .DEFAULT_GOAL leaves a database.                       *)
LEMMA SetGoalType ==
  ASSUME NEW d \in Base, NEW a, NEW goal \in FileName
  PROVE  SetGoal(d, a, goal) \in Base
<1> DEFINE e == [d EXCEPT !.default_target = goal]
           v == a.value # <<>>
<1>1. e \in Base /\ v \in BOOLEAN
  BY BaseWith
<1>2. SetGoal(d, a, goal) \in {[d EXCEPT !.stopped = TRUE], [e EXCEPT !.default_goal_explicit = v]}
  BY DEF SetGoal, Base, Database
<1> HIDE DEF e, v
<1> QED BY <1>1, <1>2, BaseWith

(* A target-specific variable leaves a database.                           *)
LEMMA TargetVariableType ==
  ASSUME NEW d \in Base, NEW target \in FileName, NEW placeholder \in Rule, NEW n \in Nat
  PROVE  TargetVariable(d, target, placeholder, n) \in Base
<1> DEFINE rules == RulesOf(d, target)
           holders == IF rules = <<>> THEN <<placeholder>> ELSE rules
           new == [k \in DOMAIN holders |-> [holders[k] EXCEPT !.vars = Append(@, n)]]
<1>1. holders \in Seq(Rule)
  <2>1. rules \in Seq(Rule) /\ <<placeholder>> \in Seq(Rule)
    BY RulesOfType
  <2> HIDE DEF rules
  <2> QED BY <2>1
<1> HIDE DEF holders
<1>2. DOMAIN holders = 1 .. Len(holders) /\ Len(holders) \in Nat
      /\ \A k \in 1 .. Len(holders) : holders[k] \in Rule
  BY <1>1
<1>3. ASSUME NEW r \in Rule PROVE [r EXCEPT !.vars = Append(@, n)] \in Rule
  <2>1. Append(r.vars, n) \in Seq(Nat)
    BY RuleHolds
  <2> QED BY <2>1 DEF Rule
<1>4. \A k \in 1 .. Len(holders) : new[k] \in Rule
  BY <1>2, <1>3
<1>5. new = [k \in 1 .. Len(holders) |-> new[k]]
  BY <1>2
<1> HIDE DEF new
<1>6. new \in Seq(Rule)
  BY <1>2, <1>4, <1>5, IsList
<1>7. SetRules(d, target, new) \in Base
  BY <1>6, SetRulesType
<1> QED BY <1>7 DEF TargetVariable, new, holders

(* No text is a list of texts.                                             *)
LEMMA NoTexts == <<>> \in Texts_
BY DEF Texts_

(* A parser updated without changing what it reads.                        *)
LEMMA SameTop ==
  ASSUME Types, CanRead, NEW f \in Frame, f.of = Top.of, frames' = SetTop(f)
  PROVE  \E g \in Frame : g.of = Top.of /\ frames' = SetTop(g)
OBVIOUS

(* The updates of a parser that leave what it reads alone.                 *)
LEMMA OtherOf ==
  ASSUME NEW f \in Frame
  PROVE  /\ \A v : [f EXCEPT !.define = v].of = f.of
         /\ \A v : [f EXCEPT !.conditional_stack = v].of = f.of
         /\ \A r, s : [f EXCEPT !.current_rule = r, !.siblings = s, !.in_recipe = TRUE].of = f.of
         /\ \A v : [f EXCEPT !.looping = v].of = f.of
         /\ \A v, w : [f EXCEPT !.queue = v, !.looping = w].of = f.of
         /\ \A v : [f EXCEPT !.queue = v].of = f.of
BY DEF Frame, ParserType

(* A line of a define block touches only the block, or ends it and defines *)
(* the variable.                                                           *)
LEMMA InDefineType ==
  ASSUME Types, CanRead, NEW line \in Lines, ReadInDefine(line)
  PROVE  /\ Read /\ Top.define # <<>> /\ Top.define[1] \in Block
         /\ \E v \in Seq(Block) :
              /\ Len(v) <= 1 /\ frames' = SetTop([Taken EXCEPT !.define = v])
              /\ \A i \in DOMAIN v : /\ v[i].name = Top.define[1].name
                                     /\ v[i].override = Top.define[1].override
         /\ \/ variables' = variables
            \/ variables' = Define(variables, Top.define[1].name, Top.define[1].flavor,
                                   Top.define[1].override, Top.define[1].body)
<1> DEFINE block == Top.define[1]
           nested == line.kind = "define"
           inner == line.kind = "endef" /\ block.depth > 0
           longer == [block EXCEPT
                        !.depth = IF nested THEN @ + 1 ELSE IF inner THEN @ - 1 ELSE @,
                        !.body = IF line.kind = "text" THEN @ \o line.words ELSE @]
<1>1. block \in Block /\ Top.define # <<>>
  <2>1. Top.define \in Seq(Block) /\ Top.define # <<>>
    BY TakenHolds, FrameHolds DEF ReadInDefine
  <2> QED BY <2>1, ElementOfSeq, EmptySeq
<1>2. /\ db' = db /\ eval_pending' = eval_pending
      /\ IF line.kind # "endef" \/ inner
         THEN frames' = SetTop([Taken EXCEPT !.define = <<longer>>]) /\ variables' = variables
         ELSE /\ frames' = SetTop([Taken EXCEPT !.define = <<>>])
              /\ variables' = Define(variables, block.name, block.flavor,
                                     block.override, block.body)
  BY DEF ReadInDefine
<1>3. longer \in Block /\ longer.name = block.name /\ longer.override = block.override
  <2> DEFINE depth == IF nested THEN block.depth + 1 ELSE IF inner THEN block.depth - 1
                      ELSE block.depth
             body == IF line.kind = "text" THEN block.body \o line.words ELSE block.body
  <2>1. block.depth \in Nat /\ block.body \in Seq(STRING)
    BY <1>1 DEF Block
  <2> HIDE DEF block
  <2>2. depth \in Nat
    BY <2>1
  <2>3. body \in Seq(STRING)
    BY <2>1, LineHolds, ConcatProperties
  <2>4. longer = [block EXCEPT !.depth = depth, !.body = body]
    BY <1>1 DEF Block
  <2> HIDE DEF longer, depth, body
  <2> QED BY <1>1, <2>2, <2>3, <2>4 DEF Block
<1> HIDE DEF longer
<1>4. [Taken EXCEPT !.define = <<longer>>] \in Frame /\ [Taken EXCEPT !.define = <<>>] \in Frame
  <2>1. <<longer>> \in Seq(Block) /\ Len(<<longer>>) <= 1
        /\ <<>> \in Seq(Block) /\ Len(<<>>) <= 1
    BY <1>3
  <2> QED BY <2>1, TakenHolds, FrameWith
<1>5. IsTable(Define(variables, block.name, block.flavor, block.override, block.body))
  BY <1>1, DefineType DEF Types, Block
<1> HIDE DEF block
<1>6. [Taken EXCEPT !.define = <<longer>>].of = Top.of /\ [Taken EXCEPT !.define = <<>>].of = Top.of
  BY TakenHolds, OtherOf
<1>7. IsTable(variables') /\ db' \in Base /\ eval_pending' \in Texts_
  BY <1>2, <1>5 DEF Types
<1>8. Read
  BY <1>2, <1>4, <1>6, <1>7 DEF Read
<1>9. \E v \in Seq(Block) :
        /\ Len(v) <= 1 /\ frames' = SetTop([Taken EXCEPT !.define = v])
        /\ \A i \in DOMAIN v : v[i].name = block.name /\ v[i].override = block.override
  <2> DEFINE one == <<longer>>
             none == <<>>
  <2>1. /\ one \in Seq(Block) /\ Len(one) <= 1 /\ DOMAIN one = {1} /\ one[1] = longer
        /\ none \in Seq(Block) /\ Len(none) <= 1 /\ DOMAIN none = {}
    BY <1>3
  <2>2. \/ frames' = SetTop([Taken EXCEPT !.define = one])
        \/ frames' = SetTop([Taken EXCEPT !.define = none])
    BY <1>2
  <2> HIDE DEF one, none
  <2>3. CASE frames' = SetTop([Taken EXCEPT !.define = one])
    BY <1>3, <2>1, <2>3
  <2>4. CASE frames' = SetTop([Taken EXCEPT !.define = none])
    BY <2>1, <2>4
  <2> QED BY <2>2, <2>3, <2>4
<1> QED BY <1>1, <1>2, <1>8, <1>9 DEF block

(* What an else leaves of a conditional.                                   *)
LEMMA OtherwiseType ==
  ASSUME NEW state \in Branch, NEW condition
  PROVE  Otherwise(state, condition) \in Branch
<1> DEFINE active == ~state.seen_true /\ (condition = <<>> \/ evaluate_condition(condition[1]))
           more == state.branches + IF active THEN 1 ELSE 0
           seen == state.seen_true \/ active
<1>1. active \in BOOLEAN
  BY DEF evaluate_condition
<1>2. more \in Nat /\ seen \in BOOLEAN
  <2>1. state.branches \in Nat /\ state.seen_true \in BOOLEAN
    BY DEF Branch
  <2> HIDE DEF active
  <2> QED BY <1>1, <2>1
<1>3. Otherwise(state, condition) = [active |-> active, seen_true |-> seen, branches |-> more]
  BY DEF Otherwise
<1> HIDE DEF active, more, seen
<1> QED BY <1>1, <1>2, <1>3 DEF Branch

(* Conditional lines keep the types.                                       *)
LEMMA ConditionalType ==
  ASSUME Types, CanRead, NEW line \in Lines,
         ReadConditional(line) \/ ReadElse(line) \/ ReadEndif(line)
  PROVE  Read
<1> DEFINE stack == Top.conditional_stack
<1>1. stack \in Seq(Branch) /\ Taken \in Frame /\ Taken.of = Top.of /\ Taken.conditional_stack = stack
  BY TakenHolds, FrameHolds
<1>2. IsTable(variables) /\ db \in Base /\ eval_pending \in Texts_
  BY DEF Types
<1>3. stack # <<>> => Front(stack) \in Seq(Branch) /\ Last(stack) \in Branch
  <2>1. stack # <<>> => Len(stack) \in 1 .. Len(stack)
    BY <1>1, EmptySeq
  <2> QED BY <1>1, <2>1, ElementOfSeq DEF Front, Last
<1>4. CASE ReadConditional(line)
  <2> DEFINE alive == is_conditionally_active(Top)
             active == alive /\ evaluate_condition(line.condition)
             branch == [active |-> active, seen_true |-> active,
                        branches |-> IF active THEN 1 ELSE 0]
             texts == IF alive THEN line.evals ELSE <<>>
  <2>1. /\ frames' = SetTop([Taken EXCEPT !.conditional_stack = Append(@, branch)])
        /\ eval_pending' = eval_pending \o texts
        /\ variables' = variables /\ db' = db
    BY <1>4 DEF ReadConditional, Queue
  <2>2. active \in BOOLEAN
    BY DEF is_conditionally_active, evaluate_condition
  <2>3. branch \in Branch
    <3> HIDE DEF active
    <3> QED BY <2>2 DEF Branch
  <2> HIDE DEF branch
  <2>4. Append(stack, branch) \in Seq(Branch)
    BY <1>1, <2>3
  <2>5. [Taken EXCEPT !.conditional_stack = Append(stack, branch)] \in Frame
    BY <1>1, <2>4, FrameWith
  <2>6. [Taken EXCEPT !.conditional_stack = Append(stack, branch)].of = Top.of
    BY <1>1, OtherOf
  <2>7. texts \in Texts_
    BY <1>4, LineHolds, NoTexts DEF ReadConditional
  <2>8. eval_pending' \in Texts_
    <3> HIDE DEF texts
    <3> QED BY <1>2, <2>1, <2>7, ConcatProperties DEF Texts_
  <2>9. frames' = SetTop([Taken EXCEPT !.conditional_stack = Append(stack, branch)])
    BY <1>1, <2>1
  <2> QED BY <1>2, <2>1, <2>5, <2>6, <2>8, <2>9 DEF Read
<1>5. CASE ReadElse(line)
  <2> DEFINE other == Append(Front(stack), Otherwise(Last(stack), line.condition))
  <2>1. variables' = variables /\ db' = db
    BY <1>5 DEF ReadElse
  <2>2. CASE stack = <<>>
    <3>1. frames' = SetTop(Taken) /\ eval_pending' = eval_pending \o <<>>
      BY <1>5, <2>2 DEF ReadElse, Queue
    <3>2. eval_pending \o <<>> \in Texts_
      BY <1>2, NoTexts, ConcatProperties DEF Texts_
    <3> QED BY <1>1, <1>2, <2>1, <3>1, <3>2 DEF Read
  <2>3. CASE stack # <<>>
    <3> DEFINE texts == IF Last(stack).seen_true THEN <<>> ELSE line.evals
    <3>1. /\ frames' = SetTop([Taken EXCEPT !.conditional_stack = other])
          /\ eval_pending' = eval_pending \o texts
      BY <1>5, <2>3 DEF ReadElse, Queue
    <3>2. other \in Seq(Branch)
      <4>1. Otherwise(Last(stack), line.condition) \in Branch
        BY <1>3, <2>3, OtherwiseType
      <4> QED BY <1>3, <2>3, <4>1
    <3> HIDE DEF other
    <3>3. [Taken EXCEPT !.conditional_stack = other] \in Frame
      BY <1>1, <3>2, FrameWith
    <3>4. [Taken EXCEPT !.conditional_stack = other].of = Top.of
      BY <1>1, OtherOf
    <3>5. texts \in Texts_
      BY <1>5, LineHolds, NoTexts DEF ReadElse
    <3>6. eval_pending' \in Texts_
      <4> HIDE DEF texts
      <4> QED BY <1>2, <3>1, <3>5, ConcatProperties DEF Texts_
    <3> QED BY <1>2, <2>1, <3>1, <3>3, <3>4, <3>6 DEF Read
  <2> QED BY <2>2, <2>3
<1>6. CASE ReadEndif(line)
  <2> DEFINE other == IF stack = <<>> THEN stack ELSE Front(stack)
  <2>1. variables' = variables /\ db' = db /\ eval_pending' = eval_pending
        /\ frames' = SetTop([Taken EXCEPT !.conditional_stack = other])
    BY <1>1, <1>6 DEF ReadEndif
  <2>2. other \in Seq(Branch)
    BY <1>1, <1>3
  <2> HIDE DEF other
  <2>3. [Taken EXCEPT !.conditional_stack = other] \in Frame
    BY <1>1, <2>2, FrameWith
  <2>4. [Taken EXCEPT !.conditional_stack = other].of = Top.of
    BY <1>1, OtherOf
  <2> QED BY <1>2, <2>1, <2>3, <2>4 DEF Read
<1> QED BY <1>4, <1>5, <1>6

(* The database and the parser after a rule line, before its end.          *)
RuleOf(line) == AsRead(Registered(db, Taken), line.rule)

(* The database after a rule line's targets have been looked at for .POSIX *)
(* and a default goal.                                                     *)
GoalStarted(line) ==
  DefaultFrom([Registered(db, Taken) EXCEPT
                 !.posix_mode = @ \/ Contains(RuleOf(line).targets, <<"POSIX">>)],
              RuleOf(line).targets)

(* The parser after a rule line, with that rule pending.                   *)
Opened(rule, siblings) ==
  [Taken EXCEPT !.current_rule = <<rule>>, !.siblings = siblings, !.in_recipe = TRUE]

(* The rule a line opens is a rule, written at that line.                  *)
LEMMA RuleOfType ==
  ASSUME Types, CanRead, NEW line \in Lines, line.kind = "rule"
  PROVE  /\ RuleOf(line) \in Rule /\ GoalStarted(line) \in Base
         /\ RuleOf(line).lineno = lineno + 1
         /\ \A k \in DOMAIN RuleOf(line).recipe : RuleOf(line).recipe[k] = lineno + 1
         /\ RuleOf(line).targets = line.rule.targets
         /\ RuleOf(line).dollar
              <=> RuleOf(line).text_dollar /\ Registered(db, Taken).second_expansion
<1> DEFINE d == Registered(db, Taken)
           rule == RuleOf(line)
<1>1. d \in Base /\ line.rule \in Rule /\ lineno \in Nat
  BY TakenHolds, LineHolds DEF Types
<1>2. d.second_expansion \in BOOLEAN /\ d.posix_mode \in BOOLEAN
  BY <1>1, BaseHolds
<1> HIDE DEF d
<1>3. /\ AsRead(d, line.rule) \in Rule
      /\ AsRead(d, line.rule).lineno = lineno + 1
      /\ AsRead(d, line.rule).recipe = [i \in DOMAIN line.rule.recipe |-> lineno + 1]
      /\ AsRead(d, line.rule).targets = line.rule.targets
      /\ AsRead(d, line.rule).text_dollar = line.rule.text_dollar
      /\ AsRead(d, line.rule).dollar <=> line.rule.text_dollar /\ d.second_expansion
  BY <1>1, <1>2, AsReadType
<1>4. RuleOf(line) = AsRead(d, line.rule)
  BY DEF RuleOf, d
<1>5. rule \in Rule
  BY <1>3, <1>4
<1>6. GoalStarted(line) \in Base
  <2> DEFINE v == d.posix_mode \/ Contains(rule.targets, <<"POSIX">>)
             e == [d EXCEPT !.posix_mode = v]
  <2>1. v \in BOOLEAN
    BY <1>2 DEF Contains
  <2> HIDE DEF v
  <2>2. e \in Base
    BY <1>1, <2>1, BaseWith
  <2> HIDE DEF e
  <2>3. DefaultFrom(e, rule.targets) \in Base
    BY <1>5, <2>2, RuleHolds, DefaultFromType
  <2> QED BY <2>3 DEF GoalStarted, e, v, d
<1>7. \A k \in DOMAIN rule.recipe : rule.recipe[k] = lineno + 1
  BY <1>3, <1>4
<1> QED BY <1>3, <1>4, <1>6, <1>7 DEF d

(* Opening a rule touches nothing else of the parser.                      *)
LEMMA OpenedType ==
  ASSUME Types, CanRead, NEW rule \in Rule, NEW siblings \in Seq(Rule)
  PROVE  /\ Opened(rule, siblings) \in Frame /\ Opened(rule, siblings).of = Top.of
         /\ Opened(rule, siblings).current_rule = <<rule>>
         /\ Opened(rule, siblings).siblings = siblings
         /\ Opened(rule, siblings).define = Top.define
         /\ Opened(rule, siblings).conditional_stack = Top.conditional_stack
<1>1. <<rule>> \in Seq(Rule) /\ Len(<<rule>>) = 1
  OBVIOUS
<1>2. Opened(rule, siblings) \in Frame
  BY <1>1, TakenHolds, FrameWith DEF Opened
<1>3. Taken \in ParserType
  BY TakenHolds DEF Frame
<1>4. /\ Opened(rule, siblings).of = Taken.of
      /\ Opened(rule, siblings).current_rule = <<rule>>
      /\ Opened(rule, siblings).siblings = siblings
      /\ Opened(rule, siblings).define = Taken.define
      /\ Opened(rule, siblings).conditional_stack = Taken.conditional_stack
  BY <1>3 DEF Opened, ParserType
<1> QED BY <1>2, <1>4, TakenHolds

(* What a rule line does: flush, look for the default goal, open the rule. *)
LEMMA RuleType ==
  ASSUME Types, CanRead, NEW line \in Lines, ReadRule(line)
  PROVE  /\ Read
         /\ EndLine(Opened(RuleOf(line), <<>>), GoalStarted(line),
                    Shown(variables, db, GoalStarted(line)), line.evals, FALSE)
<1> DEFINE f == Opened(RuleOf(line), <<>>)
           d == GoalStarted(line)
           table == Shown(variables, db, d)
<1>1. line.kind = "rule" /\ EndLine(f, d, table, line.evals, FALSE)
  BY DEF ReadRule, Reads, RuleOf, GoalStarted, Opened
<1>2. RuleOf(line) \in Rule /\ d \in Base /\ <<>> \in Seq(Rule)
  BY <1>1, RuleOfType
<1>3. f \in Frame /\ f.of = Top.of
  BY <1>2, OpenedType
<1>4. IsTable(table) /\ line.evals \in Texts_ /\ frames # <<>>
  BY <1>1, <1>2, BaseHolds, ShownType, LineHolds, TakenHolds DEF Types
<1> HIDE DEF f, d, table
<1>5. /\ IsTable(variables') /\ db' \in Base /\ eval_pending' \in Texts_
      /\ \E g \in Frame : g.of = f.of /\ frames' = SetTop(g)
  BY <1>1, <1>2, <1>3, <1>4, EndLineType
<1> QED BY <1>1, <1>3, <1>5 DEF Read, f, d, table

(* The rules of a static pattern rule.                                     *)
StaticOf(line) ==
  [i \in DOMAIN expand_static_pattern_rule(line) |->
     AsRead(Registered(db, Taken), expand_static_pattern_rule(line)[i])]

(* A static pattern line gives one rule for each of its targets, all       *)
(* written at that line.                                                   *)
LEMMA StaticOfType ==
  ASSUME Types, CanRead, NEW line \in Lines, line.kind = "static"
  PROVE  /\ StaticOf(line) \in Seq(Rule) /\ Len(StaticOf(line)) = Len(line.targets)
         /\ expand_static_pattern_rule(line) = <<>> <=> StaticOf(line) = <<>>
         /\ \A i \in 1 .. Len(StaticOf(line)) :
              LET rule == StaticOf(line)[i]
              IN  /\ rule.lineno = lineno + 1
                  /\ rule.recipe = [k \in DOMAIN line.rule.recipe |-> lineno + 1]
                  /\ rule.dollar <=> rule.text_dollar /\ Registered(db, Taken).second_expansion
<1> DEFINE d == Registered(db, Taken)
           rules == expand_static_pattern_rule(line)
           read == StaticOf(line)
           L == Len(line.targets)
<1>1. d \in Base /\ lineno \in Nat
  BY TakenHolds DEF Types
<1>2. d.second_expansion \in BOOLEAN
  BY <1>1, BaseHolds
<1>3. line.rule \in Rule /\ line.targets \in Seq(FileName \ {<<>>}) /\ line.pattern \in FileName
  BY LineHolds
<1>4. /\ rules \in Seq(Rule) /\ Len(rules) = L
      /\ \A i \in 1 .. L : rules[i].recipe = line.rule.recipe
  BY <1>3, StaticType
<1>5. L \in Nat /\ DOMAIN rules = 1 .. L /\ \A i \in 1 .. L : rules[i] \in Rule
  BY <1>3, <1>4
<1>6. read = [i \in 1 .. L |-> AsRead(d, rules[i])]
  BY <1>5 DEF StaticOf
<1> HIDE DEF d, rules, read, L
<1>7. ASSUME NEW i \in 1 .. L
      PROVE  /\ read[i] \in Rule
             /\ read[i].lineno = lineno + 1
             /\ read[i].recipe = [k \in DOMAIN line.rule.recipe |-> lineno + 1]
             /\ read[i].dollar <=> read[i].text_dollar /\ d.second_expansion
  <2>1. rules[i] \in Rule /\ rules[i].recipe = line.rule.recipe /\ read[i] = AsRead(d, rules[i])
    BY <1>4, <1>5, <1>6
  <2>2. /\ AsRead(d, rules[i]) \in Rule
        /\ AsRead(d, rules[i]).lineno = lineno + 1
        /\ AsRead(d, rules[i]).recipe = [k \in DOMAIN rules[i].recipe |-> lineno + 1]
        /\ AsRead(d, rules[i]).text_dollar = rules[i].text_dollar
        /\ AsRead(d, rules[i]).dollar <=> rules[i].text_dollar /\ d.second_expansion
    BY <1>1, <1>2, <2>1, AsReadType
  <2> QED BY <2>1, <2>2
<1>8. read \in Seq(Rule) /\ Len(read) = L
  <2>1. read = [i \in 1 .. L |-> read[i]]
    BY <1>6
  <2> QED BY <1>5, <1>7, <2>1, IsList
<1>9. rules = <<>> <=> read = <<>>
  BY <1>4, <1>8, EmptySeq
<1> QED BY <1>7, <1>8, <1>9 DEF d, rules, read, L

(* A list is its front and its last element.                               *)
LEMMA LastFront ==
  ASSUME NEW A, NEW s \in Seq(A), s # <<>>
  PROVE  /\ Last(s) \in A /\ Front(s) \in Seq(A) /\ s = Front(s) \o <<Last(s)>>
         /\ Len(s) \in Nat \ {0} /\ Last(s) = s[Len(s)]
         /\ Len(Front(s)) = Len(s) - 1 /\ \A i \in 1 .. Len(s) - 1 : Front(s)[i] = s[i]
<1>1. Len(s) \in Nat \ {0}
  BY EmptySeq
<1>2. s[Len(s)] \in A
  BY <1>1, ElementOfSeq
<1>3. /\ SubSeq(s, 1, Len(s) - 1) \in Seq(A)
      /\ Len(SubSeq(s, 1, Len(s) - 1)) = Len(s) - 1
      /\ \A i \in 1 .. Len(s) - 1 : SubSeq(s, 1, Len(s) - 1)[i] = s[i]
  <2>1. \A i \in 1 .. Len(s) - 1 : s[i] \in A
    BY <1>1, ElementOfSeq
  <2> DEFINE n == Len(s) - 1
  <2>2. n \in 0 .. Len(s)
    BY <1>1
  <2> HIDE DEF n
  <2>3. SubSeq(s, 1, n) \in Seq(A) /\ Len(SubSeq(s, 1, n)) = n
        /\ \A i \in 1 .. n : SubSeq(s, 1, n)[i] = s[i]
    BY <1>1, <2>2, SubSeqProperties
  <2> QED BY <2>3 DEF n
<1>4. s = SubSeq(s, 1, Len(s) - 1) \o <<s[Len(s)]>>
  BY <1>1
<1> QED BY <1>1, <1>2, <1>3, <1>4 DEF Last, Front

(* What a static pattern line does: flush, and open its rules, or nothing  *)
(* when it has no target.                                                  *)
LEMMA StaticLineType ==
  ASSUME Types, CanRead, NEW line \in Lines, ReadStaticPattern(line)
  PROVE  /\ Read
         /\ \/ /\ StaticOf(line) = <<>>
               /\ frames' = SetTop(Flushed(Taken)) /\ db' = Registered(db, Taken)
               /\ variables' = Shown(variables, db, Registered(db, Taken))
               /\ eval_pending' = eval_pending \o line.evals
            \/ /\ StaticOf(line) # <<>>
               /\ EndLine(Opened(Last(StaticOf(line)), Front(StaticOf(line))), Registered(db, Taken),
                          Shown(variables, db, Registered(db, Taken)), line.evals, FALSE)
<1> DEFINE d == Registered(db, Taken)
           table == Shown(variables, db, d)
           read == StaticOf(line)
<1>1. line.kind = "static"
  BY DEF ReadStaticPattern, Reads
<1>2. /\ read \in Seq(Rule) /\ d \in Base
      /\ expand_static_pattern_rule(line) = <<>> <=> read = <<>>
  BY <1>1, StaticOfType, TakenHolds
<1>3. IsTable(table) /\ line.evals \in Texts_ /\ frames # <<>>
  BY <1>1, <1>2, BaseHolds, ShownType, LineHolds, TakenHolds DEF Types
<1>4. CASE read = <<>>
  <2>1. /\ frames' = SetTop([Flushed(Taken) EXCEPT !.in_recipe = FALSE])
        /\ db' = d /\ variables' = table /\ eval_pending' = eval_pending \o line.evals
    BY <1>2, <1>4 DEF ReadStaticPattern
  <2>2. [Flushed(Taken) EXCEPT !.in_recipe = FALSE] = Flushed(Taken) /\ Flushed(Taken) \in Frame
        /\ Flushed(Taken).of = Top.of
    <3>1. Taken \in ParserType /\ Taken \in Frame /\ Taken.of = Top.of
      BY TakenHolds DEF Frame
    <3>2. /\ Flushed(Taken) = [Taken EXCEPT !.current_rule = <<>>, !.siblings = <<>>, !.in_recipe = FALSE]
          /\ Flushed(Taken).of = Taken.of /\ Flushed(Taken) \in Frame
      BY <3>1, FlushedType
    <3> QED BY <3>1, <3>2 DEF ParserType
  <2>3. eval_pending \o line.evals \in Texts_
    BY <1>3, ConcatProperties DEF Types, Texts_
  <2> HIDE DEF d, table
  <2>4. Read
    BY <1>2, <1>3, <2>1, <2>2, <2>3 DEF Read
  <2> QED BY <1>4, <2>1, <2>2, <2>4 DEF d, table
<1>5. CASE read # <<>>
  <2> DEFINE f == Opened(Last(read), Front(read))
  <2>1. EndLine(f, d, table, line.evals, FALSE)
    BY <1>2, <1>5 DEF ReadStaticPattern, Opened, StaticOf
  <2>2. f \in Frame /\ f.of = Top.of
    <3> HIDE DEF read
    <3>1. Last(read) \in Rule /\ Front(read) \in Seq(Rule)
      BY <1>2, <1>5, LastFront
    <3> QED BY <3>1, OpenedType
  <2> HIDE DEF f, d, table
  <2>3. /\ IsTable(variables') /\ db' \in Base /\ eval_pending' \in Texts_
        /\ \E g \in Frame : g.of = f.of /\ frames' = SetTop(g)
    BY <1>2, <1>3, <2>1, <2>2, EndLineType
  <2> QED BY <1>5, <2>1, <2>2, <2>3 DEF Read, f, d, table
<1> QED BY <1>4, <1>5

(* A line that ends as EndLine says, for the parser it is given.           *)
LEMMA EndLineRead ==
  ASSUME Types, CanRead, NEW f \in Frame, f.of = Top.of, NEW d \in Base, NEW table,
         IsTable(table), NEW evals \in Texts_, NEW recipe \in BOOLEAN,
         EndLine(f, d, table, evals, recipe)
  PROVE  Read
<1>1. frames # <<>>
  BY TakenHolds
<1>2. /\ IsTable(variables') /\ db' \in Base /\ eval_pending' \in Texts_
      /\ \E g \in Frame : g.of = f.of /\ frames' = SetTop(g)
  BY <1>1, EndLineType
<1> QED BY <1>2 DEF Read

(* A recipe line makes the recipes of the open rules longer.               *)
Longer(rule) == [rule EXCEPT !.recipe = Append(@, lineno + 1)]

(* A recipe line goes to every pending rule.                               *)
LongerAll(rules) == [i \in DOMAIN rules |-> Longer(rules[i])]

(* The parser after a recipe line.                                         *)
Cooking ==
  [Taken EXCEPT !.current_rule = LongerAll(Taken.current_rule),
                !.siblings = LongerAll(Taken.siblings)]

(* A recipe line only lengthens the recipe.                                *)
LEMMA LongerType ==
  ASSUME lineno \in Nat, NEW rule \in Rule
  PROVE  /\ Longer(rule) \in Rule /\ Longer(rule).recipe = Append(rule.recipe, lineno + 1)
         /\ Longer(rule).lineno = rule.lineno /\ Longer(rule).dollar = rule.dollar
         /\ Longer(rule).text_dollar = rule.text_dollar /\ Longer(rule).targets = rule.targets
<1> DEFINE recipe == Append(rule.recipe, lineno + 1)
<1>1. recipe \in Seq(Nat)
  BY RuleHolds
<1>2. Longer(rule) = [rule EXCEPT !.recipe = recipe]
  BY DEF Longer
<1> HIDE DEF recipe
<1>3. /\ Longer(rule) \in Rule /\ Longer(rule).recipe = recipe
      /\ Longer(rule).lineno = rule.lineno /\ Longer(rule).dollar = rule.dollar
      /\ Longer(rule).text_dollar = rule.text_dollar /\ Longer(rule).targets = rule.targets
  BY <1>1, <1>2 DEF Rule
<1> QED BY <1>3 DEF recipe

(* Every pending rule gets the line.                                       *)
LEMMA LongerAllType ==
  ASSUME lineno \in Nat, NEW rules \in Seq(Rule)
  PROVE  /\ LongerAll(rules) \in Seq(Rule) /\ Len(LongerAll(rules)) = Len(rules)
         /\ \A i \in 1 .. Len(rules) : LongerAll(rules)[i] = Longer(rules[i])
         /\ LongerAll(rules) = <<>> <=> rules = <<>>
<1>1. Len(rules) \in Nat /\ DOMAIN rules = 1 .. Len(rules)
      /\ \A i \in 1 .. Len(rules) : rules[i] \in Rule
  OBVIOUS
<1>2. \A i \in 1 .. Len(rules) : LongerAll(rules)[i] = Longer(rules[i])
  BY <1>1 DEF LongerAll
<1>3. LongerAll(rules) = [i \in 1 .. Len(rules) |-> LongerAll(rules)[i]]
  BY <1>1 DEF LongerAll
<1>4. \A i \in 1 .. Len(rules) : LongerAll(rules)[i] \in Rule
  BY <1>1, <1>2, LongerType
<1>5. LongerAll(rules) \in Seq(Rule) /\ Len(LongerAll(rules)) = Len(rules)
  BY <1>1, <1>3, <1>4, IsList
<1> QED BY <1>2, <1>5, EmptySeq

(* A recipe line touches nothing of the parser but its pending rules.      *)
LEMMA CookingType ==
  ASSUME Types, CanRead
  PROVE  /\ Cooking \in Frame /\ Cooking.of = Top.of
         /\ Cooking.current_rule = LongerAll(Top.current_rule)
         /\ Cooking.siblings = LongerAll(Top.siblings)
         /\ Cooking.define = Top.define /\ Cooking.conditional_stack = Top.conditional_stack
<1> DEFINE r == LongerAll(Taken.current_rule)
           s == LongerAll(Taken.siblings)
<1>1. Taken \in Frame /\ Taken \in ParserType /\ Coherent(Taken) /\ lineno \in Nat
  BY TakenHolds DEF Types, Frame
<1>2. Taken.current_rule \in Seq(Rule) /\ Taken.siblings \in Seq(Rule)
  BY <1>1, FrameHolds
<1>3. /\ r \in Seq(Rule) /\ Len(r) = Len(Taken.current_rule)
      /\ r = <<>> <=> Taken.current_rule = <<>>
      /\ s \in Seq(Rule) /\ (s = <<>> <=> Taken.siblings = <<>>)
  BY <1>1, <1>2, LongerAllType
<1>4. Cooking = [Taken EXCEPT !.current_rule = r, !.siblings = s]
  BY DEF Cooking
<1> HIDE DEF r, s
<1>5. Cooking \in ParserType
  BY <1>1, <1>3, <1>4 DEF ParserType
<1>6. /\ Cooking.current_rule = r /\ Cooking.siblings = s /\ Cooking.of = Taken.of
      /\ Cooking.define = Taken.define /\ Cooking.conditional_stack = Taken.conditional_stack
      /\ Cooking.in_recipe = Taken.in_recipe
  BY <1>1, <1>4 DEF ParserType
<1>7. Coherent(Cooking)
  BY <1>1, <1>3, <1>6 DEF Coherent
<1>8. Cooking \in Frame
  BY <1>5, <1>7 DEF Frame
<1> QED BY <1>6, <1>8, TakenHolds DEF r, s

(* Stopping at an error leaves a database.                                 *)
LEMMA StoppedType ==
  ASSUME Types
  PROVE  [db EXCEPT !.stopped = TRUE] \in Base
BY BaseWith DEF Types

(* What a recipe line does: lengthen the pending rules, or stop when there *)
(* is none.                                                                *)
LEMMA RecipeType ==
  ASSUME Types, CanRead, NEW line \in Lines, ReadRecipe(line)
  PROVE  /\ Read
         /\ \/ /\ Top.in_recipe /\ EndLine(Cooking, db, variables, <<>>, TRUE)
            \/ /\ db' = [db EXCEPT !.stopped = TRUE] /\ variables' = variables
               /\ frames' = frames /\ eval_pending' = eval_pending
<1>1. Taken.in_recipe = Top.in_recipe /\ Top.in_recipe \in BOOLEAN
  <2>1. Top \in ParserType /\ Top \in Frame
    BY TakenHolds DEF Frame
  <2> QED BY <2>1, FrameHolds DEF Taken, ParserType
<1>2. CASE Top.in_recipe
  <2>1. EndLine(Cooking, db, variables, <<>>, TRUE)
    BY <1>1, <1>2 DEF ReadRecipe, Cooking, LongerAll, Longer
  <2>2. Cooking \in Frame /\ Cooking.of = Top.of /\ db \in Base /\ IsTable(variables)
    BY CookingType DEF Types
  <2>3. Read
    BY <2>1, <2>2, NoTexts, EndLineRead
  <2> QED BY <1>2, <2>1, <2>3
<1>3. CASE ~Top.in_recipe
  <2>1. /\ db' = [db EXCEPT !.stopped = TRUE] /\ variables' = variables
        /\ frames' = frames /\ eval_pending' = eval_pending
    BY <1>1, <1>3 DEF ReadRecipe
  <2>2. Read
    BY <2>1, StoppedType DEF Types, Read
  <2> QED BY <2>1, <2>2
<1> QED BY <1>1, <1>2, <1>3

(* The table and the database that an assignment leaves.                   *)
ShownTable == Shown(variables, db, Registered(db, Taken))

(* The assignment of a line, the value of := expanded.                     *)
AssignmentOf(line) == Immediate(variables, line.assignment)

(* An assignment that takes effect on .DEFAULT_GOAL.                       *)
Special_goal(a) == a.name = DefaultGoal /\ (a.flavor = "?=" \/ ~Blocked(ShownTable, a))

(* The value an assignment to .DEFAULT_GOAL gives it.                      *)
Goal(a) == Expand(set_variable(ShownTable, a), a.value)

(* The variables after an assignment line.                                 *)
AssignedTable(a) ==
  IF Special_goal(a) THEN [set_variable(ShownTable, a) EXCEPT ![DefaultGoal].value = Goal(a)]
  ELSE set_variable(ShownTable, a)

(* The database after an assignment line: flushed, with the goal it may    *)
(* have named.                                                             *)
AssignedBase(a) ==
  IF Special_goal(a) THEN SetGoal(Registered(db, Taken), a, Goal(a)) ELSE Registered(db, Taken)

(* The table and the database an assignment line starts from.              *)
LEMMA ShownTableType ==
  ASSUME Types, CanRead
  PROVE  IsTable(ShownTable) /\ Registered(db, Taken) \in Base
BY TakenHolds, BaseHolds, ShownType DEF Types, ShownTable

(* What an assignment line leaves has the right types.                     *)
LEMMA AssignedType ==
  ASSUME Types, CanRead, NEW a \in Assignment
  PROVE  /\ IsTable(set_variable(ShownTable, a)) /\ Goal(a) \in Seq(STRING)
         /\ IsTable(AssignedTable(a)) /\ AssignedBase(a) \in Base
<1> DEFINE set == set_variable(ShownTable, a)
<1>1. IsTable(set) /\ Registered(db, Taken) \in Base
  BY ShownTableType, SetVariableType
<1>2. Goal(a) \in Seq(STRING)
  <2>1. a.value \in Seq(STRING)
    BY DEF Assignment, Word
  <2> HIDE DEF set
  <2>2. Expand(set, a.value) \in Seq(STRING)
    BY <1>1, <2>1, ExpandType
  <2> QED BY <2>2 DEF Goal, set
<1>3. IsTable(AssignedTable(a))
  <2>1. IsTable([set EXCEPT ![DefaultGoal].value = Goal(a)])
    <3> HIDE DEF set
    <3> QED BY <1>1, <1>2, ValueType
  <2> QED BY <1>1, <2>1 DEF AssignedTable
<1>4. AssignedBase(a) \in Base
  <2>1. Goal(a) \in FileName
    BY <1>2 DEF FileName
  <2>2. SetGoal(Registered(db, Taken), a, Goal(a)) \in Base
    BY <1>1, <2>1, SetGoalType
  <2> QED BY <1>1, <2>2 DEF AssignedBase
<1> QED BY <1>1, <1>2, <1>3, <1>4

(* What an assignment line does: flush, assign, and take .DEFAULT_GOAL as  *)
(* the goal.                                                               *)
LEMMA AssignmentType ==
  ASSUME Types, CanRead, NEW line \in Lines, ReadAssignment(line)
  PROVE  /\ Read /\ AssignmentOf(line) \in Assignment
         /\ EndLine(Flushed(Taken), AssignedBase(AssignmentOf(line)),
                    AssignedTable(AssignmentOf(line)), line.evals, FALSE)
         /\ overrides' = IF AssignmentOf(line).override
                         THEN overrides \cup {AssignmentOf(line).name} ELSE overrides
         /\ reset_at' = IF Special_goal(AssignmentOf(line)) THEN lineno + 1 ELSE reset_at
<1> DEFINE a == AssignmentOf(line)
<1>1. line.kind = "assign" /\ a \in Assignment /\ line.evals \in Texts_
  BY LineHolds, ImmediateType DEF ReadAssignment, Reads, Types, AssignmentOf
<1>2. /\ EndLine(Flushed(Taken), AssignedBase(a), AssignedTable(a), line.evals, FALSE)
      /\ overrides' = IF a.override THEN overrides \cup {a.name} ELSE overrides
      /\ reset_at' = IF Special_goal(a) THEN lineno + 1 ELSE reset_at
  BY DEF ReadAssignment, AssignedBase, AssignedTable, Special_goal, Goal, ShownTable, AssignmentOf
<1>3. Flushed(Taken) \in Frame /\ Flushed(Taken).of = Top.of
  BY TakenHolds, FlushedType
<1>4. IsTable(AssignedTable(a)) /\ AssignedBase(a) \in Base
  BY <1>1, AssignedType
<1>5. Read
  BY <1>1, <1>2, <1>3, <1>4, EndLineRead
<1> QED BY <1>1, <1>2, <1>5

(* The rule that carries a target-specific variable.                       *)
Placeholder(target) == [NoRule EXCEPT !.targets = <<target>>]

(* The rule that carries a target-specific variable is a rule.             *)
LEMMA PlaceholderType ==
  ASSUME NEW target \in FileName \ {<<>>}
  PROVE  Placeholder(target) \in Rule
<1> DEFINE targets == <<target>>
<1>1. targets \in Seq(FileName \ {<<>>})
  OBVIOUS
<1>2. \A S : <<>> \in Seq(S)
  OBVIOUS
<1>3. NoRule \in Rule
  BY <1>2 DEF NoRule, Rule
<1>4. Placeholder(target) = [NoRule EXCEPT !.targets = targets]
  BY DEF Placeholder
<1> HIDE DEF targets
<1> QED BY <1>1, <1>3, <1>4 DEF Rule

(* What a line with a target-specific variable does.                       *)
LEMMA TargetVariableLineType ==
  ASSUME Types, CanRead, NEW line \in Lines, ReadTargetVariable(line)
  PROVE  /\ Read /\ line.target \in FileName \ {<<>>}
         /\ EndLine(Flushed(Taken),
              TargetVariable(Registered(db, Taken), line.target, Placeholder(line.target),
                             lineno + 1),
              ShownTable, <<>>, FALSE)
<1> DEFINE d == TargetVariable(Registered(db, Taken), line.target, Placeholder(line.target),
                               lineno + 1)
<1>1. line.target \in FileName \ {<<>>} /\ lineno + 1 \in Nat
  BY LineHolds DEF ReadTargetVariable, Reads, Types
<1>2. d \in Base
  BY <1>1, PlaceholderType, ShownTableType, TargetVariableType
<1>3. EndLine(Flushed(Taken), d, ShownTable, <<>>, FALSE)
  BY DEF ReadTargetVariable, Placeholder, ShownTable
<1>4. Flushed(Taken) \in Frame /\ Flushed(Taken).of = Top.of
  BY TakenHolds, FlushedType
<1> HIDE DEF d
<1>5. Read
  BY <1>2, <1>3, <1>4, ShownTableType, NoTexts, EndLineRead
<1> QED BY <1>1, <1>3, <1>5 DEF d

(* The database after an export or unexport line.                          *)
ExportBase(line) ==
  [db EXCEPT !.export_all = @ \/ (line.names = {} /\ line.mark = "exported"),
             !.unexport_all = @ \/ (line.names = {} /\ line.mark = "unexported")]

(* What an export or unexport line does: it marks, and flushes nothing.    *)
LEMMA ExportType ==
  ASSUME Types, CanRead, NEW line \in Lines, ReadExport(line)
  PROVE  /\ Read /\ line.names \in SUBSET Names /\ line.mark \in Marks
         /\ ExportBase(line) \in Base
         /\ ExportBase(line).log = db.log /\ ExportBase(line).rules = db.rules
         /\ ExportBase(line).default_target = db.default_target
         /\ EndLine(Taken, ExportBase(line), Mark(variables, line.names, line.mark), <<>>, FALSE)
<1> DEFINE v == db.export_all \/ (line.names = {} /\ line.mark = "exported")
           w == db.unexport_all \/ (line.names = {} /\ line.mark = "unexported")
<1>1. line.names \in SUBSET Names /\ line.mark \in Marks
  BY LineHolds DEF ReadExport, Reads
<1>2. db \in Base /\ v \in BOOLEAN /\ w \in BOOLEAN
  BY BaseHolds DEF Types
<1>3. ExportBase(line) = [db EXCEPT !.export_all = v, !.unexport_all = w]
  BY DEF ExportBase
<1> HIDE DEF v, w
<1>4. /\ ExportBase(line) \in Base
      /\ ExportBase(line).log = db.log /\ ExportBase(line).rules = db.rules
      /\ ExportBase(line).default_target = db.default_target
  BY <1>2, <1>3 DEF Base, Database
<1>5. IsTable(Mark(variables, line.names, line.mark))
  BY <1>1, MarkType DEF Types
<1>6. EndLine(Taken, ExportBase(line), Mark(variables, line.names, line.mark), <<>>, FALSE)
  BY DEF ReadExport, ExportBase
<1>7. Read
  BY <1>4, <1>5, <1>6, TakenHolds, NoTexts, EndLineRead
<1> QED BY <1>1, <1>4, <1>6, <1>7

(* What an undefine line does: it flushes nothing.                         *)
LEMMA UndefineLineType ==
  ASSUME Types, CanRead, NEW line \in Lines, ReadUndefine(line)
  PROVE  /\ Read /\ line.name \in Names /\ line.override \in BOOLEAN
         /\ EndLine(Taken, db, Undefine(variables, line.name, line.override), <<>>, FALSE)
<1>1. line.name \in Names /\ line.override \in BOOLEAN
  BY LineHolds DEF ReadUndefine, Reads
<1>2. EndLine(Taken, db, Undefine(variables, line.name, line.override), <<>>, FALSE)
  BY DEF ReadUndefine
<1>3. IsTable(Undefine(variables, line.name, line.override)) /\ db \in Base
  BY UndefineType DEF Types
<1>4. Read
  BY <1>2, <1>3, TakenHolds, NoTexts, EndLineRead
<1> QED BY <1>1, <1>2, <1>4

(* The block a define line opens.                                          *)
BlockOf(line) ==
  [name |-> line.name, flavor |-> line.flavor, override |-> line.override, depth |-> 0,
   body |-> <<>>]

(* The parser after a define line.                                         *)
Defining(line) == [Taken EXCEPT !.define = <<BlockOf(line)>>]

(* What a define line does: it opens a block, and flushes nothing.         *)
LEMMA DefineLineType ==
  ASSUME Types, CanRead, NEW line \in Lines, ReadDefine(line)
  PROVE  /\ Read /\ line.name \in Names /\ line.override \in BOOLEAN
         /\ BlockOf(line) \in Block
         /\ Defining(line) \in Frame /\ Defining(line).of = Top.of
         /\ Defining(line).define = <<BlockOf(line)>>
         /\ Defining(line).current_rule = Top.current_rule
         /\ Defining(line).siblings = Top.siblings
         /\ Defining(line).conditional_stack = Top.conditional_stack
         /\ EndLine(Defining(line), db, variables, <<>>, FALSE)
<1>1. line.name \in Names /\ line.override \in BOOLEAN /\ line.flavor \in VarFlavor
  BY LineHolds DEF ReadDefine, Reads
<1>2. BlockOf(line) \in Block
  <2>1. <<>> \in Seq(STRING)
    OBVIOUS
  <2> QED BY <1>1, <2>1 DEF BlockOf, Block
<1> DEFINE define == <<BlockOf(line)>>
<1>3. define \in Seq(Block) /\ Len(define) <= 1
  BY <1>2
<1>4. Defining(line) = [Taken EXCEPT !.define = define]
  BY DEF Defining
<1> HIDE DEF define
<1>5. Defining(line) \in Frame
  BY <1>3, <1>4, TakenHolds, FrameWith
<1>6. /\ Defining(line).of = Taken.of /\ Defining(line).define = define
      /\ Defining(line).current_rule = Taken.current_rule
      /\ Defining(line).siblings = Taken.siblings
      /\ Defining(line).conditional_stack = Taken.conditional_stack
  <2>1. Taken \in ParserType
    BY TakenHolds DEF Frame
  <2> QED BY <1>4, <2>1 DEF ParserType
<1>7. EndLine(Defining(line), db, variables, <<>>, FALSE)
  BY DEF ReadDefine, Defining, BlockOf
<1>8. Read
  BY <1>5, <1>6, <1>7, TakenHolds, NoTexts, EndLineRead DEF Types
<1> QED BY <1>1, <1>2, <1>5, <1>6, <1>7, <1>8, TakenHolds DEF define

(* What a line that expands to nothing does.                               *)
LEMMA EmptyType ==
  ASSUME Types, CanRead, NEW line \in Lines, ReadEmpty(line)
  PROVE  Read /\ EndLine(Taken, db, variables, line.evals, FALSE)
<1>1. EndLine(Taken, db, variables, line.evals, FALSE) /\ line.evals \in Texts_
  BY LineHolds DEF ReadEmpty, Reads
<1>2. Read
  BY <1>1, TakenHolds, EndLineRead DEF Types
<1> QED BY <1>1, <1>2

(* The search paths after a vpath line.                                    *)
VpathOf(line) ==
  IF line.pattern = <<>> THEN <<>>
  ELSE IF line.directories = <<>>
  THEN Select(Registered(db, Taken).vpath,
              {v \in ToSet(Registered(db, Taken).vpath) : v[1] # line.pattern})
  ELSE Append(Registered(db, Taken).vpath, <<line.pattern, line.directories>>)

(* What a vpath line does.                                                 *)
LEMMA VpathType ==
  ASSUME Types, CanRead, NEW line \in Lines, ReadVpath(line)
  PROVE  /\ Read /\ VpathOf(line) \in Seq(Seq(Seq(STRING)))
         /\ EndLine(Flushed(Taken), [Registered(db, Taken) EXCEPT !.vpath = VpathOf(line)],
                    ShownTable, <<>>, FALSE)
<1> DEFINE d == Registered(db, Taken)
           kept == {v \in ToSet(d.vpath) : v[1] # line.pattern}
<1>1. line.pattern \in Seq(STRING) /\ line.directories \in Seq(STRING)
  BY LineHolds DEF ReadVpath, Reads, FileName
<1>2. d \in Base
  BY TakenHolds
<1>3. d.vpath \in Seq(Seq(Seq(STRING)))
  BY <1>2, BaseHolds
<1>4. VpathOf(line) \in Seq(Seq(Seq(STRING)))
  <2> DEFINE A == Seq(Seq(STRING))
             pair == <<line.pattern, line.directories>>
  <2>1. <<>> \in Seq(A)
    OBVIOUS
  <2>2. pair \in A
    BY <1>1
  <2>3. VpathOf(line) = IF line.pattern = <<>> THEN <<>>
                        ELSE IF line.directories = <<>> THEN Select(d.vpath, kept)
                        ELSE Append(d.vpath, pair)
    BY DEF VpathOf
  <2> HIDE DEF d, pair
  <2>4. Select(d.vpath, kept) \in Seq(A)
    <3> DEFINE K == kept
    <3> HIDE DEF K
    <3>1. Select(d.vpath, K) \in Seq(A)
      BY <1>3, SelectType
    <3> QED BY <3>1 DEF K
  <2>5. Append(d.vpath, pair) \in Seq(A)
    BY <1>3, <2>2
  <2> HIDE DEF kept, A
  <2>6. VpathOf(line) \in Seq(A)
    BY <2>1, <2>3, <2>4, <2>5
  <2> QED BY <2>6 DEF A
<1>5. EndLine(Flushed(Taken), [d EXCEPT !.vpath = VpathOf(line)], ShownTable, <<>>, FALSE)
  BY DEF ReadVpath, VpathOf, ShownTable
<1>6. [d EXCEPT !.vpath = VpathOf(line)] \in Base
  BY <1>2, <1>4, BaseWith
<1>7. Flushed(Taken) \in Frame /\ Flushed(Taken).of = Top.of
  BY TakenHolds, FlushedType
<1>8. Read
  <2> DEFINE e == [d EXCEPT !.vpath = VpathOf(line)]
  <2>1. EndLine(Flushed(Taken), e, ShownTable, <<>>, FALSE) /\ e \in Base
    BY <1>5, <1>6
  <2> HIDE DEF e, d
  <2> QED BY <1>7, <2>1, ShownTableType, NoTexts, EndLineRead
<1> QED BY <1>4, <1>5, <1>8

(* A line without a separator and a line in a dead branch keep the types.  *)
LEMMA PlainLineType ==
  ASSUME Types, CanRead, NEW line \in Lines,
         ReadMissingSeparator(line) \/ ReadInDeadBranch(line)
  PROVE  Read
<1>1. CASE ReadMissingSeparator(line)
  BY <1>1, StoppedType DEF ReadMissingSeparator, Types, Read
<1>2. CASE ReadInDeadBranch(line)
  <2>1. /\ frames' = SetTop(Taken) /\ variables' = variables /\ db' = db
        /\ eval_pending' = eval_pending
    BY <1>2 DEF ReadInDeadBranch
  <2> QED BY <2>1, TakenHolds DEF Types, Read
<1> QED BY <1>1, <1>2

(* The files among the parsers at work.                                    *)
LEMMA FilesFinite ==
  ASSUME NEW fs \in Seq(Frame)
  PROVE  /\ IsFiniteSet(FilesIn(fs)) /\ Cardinality(FilesIn(fs)) \in Nat
         /\ FilesIn(fs) \subseteq 1 .. Len(fs)
<1>1. DOMAIN fs = 1 .. Len(fs) /\ Len(fs) \in Nat
  OBVIOUS
<1>2. IsFiniteSet(1 .. Len(fs)) /\ FilesIn(fs) \subseteq 1 .. Len(fs)
  BY <1>1, FS_Interval DEF FilesIn
<1> QED BY <1>2, FS_Subset, FS_CardinalityType

(* Parsers that read the same things have the same files open.             *)
LEMMA FilesSame ==
  ASSUME NEW fs \in Seq(Frame), NEW gs \in Seq(Frame), Len(fs) = Len(gs),
         \A i \in 1 .. Len(fs) : fs[i].of = gs[i].of
  PROVE  FilesIn(fs) = FilesIn(gs)
<1>1. DOMAIN fs = 1 .. Len(fs) /\ DOMAIN gs = 1 .. Len(fs)
  OBVIOUS
<1> QED BY <1>1 DEF FilesIn, IsFile

(* A parser on top of the others opens at most one file.                   *)
LEMMA FilesPush ==
  ASSUME NEW fs \in Seq(Frame), NEW f \in Frame
  PROVE  Cardinality(FilesIn(Append(fs, f))) =
           IF IsFile(f) THEN Cardinality(FilesIn(fs)) + 1 ELSE Cardinality(FilesIn(fs))
<1> DEFINE new == Append(fs, f)
<1>1. /\ new \in Seq(Frame) /\ Len(new) = Len(fs) + 1 /\ Len(fs) \in Nat
      /\ new[Len(fs) + 1] = f /\ \A i \in 1 .. Len(fs) : new[i] = fs[i]
      /\ DOMAIN fs = 1 .. Len(fs)
  OBVIOUS
<1> HIDE DEF new
<1>2. DOMAIN new = 1 .. Len(fs) + 1
  BY <1>1
<1>3. FilesIn(new) = IF IsFile(f) THEN FilesIn(fs) \cup {Len(fs) + 1} ELSE FilesIn(fs)
  <2>1. 1 .. Len(fs) + 1 = (1 .. Len(fs)) \cup {Len(fs) + 1}
    BY <1>1
  <2> QED BY <1>1, <1>2, <2>1 DEF FilesIn
<1>4. Len(fs) + 1 \notin FilesIn(fs)
  BY <1>1, FilesFinite
<1>5. Cardinality(FilesIn(fs) \cup {Len(fs) + 1}) = Cardinality(FilesIn(fs)) + 1
  BY <1>4, FilesFinite, FS_AddElement
<1> QED BY <1>3, <1>5 DEF new

(* A parser that ends closes at most one file.                             *)
LEMMA FilesPop ==
  ASSUME NEW fs \in Seq(Frame), fs # <<>>
  PROVE  Cardinality(FilesIn(fs)) =
           IF IsFile(Last(fs)) THEN Cardinality(FilesIn(Front(fs))) + 1
           ELSE Cardinality(FilesIn(Front(fs)))
<1>1. Front(fs) \in Seq(Frame) /\ Last(fs) \in Frame /\ fs = Append(Front(fs), Last(fs))
  <2>1. Front(fs) \in Seq(Frame) /\ Last(fs) \in Frame /\ fs = Front(fs) \o <<Last(fs)>>
    BY LastFront
  <2> DEFINE r == Front(fs)
             f == Last(fs)
  <2> HIDE DEF r, f
  <2>2. r \in Seq(Frame) /\ f \in Frame /\ fs = r \o <<f>>
    BY <2>1 DEF r, f
  <2>3. Append(r, f) = r \o <<f>>
    BY <2>2
  <2> QED BY <2>2, <2>3 DEF r, f
<1> DEFINE r == Front(fs)
           f == Last(fs)
<1> HIDE DEF r, f
<1>2. r \in Seq(Frame) /\ f \in Frame /\ fs = Append(r, f)
  BY <1>1 DEF r, f
<1>3. Cardinality(FilesIn(Append(r, f))) =
           IF IsFile(f) THEN Cardinality(FilesIn(r)) + 1 ELSE Cardinality(FilesIn(r))
  BY <1>2, FilesPush
<1> QED BY <1>2, <1>3 DEF r, f

(* Updating the running parser opens and closes no file.                   *)
LEMMA FilesTop ==
  ASSUME Types, frames # <<>>, NEW g \in Frame, g.of = Top.of
  PROVE  SetTop(g) \in Seq(Frame) /\ SetTop(g) # <<>> /\ FilesIn(SetTop(g)) = FilesIn(frames)
<1>1. frames \in Seq(Frame)
  BY DEF Types
<1>2. /\ SetTop(g) \in Seq(Frame) /\ SetTop(g) # <<>> /\ Len(SetTop(g)) = Len(frames)
      /\ SetTop(g)[Len(frames)] = g
      /\ \A i \in 1 .. Len(frames) - 1 : SetTop(g)[i] = frames[i]
  BY <1>1, SetTopHolds
<1>3. Len(frames) \in Nat \ {0} /\ Top = frames[Len(frames)]
  BY <1>1, TopHolds DEF Top
<1>4. \A i \in 1 .. Len(frames) : SetTop(g)[i].of = frames[i].of
  <2> SUFFICES ASSUME NEW i \in 1 .. Len(frames) PROVE SetTop(g)[i].of = frames[i].of
    OBVIOUS
  <2>1. CASE i = Len(frames)
    BY <1>2, <1>3, <2>1
  <2>2. CASE i \in 1 .. Len(frames) - 1
    BY <1>2, <2>2
  <2> QED BY <1>3, <2>1, <2>2
<1>5. FilesIn(SetTop(g)) = FilesIn(frames)
  BY <1>1, <1>2, <1>4, FilesSame
<1> QED BY <1>2, <1>5

(* The lines but include.                                                  *)
OrdinaryLine(line) ==
  \/ ReadInDefine(line) \/ ReadInDeadBranch(line)
  \/ ReadConditional(line) \/ ReadElse(line) \/ ReadEndif(line)
  \/ ReadRule(line) \/ ReadStaticPattern(line) \/ ReadRecipe(line)
  \/ ReadAssignment(line) \/ ReadTargetVariable(line) \/ ReadExport(line)
  \/ ReadUndefine(line) \/ ReadDefine(line) \/ ReadEmpty(line) \/ ReadVpath(line)
  \/ ReadMissingSeparator(line)

(* A line that is not an include moves on by one line and leaves the files *)
(* alone.                                                                  *)
LEMMA LineTypes ==
  ASSUME Types, CanRead, NEW line \in Lines, OrdinaryLine(line)
  PROVE  /\ Read /\ lineno' = lineno + 1 /\ phase' = phase /\ agenda' = agenda
         /\ alphabet' = alphabet /\ given' = given /\ include_depth' = include_depth
         /\ erred' = erred /\ overrides \subseteq overrides'
<1>1. ASSUME ReadInDefine(line) \/ ReadInDeadBranch(line) \/ ReadMissingSeparator(line)
      PROVE  /\ lineno' = lineno + 1 /\ Rest /\ Read
    BY <1>1, InDefineType, PlainLineType
         DEF ReadInDefine, ReadInDeadBranch, ReadMissingSeparator, Reads
<1>2. ASSUME ReadConditional(line) \/ ReadElse(line) \/ ReadEndif(line)
      PROVE  /\ lineno' = lineno + 1 /\ Read /\ (Steady \/ Rest)
    BY <1>2, ConditionalType DEF ReadConditional, ReadElse, ReadEndif
<1>3. ASSUME ReadRule(line) \/ ReadStaticPattern(line) \/ ReadRecipe(line)
      PROVE  /\ lineno' = lineno + 1 /\ Read /\ Rest
    BY <1>3, RuleType, StaticLineType, RecipeType DEF ReadRule, ReadStaticPattern, ReadRecipe, Reads
<1>4. ASSUME ReadTargetVariable(line) \/ ReadExport(line) \/ ReadEmpty(line) \/ ReadVpath(line)
      PROVE  /\ lineno' = lineno + 1 /\ Read /\ Rest
    BY <1>4, TargetVariableLineType, ExportType, EmptyType, VpathType
         DEF ReadTargetVariable, ReadExport, ReadEmpty, ReadVpath, Reads
<1>5. ASSUME ReadAssignment(line) \/ ReadUndefine(line) \/ ReadDefine(line)
      PROVE  /\ lineno' = lineno + 1 /\ Read /\ Settled /\ overrides \subseteq overrides'
    BY <1>5, AssignmentType, UndefineLineType, DefineLineType
         DEF ReadAssignment, ReadUndefine, ReadDefine, Reads
<1>6. Rest => Settled /\ overrides \subseteq overrides'
  BY DEF Rest
<1>7. ASSUME Settled
      PROVE  /\ phase' = phase /\ agenda' = agenda /\ alphabet' = alphabet /\ given' = given
             /\ include_depth' = include_depth /\ erred' = erred
  BY <1>7 DEF Settled
<1>8. ASSUME Steady
      PROVE  /\ phase' = phase /\ agenda' = agenda /\ alphabet' = alphabet /\ given' = given
             /\ include_depth' = include_depth /\ erred' = erred /\ overrides' = overrides
  BY <1>8 DEF Steady
<1> QED BY <1>1, <1>2, <1>3, <1>4, <1>5, <1>6, <1>7, <1>8 DEF OrdinaryLine

(* What an ordinary line adds to the history.                              *)
LEMMA LineHistory ==
  ASSUME Types, CanRead, NEW line \in Lines, OrdinaryLine(line)
  PROVE  /\ overrides' \subseteq Names /\ reset_at' \in Nat /\ exposed' \subseteq Nat
         /\ exposed \subseteq exposed' /\ reset_at' \in {reset_at, lineno + 1}
<1>1. overrides \subseteq Names /\ reset_at \in Nat /\ exposed \subseteq Nat /\ lineno \in Nat
  BY DEF Types
<1>2. ASSUME ReadAssignment(line)
      PROVE  overrides' \subseteq Names /\ reset_at' \in {reset_at, lineno + 1} /\ exposed' = exposed
  <2>1. AssignmentOf(line).name \in Names
    BY <1>2, AssignmentType DEF Assignment
  <2> QED BY <1>1, <1>2, <2>1, AssignmentType DEF ReadAssignment, Settled
<1>3. ASSUME ReadUndefine(line) \/ ReadDefine(line)
      PROVE  overrides' \subseteq Names /\ reset_at' = reset_at /\ exposed' = exposed
  BY <1>1, <1>3, UndefineLineType, DefineLineType DEF ReadUndefine, ReadDefine, Settled
<1>4. ASSUME ReadConditional(line) \/ ReadElse(line)
      PROVE  /\ overrides' = overrides /\ reset_at' = reset_at
             /\ exposed' \subseteq Nat /\ exposed \subseteq exposed'
  <2>1. overrides' = overrides /\ reset_at' = reset_at
    BY <1>4 DEF ReadConditional, ReadElse, Steady
  <2>2. {rule.lineno : rule \in ToSet(Top.current_rule)} \subseteq Nat
    <3>1. Top.current_rule \in Seq(Rule)
      BY TakenHolds, FrameHolds
    <3>2. ToSet(Top.current_rule) \subseteq Rule
      BY <3>1, RangeIn, SetRange
    <3> QED BY <3>2, RuleHolds
  <2>3. exposed' \in {exposed, exposed \cup {rule.lineno : rule \in ToSet(Top.current_rule)}}
    BY <1>4 DEF ReadConditional, ReadElse, Queue
  <2> QED BY <1>1, <2>1, <2>2, <2>3
<1>5. ASSUME ~ReadAssignment(line), ~ReadUndefine(line), ~ReadDefine(line),
             ~ReadConditional(line), ~ReadElse(line)
      PROVE  overrides' = overrides /\ reset_at' = reset_at /\ exposed' = exposed
  <2>1. Rest
    BY <1>5 DEF OrdinaryLine, ReadInDefine, ReadInDeadBranch, ReadEndif, ReadRule,
           ReadStaticPattern, ReadRecipe, ReadTargetVariable, ReadExport, ReadEmpty, ReadVpath,
           ReadMissingSeparator
  <2> QED BY <2>1 DEF Rest, Settled
<1>6. CASE ReadAssignment(line)
  <2>1. overrides' \subseteq Names /\ reset_at' \in {reset_at, lineno + 1} /\ exposed' = exposed
    BY <1>2, <1>6
  <2>2. reset_at' \in Nat
    BY <1>1, <2>1
  <2> QED BY <1>1, <2>1, <2>2
<1>7. CASE ReadUndefine(line) \/ ReadDefine(line)
  BY <1>1, <1>3, <1>7
<1>8. CASE ReadConditional(line) \/ ReadElse(line)
  BY <1>1, <1>4, <1>8
<1>9. CASE /\ ~ReadAssignment(line) /\ ~ReadUndefine(line) /\ ~ReadDefine(line)
           /\ ~ReadConditional(line) /\ ~ReadElse(line)
  BY <1>1, <1>5, <1>9
<1> QED BY <1>6, <1>7, <1>8, <1>9

(* An ordinary line keeps the types and the open files.                    *)
LEMMA OrdinaryTypes ==
  ASSUME Types, CanRead, NEW line \in Lines, OrdinaryLine(line)
  PROVE  Types' /\ FilesIn(frames') = FilesIn(frames) /\ include_depth' = include_depth
<1>1. /\ Read /\ lineno' = lineno + 1 /\ phase' = phase /\ agenda' = agenda
      /\ alphabet' = alphabet /\ given' = given /\ include_depth' = include_depth
  BY LineTypes
<1>2. overrides' \subseteq Names /\ reset_at' \in Nat /\ exposed' \subseteq Nat
  BY LineHistory
<1>3. frames' \in Seq(Frame) /\ frames' # <<>> /\ FilesIn(frames') = FilesIn(frames)
  <2>1. frames # <<>> /\ frames \in Seq(Frame)
    BY TakenHolds DEF Types
  <2>2. CASE frames' = frames
    BY <2>1, <2>2
  <2>3. ASSUME NEW g \in Frame, g.of = Top.of, frames' = SetTop(g)
        PROVE  frames' \in Seq(Frame) /\ frames' # <<>> /\ FilesIn(frames') = FilesIn(frames)
    <3>1. SetTop(g) \in Seq(Frame) /\ SetTop(g) # <<>> /\ FilesIn(SetTop(g)) = FilesIn(frames)
      BY <2>1, <2>3, FilesTop
    <3> QED BY <2>3, <3>1
  <2> QED BY <1>1, <2>2, <2>3 DEF Read
<1> QED BY <1>1, <1>2, <1>3 DEF Types, Read

(* The include depth counts the parsers that read a file.                  *)
Depth == include_depth = Cardinality(FilesIn(frames))

(* The parser that waits for an included file.                             *)
Waiting == [Flushed(Taken) EXCEPT !.looping = TRUE]

(* The parser that waits for an included file has nothing pending.         *)
LEMMA WaitingType ==
  ASSUME Types, CanRead
  PROVE  /\ Waiting \in Frame /\ Waiting.of = Top.of
         /\ Waiting.current_rule = <<>> /\ Waiting.siblings = <<>>
         /\ Waiting.define = Top.define /\ Waiting.conditional_stack = Top.conditional_stack
<1>1. Taken \in Frame /\ Taken \in ParserType
  BY TakenHolds DEF Frame
<1>2. /\ Flushed(Taken) \in Frame
      /\ Flushed(Taken) = [Taken EXCEPT !.current_rule = <<>>, !.siblings = <<>>, !.in_recipe = FALSE]
  BY <1>1, FlushedType
<1>3. Waiting \in Frame
  BY <1>2, FrameWith DEF Waiting
<1>4. /\ Waiting.of = Taken.of /\ Waiting.current_rule = <<>> /\ Waiting.siblings = <<>>
      /\ Waiting.define = Taken.define /\ Waiting.conditional_stack = Taken.conditional_stack
  BY <1>1, <1>2 DEF Waiting, ParserType
<1> QED BY <1>3, <1>4, TakenHolds

(* The parser of an included file.                                         *)
LEMMA NewParser ==
  ASSUME NEW file \in STRING, NEW ignore \in BOOLEAN
  PROVE  /\ Parser("include", file, ignore, <<>>) \in Frame
         /\ Parser("include", file, ignore, <<>>).of = "include"
<1>1. \A S : <<>> \in Seq(S)
  OBVIOUS
<1>2. Len(<<>>) <= 1
  OBVIOUS
<1> QED BY <1>1, <1>2 DEF Parser, Frame, ParserType, Coherent

(* What an include line does: flush, and start a parser, or report a       *)
(* missing file.                                                           *)
LEMMA IncludeHolds ==
  ASSUME Types, CanRead, NEW line \in Lines, ReadInclude(line)
  PROVE  /\ line.file \in STRING /\ line.ignore \in BOOLEAN
         /\ Parser("include", line.file, line.ignore, <<>>) \in Frame
         /\ Parser("include", line.file, line.ignore, <<>>).of = "include"
         /\ db' = [Registered(db, Taken) EXCEPT !.explicitly_mentioned = @ \cup {<<line.file>>}]
         /\ db' \in Base /\ variables' = ShownTable /\ IsTable(variables')
         /\ lineno' = lineno + 1
         /\ \/ /\ include_depth' = include_depth + 1
               /\ frames' = Append(SetTop(Waiting),
                                   Parser("include", line.file, line.ignore, <<>>))
            \/ frames' = SetTop(Waiting) /\ include_depth' = include_depth
         /\ UNCHANGED <<eval_pending, agenda, phase, alphabet, given, overrides, reset_at,
                        exposed, erred>>
<1> DEFINE d == Registered(db, Taken)
           more == d.explicitly_mentioned \cup {<<line.file>>}
<1>1. line.file \in STRING /\ line.ignore \in BOOLEAN
  BY LineHolds DEF ReadInclude, Reads
<1>2. <<>> \in Seq(Lines) /\ line.file \in STRING \cup {"Makefile", "<eval>"}
  BY <1>1
<1>3. /\ Parser("include", line.file, line.ignore, <<>>) \in Frame
      /\ Parser("include", line.file, line.ignore, <<>>).of = "include"
  BY <1>1, <1>2, NewParser
<1>4. db' = [d EXCEPT !.explicitly_mentioned = @ \cup {<<line.file>>}]
      /\ variables' = ShownTable /\ lineno' = lineno + 1
  BY DEF ReadInclude, Reads, ShownTable
<1>5. d \in Base /\ IsTable(ShownTable)
  BY ShownTableType
<1>6. more \in SUBSET FileName
  <2>1. d.explicitly_mentioned \in SUBSET FileName
    BY <1>5, BaseHolds
  <2>2. <<line.file>> \in FileName
    BY <1>1 DEF FileName
  <2> HIDE DEF d
  <2> QED BY <2>1, <2>2
<1>7. db' = [d EXCEPT !.explicitly_mentioned = more]
  BY <1>4
<1>8. db' \in Base
  <2> HIDE DEF d, more
  <2> QED BY <1>5, <1>6, <1>7, BaseWith
<1>9. \/ /\ include_depth' = include_depth + 1
         /\ frames' = Append(SetTop(Waiting), Parser("include", line.file, line.ignore, <<>>))
      \/ frames' = SetTop(Waiting) /\ include_depth' = include_depth
  BY DEF ReadInclude, Waiting
<1>10. UNCHANGED <<eval_pending, agenda, phase, alphabet, given, overrides, reset_at,
                   exposed, erred>>
  BY DEF ReadInclude
<1> QED BY <1>1, <1>3, <1>4, <1>5, <1>8, <1>9, <1>10

(* An include line keeps the types, and counts the file it opens.          *)
LEMMA IncludeTypes ==
  ASSUME Types, CanRead, Depth, NEW line \in Lines, ReadInclude(line)
  PROVE  Types' /\ Depth'
<1> DEFINE new == Parser("include", line.file, line.ignore, <<>>)
<1>1. new \in Frame /\ IsFile(new)
  BY IncludeHolds DEF IsFile
<1>2. frames # <<>>
  BY TakenHolds
<1>3. /\ SetTop(Waiting) \in Seq(Frame) /\ SetTop(Waiting) # <<>>
      /\ FilesIn(SetTop(Waiting)) = FilesIn(frames)
  BY <1>2, WaitingType, FilesTop
<1> HIDE DEF new
<1>4. CASE frames' = SetTop(Waiting) /\ include_depth' = include_depth
  <2>1. frames' \in Seq(Frame) /\ frames' # <<>> /\ Depth'
    BY <1>3, <1>4 DEF Depth
  <2> QED BY <2>1, IncludeHolds DEF Types
<1>5. CASE include_depth' = include_depth + 1 /\ frames' = Append(SetTop(Waiting), new)
  <2> DEFINE rest == SetTop(Waiting)
  <2> HIDE DEF rest
  <2>1. rest \in Seq(Frame) /\ frames' = Append(rest, new) /\ FilesIn(rest) = FilesIn(frames)
    BY <1>3, <1>5 DEF rest
  <2>2. frames' \in Seq(Frame) /\ frames' # <<>>
    BY <1>1, <2>1, PushHolds
  <2>3. Cardinality(FilesIn(frames')) = Cardinality(FilesIn(rest)) + 1
    BY <1>1, <2>1, FilesPush
  <2>4. Depth'
    BY <1>5, <2>1, <2>3 DEF Depth
  <2> QED BY <2>2, <2>4, IncludeHolds DEF Types
<1> QED BY <1>4, <1>5, IncludeHolds DEF new

(* The parser of an $(eval) text reads no file.                            *)
LEMMA EvalFrame ==
  ASSUME NEW text \in Seq(Lines)
  PROVE  /\ Parser("eval", "<eval>", FALSE, text) \in Frame
         /\ ~IsFile(Parser("eval", "<eval>", FALSE, text))
<1>1. /\ Parser("eval", "<eval>", FALSE, text) \in Frame
      /\ Parser("eval", "<eval>", FALSE, text).of = "eval"
  <2>1. \A S : <<>> \in Seq(S)
    OBVIOUS
  <2>2. Len(<<>>) <= 1
    OBVIOUS
  <2> QED BY <2>1, <2>2 DEF Parser, Frame, ParserType, Coherent
<1> QED BY <1>1 DEF IsFile

(* Starting, ending and skipping the texts of $(eval) keeps the types.     *)
LEMMA DrainTypes ==
  ASSUME Types, Depth, Drain
  PROVE  Types' /\ Depth'
<1>1. frames \in Seq(Frame) /\ frames # <<>> /\ Top \in Frame /\ eval_pending \in Texts_
  BY TopHolds DEF Types, Drain, Top
<1>2. /\ variables' = variables /\ db' = db /\ lineno' = lineno /\ include_depth' = include_depth
      /\ agenda' = agenda /\ phase' = phase /\ alphabet' = alphabet /\ given' = given
      /\ overrides' = overrides /\ reset_at' = reset_at /\ exposed' = exposed
  BY DEF Drain, Rest, Settled
<1>3. CASE Top.queue # <<>>
  <2> DEFINE f == [Top EXCEPT !.queue = Tail(@)]
             new == Parser("eval", "<eval>", FALSE, Head(Top.queue))
             rest == SetTop(f)
  <2>1. frames' = Append(rest, new) /\ eval_pending' = eval_pending
    BY <1>3 DEF Drain
  <2>2. Top.queue \in Seq(Seq(Lines))
    BY <1>1, FrameHolds
  <2>3. Tail(Top.queue) \in Seq(Seq(Lines)) /\ Head(Top.queue) \in Seq(Lines)
    BY <1>3, <2>2
  <2>4. f \in Frame /\ f.of = Top.of
    <3>1. f = [Top EXCEPT !.queue = Tail(Top.queue)]
      OBVIOUS
    <3> HIDE DEF f
    <3> QED BY <1>1, <2>3, <3>1, FrameWith, OtherOf
  <2>5. new \in Frame /\ ~IsFile(new)
    BY <2>3, EvalFrame
  <2> HIDE DEF f, new
  <2>6. rest \in Seq(Frame) /\ FilesIn(rest) = FilesIn(frames)
    BY <1>1, <2>4, FilesTop
  <2> HIDE DEF rest
  <2>7. frames' \in Seq(Frame) /\ frames' # <<>>
    BY <2>1, <2>5, <2>6, PushHolds
  <2>8. Cardinality(FilesIn(frames')) = Cardinality(FilesIn(rest))
    BY <2>1, <2>5, <2>6, FilesPush
  <2>9. Depth'
    BY <1>2, <2>6, <2>8 DEF Depth
  <2> QED BY <1>1, <1>2, <2>1, <2>7, <2>9 DEF Types
<1>4. CASE Top.queue = <<>>
  <2> DEFINE l == eval_pending # <<>>
             f == [Top EXCEPT !.queue = eval_pending, !.looping = l]
  <2>1. frames' = SetTop(f) /\ eval_pending' = <<>>
    BY <1>4 DEF Drain
  <2>2. f \in Frame /\ f.of = Top.of
    <3>1. l \in BOOLEAN /\ eval_pending \in Seq(Seq(Lines))
      BY <1>1 DEF Texts_
    <3>2. \A v, w : [Top EXCEPT !.queue = v, !.looping = w].of = Top.of
      BY <1>1, OtherOf
    <3> HIDE DEF l
    <3>3. f \in Frame
      BY <1>1, <3>1, FrameWith
    <3>4. f.of = Top.of
      BY <3>2
    <3> QED BY <3>3, <3>4
  <2> HIDE DEF f
  <2>3. frames' \in Seq(Frame) /\ frames' # <<>> /\ FilesIn(frames') = FilesIn(frames)
    BY <1>1, <2>1, <2>2, FilesTop
  <2>4. Depth'
    BY <1>2, <2>3 DEF Depth
  <2> QED BY <1>2, <2>1, <2>3, <2>4, NoTexts DEF Types
<1> QED BY <1>3, <1>4

(* A parser is done.                                                       *)
LEMMA PopHolds ==
  ASSUME Types, Depth, frames # <<>>
  PROVE  /\ Front(frames) \in Seq(Frame) /\ Top \in Frame
         /\ (IF IsFile(Top) THEN include_depth - 1 ELSE include_depth)
              = Cardinality(FilesIn(Front(frames)))
<1>1. Front(frames) \in Seq(Frame) /\ Top \in Frame
  BY TopHolds DEF Types, Top
<1>2. Cardinality(FilesIn(frames)) =
           IF IsFile(Top) THEN Cardinality(FilesIn(Front(frames))) + 1
           ELSE Cardinality(FilesIn(Front(frames)))
  BY FilesPop DEF Top, Types
<1>3. Cardinality(FilesIn(Front(frames))) \in Nat
  BY <1>1, FilesFinite
<1>4. include_depth = Cardinality(FilesIn(frames))
  BY DEF Depth
<1> QED BY <1>1, <1>2, <1>3, <1>4

(* The end of a text keeps the types, and uncounts the file it closes.     *)
LEMMA EndOfTextTypes ==
  ASSUME Types, Depth, EndOfText
  PROVE  Types' /\ Depth'
<1>1. frames # <<>> /\ frames \in Seq(Frame)
  BY DEF EndOfText, Types
<1>2. /\ eval_pending' = eval_pending /\ lineno' = lineno
      /\ agenda' = agenda /\ alphabet' = alphabet /\ given' = given
      /\ overrides' = overrides /\ reset_at' = reset_at /\ exposed' = exposed
  BY DEF EndOfText
<1>3. CASE Top.define # <<>>
  <2>1. phase' = "raising" /\ frames' = frames /\ db' = db /\ variables' = variables
        /\ include_depth' = include_depth
    BY <1>3 DEF EndOfText
  <2> QED BY <1>1, <1>2, <2>1 DEF Types, Depth
<1>4. CASE Top.define = <<>>
  <2>1. /\ db' = Registered(db, Top) /\ variables' = Shown(variables, db, db')
        /\ frames' = Front(frames) /\ phase' = phase
        /\ include_depth' = IF IsFile(Top) THEN include_depth - 1 ELSE include_depth
    BY <1>4 DEF EndOfText
  <2>2. phase = "reading"
    BY DEF EndOfText
  <2>3. db' \in Base
    BY <1>1, <2>1, PopHolds, RegisteredType DEF Types
  <2>4. IsTable(variables')
    BY <2>1, <2>3, BaseHolds, ShownType DEF Types
  <2>5. frames' \in Seq(Frame) /\ Depth'
    BY <1>1, <2>1, PopHolds DEF Depth
  <2> QED BY <1>2, <2>1, <2>2, <2>3, <2>4, <2>5 DEF Types
<1> QED BY <1>3, <1>4

(* Unwinding after an error keeps the types, and uncounts the files it     *)
(* closes.                                                                 *)
LEMMA RaiseTypes ==
  ASSUME Types, Depth, Raise
  PROVE  Types' /\ Depth'
<1>1. phase = "raising" /\ frames # <<>> /\ frames \in Seq(Frame)
  BY DEF Raise, Types
<1>2. /\ variables' = variables /\ db' = db /\ eval_pending' = eval_pending /\ lineno' = lineno
      /\ agenda' = agenda /\ alphabet' = alphabet /\ given' = given
      /\ overrides' = overrides /\ reset_at' = reset_at /\ exposed' = exposed
  BY DEF Raise
<1>3. /\ frames' = Front(frames)
      /\ include_depth' = IF IsFile(Top) THEN include_depth - 1 ELSE include_depth
  BY DEF Raise
<1>4. frames' \in Seq(Frame) /\ Depth'
  BY <1>1, <1>3, PopHolds DEF Depth
<1>5. phase' \in {"reading", "raising", "failed", "done"}
      /\ (phase' = "raising" => Len(frames) > 1)
  <2>1. phase' = CASE Top.of = "eval" /\ Len(frames) > 1 -> "raising"
                   [] Top.of \in {"eval", "makefile"} -> "failed"
                   [] OTHER -> "reading"
    BY DEF Raise
  <2>2. CASE Top.of = "eval" /\ Len(frames) > 1
    BY <2>1, <2>2
  <2>3. CASE ~(Top.of = "eval" /\ Len(frames) > 1) /\ Top.of \in {"eval", "makefile"}
    BY <2>1, <2>3
  <2>4. CASE Top.of \notin {"eval", "makefile"}
    BY <2>1, <2>4
  <2> QED BY <2>2, <2>3, <2>4
<1>6. phase' = "raising" => frames' # <<>>
  <2>1. Len(frames') = Len(frames) - 1 /\ Len(frames) \in Nat
    BY <1>1, <1>3, TopHolds
  <2>2. Len(frames) > 1 => Len(frames') # 0
    BY <2>1
  <2> QED BY <1>4, <1>5, <2>2, EmptySeq
<1> QED BY <1>2, <1>4, <1>5, <1>6 DEF Types

(* What is left to read.                                                   *)
LEMMA AgendaHolds ==
  ASSUME Types, agenda # <<>>
  PROVE  /\ Tail(agenda) \in Seq(AgendaEntry)
         /\ Head(agenda).file \in STRING \cup {"Makefile", "<eval>"}
         /\ Head(agenda).of \in {"preread", "makefile"}
<1>1. agenda \in Seq(AgendaEntry)
  BY DEF Types
<1>2. Tail(agenda) \in Seq(AgendaEntry) /\ Head(agenda) \in AgendaEntry
  BY <1>1
<1> QED BY <1>2 DEF AgendaEntry

(* Starting the next makefile keeps the types.                             *)
LEMMA StartFileTypes ==
  ASSUME Types, Depth, StartFile
  PROVE  Types' /\ Depth'
<1>1. frames = <<>> /\ agenda # <<>> /\ phase = "reading"
  BY DEF StartFile
<1> DEFINE new == Parser(Head(agenda).of, Head(agenda).file, TRUE, <<>>)
<1>2. /\ agenda' = Tail(agenda) /\ frames' = <<new>> /\ include_depth' = include_depth + 1
      /\ eval_pending' = eval_pending /\ lineno' = lineno /\ phase' = phase
      /\ alphabet' = alphabet /\ given' = given /\ overrides' = overrides /\ exposed' = exposed
  BY DEF StartFile
<1>3. new \in Frame /\ IsFile(new)
  <2>1. <<>> \in Seq(Lines)
    OBVIOUS
  <2> QED BY <1>1, <2>1, AgendaHolds, ParserIs DEF IsFile
<1> HIDE DEF new
<1>4. frames' = Append(frames, new) /\ frames \in Seq(Frame)
  BY <1>1, <1>2 DEF Types
<1>5. frames' \in Seq(Frame) /\ frames' # <<>>
  BY <1>3, <1>4, PushHolds
<1>6. Depth'
  BY <1>2, <1>3, <1>4, FilesPush DEF Depth
<1>7. db' \in Base /\ IsTable(variables') /\ reset_at' \in Nat
  <2>1. CASE Head(agenda).restores
    <3> DEFINE d == [db EXCEPT !.default_target = <<>>]
    <3>1. /\ db' = [db EXCEPT !.default_target = <<>>, !.default_goal_explicit = FALSE]
          /\ variables' = IF DefaultGoal \in DOMAIN variables
                          THEN [variables EXCEPT ![DefaultGoal].value = <<>>] ELSE variables
          /\ reset_at' = lineno
      BY <2>1 DEF StartFile
    <3>2. <<>> \in FileName /\ <<>> \in Seq(STRING)
      BY DEF FileName
    <3>3. d \in Base
      BY <3>2, BaseWith DEF Types
    <3>4. db' = [d EXCEPT !.default_goal_explicit = FALSE]
      BY <3>1 DEF Types, Base, Database
    <3> HIDE DEF d
    <3>5. db' \in Base
      BY <3>3, <3>4, BaseWith
    <3>6. IsTable(variables')
      BY <3>1, <3>2, ValueType DEF Types
    <3> QED BY <3>1, <3>5, <3>6 DEF Types
  <2>2. CASE ~Head(agenda).restores
    BY <2>2 DEF StartFile, Types
  <2> QED BY <2>1, <2>2
<1> QED BY <1>1, <1>2, <1>5, <1>6, <1>7, AgendaHolds DEF Types

(* Skipping a makefile keeps the types.                                    *)
LEMMA SkipFileTypes ==
  ASSUME Types, Depth, SkipFile
  PROVE  Types' /\ Depth'
<1>1. agenda # <<>> /\ agenda' = Tail(agenda)
  BY DEF SkipFile
<1>2. UNCHANGED <<variables, db, frames, eval_pending, include_depth, phase, alphabet, given,
                  lineno, overrides, reset_at, exposed>>
  BY DEF SkipFile
<1> QED BY <1>1, <1>2, AgendaHolds DEF Types, Depth

(* Having read everything keeps the types.                                 *)
LEMMA FinishedTypes ==
  ASSUME Types, Depth, Finished
  PROVE  Types' /\ Depth'
<1>1. frames = <<>> /\ agenda = <<>> /\ phase = "reading"
  BY DEF Finished
<1>2. UNCHANGED <<variables, db, include_depth, agenda, alphabet, given, lineno, overrides,
                  reset_at, exposed>>
  BY DEF Finished
<1>3. CASE eval_pending = <<>>
  <2>1. phase' = "done" /\ frames' = frames /\ eval_pending' = eval_pending
    BY <1>3 DEF Finished
  <2> QED BY <1>2, <2>1 DEF Types, Depth
<1>4. CASE eval_pending # <<>>
  <2> DEFINE new == Parser("eval", "<eval>", FALSE, Head(eval_pending))
  <2>1. frames' = <<new>> /\ eval_pending' = Tail(eval_pending) /\ phase' = phase
    BY <1>4 DEF Finished
  <2>2. Tail(eval_pending) \in Texts_ /\ Head(eval_pending) \in Seq(Lines)
    BY <1>4 DEF Types, Texts_
  <2>3. new \in Frame /\ ~IsFile(new)
    BY <2>2, EvalFrame
  <2> HIDE DEF new
  <2>4. frames' = Append(frames, new) /\ frames \in Seq(Frame)
    BY <1>1, <2>1 DEF Types
  <2>5. frames' \in Seq(Frame) /\ frames' # <<>>
    BY <2>3, <2>4, PushHolds
  <2>6. Depth'
    BY <1>2, <2>3, <2>4, FilesPush DEF Depth
  <2> QED BY <1>2, <2>1, <2>2, <2>5, <2>6 DEF Types
<1> QED BY <1>3, <1>4

(* The built-in database is one.                                           *)
LEMMA BuiltinsType ==
  Builtins \in Base
<1> DEFINE none == <<>>
<1>1. none \in FileName /\ none \in Seq(Seq(Seq(STRING))) /\ none \in Seq(Rule)
  BY DEF FileName
<1>2. BuiltinRules \in Seq(Rule) /\ Len(BuiltinRules) \in Nat
  BY BuiltinsAssumption, LenProperties
<1>3. none \in TablesOf(FileName, Seq(Rule)) /\ none \in TablesOf(Specials, SUBSET FileName)
  <2>1. none = [x \in {} |-> none] /\ none \in [{} -> Seq(Rule)] /\ none \in [{} -> SUBSET FileName]
    OBVIOUS
  <2>2. {} \in SUBSET FileName /\ {} \in SUBSET Specials
    OBVIOUS
  <2> QED BY <2>1, <2>2, TableIn
<1>4. {<<d>> : d \in Dotted} \in SUBSET FileName
  <2> DEFINE S == STRING
  <2>1. \A d \in Dotted : d \in S
    BY DottedAssumption
  <2> HIDE DEF S
  <2>2. \A d \in Dotted : <<d>> \in Seq(S)
    BY <2>1
  <2>3. \A d \in Dotted : <<d>> \in FileName
    BY <2>2 DEF FileName, S
  <2> QED BY <2>3
<1> DEFINE suffixes == {<<d>> : d \in Dotted}
<1>5. Builtins =
        [rules |-> none, pattern_rules |-> BuiltinRules,
         builtin_pattern_rules_count |-> Len(BuiltinRules),
         special_targets |-> none, suffixes |-> suffixes,
         default_target |-> none, default_goal_explicit |-> FALSE,
         second_expansion |-> FALSE, posix_mode |-> FALSE, not_parallel |-> FALSE,
         not_parallel_targets |-> {}, export_all |-> FALSE, unexport_all |-> FALSE,
         explicitly_mentioned |-> {}, vpath |-> none, stopped |-> FALSE, log |-> none]
  BY DEF Builtins
<1> HIDE DEF none, suffixes
<1> QED BY <1>1, <1>2, <1>3, <1>4, <1>5 DEF Base, Database, suffixes

(* Reading starts with the right types and no file open.                   *)
LEMMA InitTypes ==
  ASSUME Init
  PROVE  Types /\ Depth
<1>1. PICK setup \in Setups :
        /\ alphabet = setup.lines /\ variables = setup.variables /\ given = setup.variables
        /\ agenda = [i \in DOMAIN setup.preread |->
                       [file |-> setup.preread[i], of |-> "preread", restores |-> FALSE]]
                      \o <<[file |-> "Makefile", of |-> "makefile",
                            restores |-> setup.preread # <<>>]>>
  BY DEF Init
<1>2. setup.lines \subseteq Lines /\ IsTable(setup.variables) /\ setup.preread \in Seq(STRING)
  BY SetupsAssumption
<1>3. agenda \in Seq(AgendaEntry)
  <2> DEFINE A == AgendaEntry
             pre == [i \in DOMAIN setup.preread |->
                      [file |-> setup.preread[i], of |-> "preread", restores |-> FALSE]]
             main == [file |-> "Makefile", of |-> "makefile", restores |-> setup.preread # <<>>]
  <2>1. Len(setup.preread) \in Nat /\ DOMAIN setup.preread = 1 .. Len(setup.preread)
        /\ \A i \in 1 .. Len(setup.preread) : setup.preread[i] \in STRING
    BY <1>2
  <2>2. main \in A /\ \A s \in STRING : [file |-> s, of |-> "preread", restores |-> FALSE] \in A
    BY DEF AgendaEntry
  <2>3. \A i \in 1 .. Len(setup.preread) : pre[i] \in A
    BY <2>1, <2>2
  <2>4. pre = [i \in 1 .. Len(setup.preread) |-> pre[i]]
    BY <2>1
  <2> HIDE DEF pre, main, A
  <2>5. pre \in Seq(A)
    BY <2>1, <2>3, <2>4, IsList
  <2>6. pre \o <<main>> \in Seq(A)
    BY <2>2, <2>5
  <2>7. agenda = pre \o <<main>>
    BY <1>1 DEF pre, main
  <2> QED BY <2>6, <2>7 DEF A
<1>4. /\ db = Builtins /\ frames = <<>> /\ eval_pending = <<>> /\ phase = "reading"
      /\ lineno = 0 /\ overrides = {} /\ reset_at = 0 /\ exposed = {} /\ include_depth = 0
  BY DEF Init
<1>5. frames \in Seq(Frame) /\ eval_pending \in Texts_
  BY <1>4, NoTexts
<1>6. Depth
  <2>1. FilesIn(frames) = {}
    BY <1>4 DEF FilesIn
  <2> QED BY <1>4, <2>1, FS_EmptySet DEF Depth
<1> QED BY <1>1, <1>2, <1>3, <1>4, <1>5, <1>6, BuiltinsType DEF Types

(* Every step keeps the types and the count of open files.                 *)
LEMMA StepTypes ==
  ASSUME Types, Depth, [Next]_vars
  PROVE  Types' /\ Depth'
<1>1. CASE ReadLine
  <2>1. CanRead /\ Offered \subseteq Lines
    BY <1>1, TakenHolds DEF ReadLine
  <2>2. PICK line \in Lines : OrdinaryLine(line) \/ ReadInclude(line)
    BY <1>1, <2>1 DEF ReadLine, OrdinaryLine
  <2>3. CASE OrdinaryLine(line)
    <3>1. Types' /\ FilesIn(frames') = FilesIn(frames) /\ include_depth' = include_depth
      BY <2>1, <2>3, OrdinaryTypes
    <3> QED BY <3>1 DEF Depth
  <2>4. CASE ReadInclude(line)
    BY <2>1, <2>4, IncludeTypes
  <2> QED BY <2>2, <2>3, <2>4
<1>2. CASE Drain
  BY <1>2, DrainTypes
<1>3. CASE EndOfText
  BY <1>3, EndOfTextTypes
<1>4. CASE Raise
  BY <1>4, RaiseTypes
<1>5. CASE SkipFile
  BY <1>5, SkipFileTypes
<1>6. CASE StartFile
  BY <1>6, StartFileTypes
<1>7. CASE Finished
  BY <1>7, FinishedTypes
<1>8. CASE UNCHANGED vars
  BY <1>8 DEF vars, Types, Depth
<1> QED BY <1>1, <1>2, <1>3, <1>4, <1>5, <1>6, <1>7, <1>8 DEF Next

(* The types and the count of open files hold throughout.                  *)
LEMMA TypesHold == Spec => [](Types /\ Depth)
<1>1. Init => Types /\ Depth
  BY InitTypes
<1>2. (Types /\ Depth) /\ [Next]_vars => (Types /\ Depth)'
  BY StepTypes
<1> QED BY <1>1, <1>2, PTL DEF Spec

(* The strengthened types give the type invariant.                         *)
LEMMA TypesGive ==
  ASSUME Types, Depth
  PROVE  ReaderTypeOK
<1>1. IsDatabase(db)
  <2>1. db \in Base
    BY DEF Types
  <2>2. DOMAIN db.rules \subseteq FileName /\ \A t \in DOMAIN db.rules : db.rules[t] \in Seq(Rule)
    BY <2>1, BaseHolds, TableHolds
  <2>3. /\ DOMAIN db.special_targets \subseteq Specials
        /\ \A s \in DOMAIN db.special_targets : db.special_targets[s] \in SUBSET FileName
    BY <2>1, BaseHolds, TableHolds
  <2>4. Len(db.pattern_rules) \in Nat
    BY <2>1, BaseHolds, LenProperties
  <2>5. db.builtin_pattern_rules_count \in 0 .. Len(db.pattern_rules)
    BY <2>1, <2>4, BaseHolds
  <2>6. \A flag \in {"second_expansion", "posix_mode", "not_parallel", "export_all", "stopped"} :
          db[flag] \in BOOLEAN
    BY <2>1, BaseHolds
  <2>7. \A t \in db.suffixes \cup db.not_parallel_targets \cup db.explicitly_mentioned :
          t \in FileName
    BY <2>1, BaseHolds
  <2> QED BY <2>1, <2>2, <2>3, <2>5, <2>6, <2>7, BaseHolds DEF IsDatabase
<1>2. frames \in Seq(Frame)
  BY DEF Types
<1>3. ASSUME NEW i \in DOMAIN frames
      PROVE  /\ frames[i].of \in {"makefile", "preread", "include", "eval"}
             /\ frames[i].current_rule \in Seq(Rule) /\ Len(frames[i].current_rule) <= 1
             /\ frames[i].siblings \in Seq(Rule) /\ Len(frames[i].define) <= 1
             /\ frames[i].in_recipe <=> frames[i].current_rule # <<>>
  <2>1. frames[i] \in Frame
    BY <1>2
  <2> QED BY <2>1, FrameHolds DEF Coherent
<1>4. include_depth = Cardinality({i \in DOMAIN frames : IsFile(frames[i])})
  BY DEF Depth, FilesIn
<1>5. /\ IsTable(variables) /\ phase \in {"reading", "raising", "failed", "done"}
      /\ lineno \in Nat /\ overrides \subseteq Names
  BY DEF Types
<1> QED BY <1>1, <1>3, <1>4, <1>5 DEF ReaderTypeOK

(* ReaderTypeOK holds: whatever the makefiles say, the parser stack,       *)
(* the rule database, the variables and the include depth stay well        *)
(* formed, and the depth is the number of files open (read_makefile,       *)
(* process_parsed_lines, register_rule).                                   *)
THEOREM TypeCorrect == Spec => []ReaderTypeOK
<1>1. Types /\ Depth => ReaderTypeOK
  BY TypesGive
<1> QED BY <1>1, TypesHold, PTL

(* The parser that EndLine leaves.                                         *)
Ended(f, evals, recipe) ==
  [(IF eval_pending \o evals # <<>> /\ ~recipe THEN Flushed(f) ELSE f)
     EXCEPT !.looping = eval_pending \o evals # <<>>]

(* The end of a line leaves a parser either as it was or with nothing      *)
(* pending.                                                                *)
LEMMA EndedHolds ==
  ASSUME NEW f \in Frame, NEW evals, NEW recipe \in BOOLEAN
  PROVE  /\ Ended(f, evals, recipe) \in Frame /\ Ended(f, evals, recipe).of = f.of
         /\ Ended(f, evals, recipe).conditional_stack = f.conditional_stack
         /\ Ended(f, evals, recipe).define = f.define
         /\ \/ /\ eval_pending \o evals # <<>> /\ ~recipe
               /\ Ended(f, evals, recipe).current_rule = <<>>
               /\ Ended(f, evals, recipe).siblings = <<>>
            \/ /\ eval_pending \o evals = <<>> \/ recipe
               /\ Ended(f, evals, recipe).current_rule = f.current_rule
               /\ Ended(f, evals, recipe).siblings = f.siblings
<1> DEFINE l == eval_pending \o evals # <<>>
           c == l /\ ~recipe
           h == IF c THEN Flushed(f) ELSE f
<1>1. /\ Flushed(f) \in Frame
      /\ Flushed(f) = [f EXCEPT !.current_rule = <<>>, !.siblings = <<>>, !.in_recipe = FALSE]
  BY FlushedType
<1>2. l \in BOOLEAN /\ c \in BOOLEAN /\ Ended(f, evals, recipe) = [h EXCEPT !.looping = l]
  BY DEF Ended
<1>3. f \in ParserType
  BY DEF Frame
<1>4. /\ h \in Frame /\ h.of = f.of /\ h.conditional_stack = f.conditional_stack
      /\ h.define = f.define
      /\ c => h.current_rule = <<>> /\ h.siblings = <<>>
      /\ ~c => h.current_rule = f.current_rule /\ h.siblings = f.siblings
  <2> HIDE DEF l
  <2>1. CASE c
    BY <1>1, <1>3, <2>1 DEF ParserType
  <2>2. CASE ~c
    BY <2>2
  <2> QED BY <2>1, <2>2
<1> HIDE DEF h, l
<1>5. [h EXCEPT !.looping = l] \in Frame
  BY <1>2, <1>4, FrameWith
<1>6. h \in ParserType
  BY <1>4 DEF Frame
<1>7. /\ [h EXCEPT !.looping = l].of = h.of
      /\ [h EXCEPT !.looping = l].conditional_stack = h.conditional_stack
      /\ [h EXCEPT !.looping = l].define = h.define
      /\ [h EXCEPT !.looping = l].current_rule = h.current_rule
      /\ [h EXCEPT !.looping = l].siblings = h.siblings
  BY <1>6 DEF ParserType
<1> QED BY <1>2, <1>4, <1>5, <1>7 DEF l

(* The end of a line registers the pending rules exactly when an $(eval)   *)
(* text waits and the line is not a recipe.                                *)
LEMMA EndLineIs ==
  ASSUME NEW f, NEW d, NEW table, NEW evals, NEW recipe, EndLine(f, d, table, evals, recipe)
  PROVE  /\ frames' = SetTop(Ended(f, evals, recipe))
         /\ eval_pending' = eval_pending \o evals
         /\ variables' = Shown(table, d, db')
         /\ \/ eval_pending \o evals # <<>> /\ ~recipe /\ db' = Registered(d, f)
            \/ (eval_pending \o evals = <<>> \/ recipe) /\ db' = d
<1>1. frames' = SetTop(Ended(f, evals, recipe))
  BY DEF EndLine, Ended
<1>2. /\ eval_pending' = eval_pending \o evals
      /\ variables' = Shown(table, d, db')
      /\ \/ eval_pending \o evals # <<>> /\ ~recipe /\ db' = Registered(d, f)
         \/ (eval_pending \o evals = <<>> \/ recipe) /\ db' = d
  BY DEF EndLine
<1> QED BY <1>1, <1>2

(* What holds of each parser.                                              *)
LEMMA SetTopIn ==
  ASSUME NEW A, frames \in Seq(A), frames # <<>>
  PROVE  /\ Top \in A /\ Front(frames) \in Seq(A)
         /\ \A f \in A : SetTop(f) \in Seq(A)
<1> DEFINE rest == Front(frames)
<1>1. Top \in A /\ rest \in Seq(A)
  BY LastFront DEF Top
<1> HIDE DEF rest
<1>2. \A f \in A : Append(rest, f) \in Seq(A)
  BY <1>1
<1> QED BY <1>1, <1>2 DEF SetTop, rest

(* A branch that was alive has been seen.                                  *)
Decided(branch) == branch.branches <= 1 /\ (branch.branches = 1 => branch.seen_true)

(* A parser whose open conditionals have each read at most one branch.     *)
DecidedFrame ==
  {f \in Frame : \A c \in DOMAIN f.conditional_stack : Decided(f.conditional_stack[c])}

(* A parser is decided by its conditionals alone.                          *)
LEMMA SameConditionals ==
  ASSUME NEW f \in DecidedFrame, NEW g \in Frame,
         g.conditional_stack = f.conditional_stack
  PROVE  g \in DecidedFrame
BY DEF DecidedFrame

(* Lines that are no conditionals leave these as they are.                 *)
LEMMA OtherLineFrame ==
  ASSUME Types, CanRead, NEW line \in Lines, OrdinaryLine(line),
         ~ReadConditional(line), ~ReadElse(line), ~ReadEndif(line)
  PROVE  \/ frames' = frames
         \/ \E g \in Frame : /\ frames' = SetTop(g)
                             /\ g.conditional_stack = Top.conditional_stack
                             /\ ReadInDefine(line) \/ ReadDefine(line) \/ g.define = Top.define
<1> DEFINE Good == \/ frames' = frames
                   \/ \E g \in Frame : /\ frames' = SetTop(g)
                                       /\ g.conditional_stack = Top.conditional_stack
                                       /\ \/ ReadInDefine(line) \/ ReadDefine(line)
                                          \/ g.define = Top.define
<1>1. ASSUME NEW f \in Frame, f.conditional_stack = Top.conditional_stack,
             ReadDefine(line) \/ f.define = Top.define,
             NEW d, NEW table, NEW evals, NEW recipe \in BOOLEAN,
             EndLine(f, d, table, evals, recipe)
      PROVE  Good
  <2>1. frames' = SetTop(Ended(f, evals, recipe))
    BY <1>1, EndLineIs
  <2>2. /\ Ended(f, evals, recipe) \in Frame
        /\ Ended(f, evals, recipe).conditional_stack = f.conditional_stack
        /\ Ended(f, evals, recipe).define = f.define
    BY <1>1, EndedHolds
  <2> QED BY <1>1, <2>1, <2>2
<1>2. /\ Taken \in Frame /\ Taken.conditional_stack = Top.conditional_stack
      /\ Flushed(Taken) \in Frame /\ Flushed(Taken).conditional_stack = Top.conditional_stack
      /\ Taken.define = Top.define /\ Flushed(Taken).define = Top.define
  <2>1. /\ Taken \in Frame /\ Taken.conditional_stack = Top.conditional_stack /\ Taken \in ParserType
        /\ Taken.define = Top.define
    BY TakenHolds DEF Frame
  <2>2. /\ Flushed(Taken) \in Frame
        /\ Flushed(Taken) = [Taken EXCEPT !.current_rule = <<>>, !.siblings = <<>>, !.in_recipe = FALSE]
    BY <2>1, FlushedType
  <2> QED BY <2>1, <2>2 DEF ParserType
<1>3. CASE ReadInDefine(line)
  <2>1. PICK v \in Seq(Block) : Len(v) <= 1 /\ frames' = SetTop([Taken EXCEPT !.define = v])
    BY <1>3, InDefineType
  <2>2. [Taken EXCEPT !.define = v] \in Frame
    BY <1>2, <2>1, FrameWith
  <2>3. [Taken EXCEPT !.define = v].conditional_stack = Taken.conditional_stack
    BY <1>2 DEF Frame, ParserType
  <2> QED BY <1>2, <1>3, <2>1, <2>2, <2>3
<1>4. CASE ReadInDeadBranch(line) \/ ReadMissingSeparator(line)
  BY <1>2, <1>4 DEF ReadInDeadBranch, ReadMissingSeparator
<1>5. CASE ReadRule(line)
  <2>1. EndLine(Opened(RuleOf(line), <<>>), GoalStarted(line),
                Shown(variables, db, GoalStarted(line)), line.evals, FALSE)
    BY <1>5, RuleType
  <2>2. RuleOf(line) \in Rule /\ <<>> \in Seq(Rule)
    BY <1>5, RuleOfType DEF ReadRule, Reads
  <2>3. /\ Opened(RuleOf(line), <<>>) \in Frame
        /\ Opened(RuleOf(line), <<>>).conditional_stack = Top.conditional_stack
        /\ Opened(RuleOf(line), <<>>).define = Top.define
    BY <2>2, OpenedType
  <2> QED BY <1>1, <2>1, <2>3
<1>6. CASE ReadStaticPattern(line)
  <2>1. CASE frames' = SetTop(Flushed(Taken))
    BY <1>2, <2>1
  <2>2. CASE /\ StaticOf(line) # <<>>
             /\ EndLine(Opened(Last(StaticOf(line)), Front(StaticOf(line))), Registered(db, Taken),
                        Shown(variables, db, Registered(db, Taken)), line.evals, FALSE)
    <3> DEFINE last == Last(StaticOf(line))
               front == Front(StaticOf(line))
    <3>1. last \in Rule /\ front \in Seq(Rule)
      BY <1>6, <2>2, StaticOfType, LastFront DEF ReadStaticPattern, Reads
    <3> HIDE DEF last, front
    <3>2. /\ Opened(last, front) \in Frame
          /\ Opened(last, front).conditional_stack = Top.conditional_stack
          /\ Opened(last, front).define = Top.define
      BY <3>1, OpenedType
    <3>3. EndLine(Opened(last, front), Registered(db, Taken),
                  Shown(variables, db, Registered(db, Taken)), line.evals, FALSE)
      BY <2>2 DEF last, front
    <3> QED BY <1>1, <3>2, <3>3
  <2> QED BY <1>6, <2>1, <2>2, StaticLineType
<1>7. CASE ReadRecipe(line)
  BY <1>1, <1>7, RecipeType, CookingType
<1>8. CASE ReadAssignment(line)
  BY <1>1, <1>2, <1>8, AssignmentType
<1>9. CASE ReadTargetVariable(line)
  BY <1>1, <1>2, <1>9, TargetVariableLineType
<1>10. CASE ReadExport(line)
  BY <1>1, <1>2, <1>10, ExportType
<1>11. CASE ReadUndefine(line)
  BY <1>1, <1>2, <1>11, UndefineLineType
<1>12. CASE ReadDefine(line)
  BY <1>1, <1>12, DefineLineType
<1>13. CASE ReadEmpty(line)
  BY <1>1, <1>2, <1>13, EmptyType
<1>14. CASE ReadVpath(line)
  BY <1>1, <1>2, <1>14, VpathType
<1> QED BY <1>3, <1>4, <1>5, <1>6, <1>7, <1>8, <1>9, <1>10, <1>11, <1>12, <1>13, <1>14
          DEF OrdinaryLine

(* The inductive form of OneBranch: every parser is decided, those that    *)
(* wait included.                                                          *)
Branches == frames \in Seq(DecidedFrame)

(* An opening conditional is decided.                                      *)
LEMMA NewBranch ==
  ASSUME NEW active \in BOOLEAN
  PROVE  Decided([active |-> active, seen_true |-> active, branches |-> IF active THEN 1 ELSE 0])
<1>1. CASE active
  BY <1>1 DEF Decided
<1>2. CASE ~active
  BY <1>2 DEF Decided
<1> QED BY <1>1, <1>2

(* An else leaves a decided conditional decided.                           *)
LEMMA NextBranch ==
  ASSUME NEW state \in Branch, Decided(state), NEW condition
  PROVE  Decided(Otherwise(state, condition))
<1> DEFINE active == ~state.seen_true /\ (condition = <<>> \/ evaluate_condition(condition[1]))
           more == state.branches + IF active THEN 1 ELSE 0
           seen == state.seen_true \/ active
<1>1. Otherwise(state, condition) = [active |-> active, seen_true |-> seen, branches |-> more]
  BY DEF Otherwise
<1>2. state.branches \in Nat /\ state.seen_true \in BOOLEAN
  BY DEF Branch
<1>3. active \in BOOLEAN /\ (active => ~state.seen_true)
  BY DEF evaluate_condition
<1> HIDE DEF active
<1>4. more <= 1 /\ (more = 1 => seen)
  <2>1. CASE active
    BY <1>2, <1>3, <2>1 DEF Decided
  <2>2. CASE ~active
    BY <1>2, <2>2 DEF Decided
  <2> QED BY <2>1, <2>2
<1> HIDE DEF more, seen
<1> QED BY <1>1, <1>4 DEF Decided

(* A parser with decided conditionals is decided.                          *)
LEMMA BranchesDecided ==
  ASSUME Types, CanRead, NEW stack \in Seq(Branch),
         \A c \in DOMAIN stack : Decided(stack[c]), [Taken EXCEPT !.conditional_stack = stack] \in Frame
  PROVE  [Taken EXCEPT !.conditional_stack = stack] \in DecidedFrame
<1>1. [Taken EXCEPT !.conditional_stack = stack].conditional_stack = stack
  BY TakenHolds DEF Frame, ParserType
<1> QED BY <1>1 DEF DecidedFrame

(* A decided conditional may be opened in decided ones.                    *)
LEMMA AppendDecided ==
  ASSUME NEW stack \in Seq(Branch), \A c \in DOMAIN stack : Decided(stack[c]),
         NEW branch \in Branch, Decided(branch)
  PROVE  /\ Append(stack, branch) \in Seq(Branch)
         /\ \A c \in DOMAIN Append(stack, branch) : Decided(Append(stack, branch)[c])
<1>1. /\ Append(stack, branch) \in Seq(Branch) /\ Len(stack) \in Nat
      /\ DOMAIN stack = 1 .. Len(stack) /\ DOMAIN Append(stack, branch) = 1 .. Len(stack) + 1
      /\ \A c \in 1 .. Len(stack) : Append(stack, branch)[c] = stack[c]
      /\ Append(stack, branch)[Len(stack) + 1] = branch
  OBVIOUS
<1>2. \A c \in 1 .. Len(stack) + 1 : Decided(Append(stack, branch)[c])
  <2> SUFFICES ASSUME NEW c \in 1 .. Len(stack) + 1 PROVE Decided(Append(stack, branch)[c])
    OBVIOUS
  <2>1. CASE c \in 1 .. Len(stack)
    BY <1>1, <2>1
  <2>2. CASE c = Len(stack) + 1
    BY <1>1, <2>2
  <2> QED BY <1>1, <2>1, <2>2
<1> QED BY <1>1, <1>2

(* A conditional line leaves the parser decided and its define block       *)
(* alone.                                                                  *)
LEMMA ConditionalDecided ==
  ASSUME Types, Branches, CanRead, NEW line \in Lines,
         ReadConditional(line) \/ ReadElse(line) \/ ReadEndif(line)
  PROVE  \E g \in DecidedFrame : frames' = SetTop(g) /\ g.define = Top.define
<1> DEFINE stack == Top.conditional_stack
<1>1. stack \in Seq(Branch) /\ Taken \in Frame /\ Taken.conditional_stack = stack
  BY TakenHolds, FrameHolds
<1>2. Top \in DecidedFrame
  BY TakenHolds, SetTopIn DEF Branches
<1>3. \A c \in DOMAIN stack : Decided(stack[c])
  BY <1>2 DEF DecidedFrame
<1>4. ASSUME stack # <<>>
      PROVE  /\ Front(stack) \in Seq(Branch) /\ Last(stack) \in Branch /\ Decided(Last(stack))
             /\ \A c \in DOMAIN Front(stack) : Decided(Front(stack)[c])
  <2> HIDE DEF stack
  <2>1. /\ Last(stack) \in Branch /\ Front(stack) \in Seq(Branch)
        /\ Len(stack) \in Nat \ {0} /\ Last(stack) = stack[Len(stack)]
        /\ Len(Front(stack)) = Len(stack) - 1
        /\ \A i \in 1 .. Len(stack) - 1 : Front(stack)[i] = stack[i]
    BY <1>1, <1>4, LastFront
  <2>2. DOMAIN stack = 1 .. Len(stack)
    BY <1>1
  <2>3. DOMAIN Front(stack) = 1 .. Len(stack) - 1
    BY <2>1
  <2> QED BY <1>3, <2>1, <2>2, <2>3
<1>5. ASSUME NEW other \in Seq(Branch), \A c \in DOMAIN other : Decided(other[c]),
             frames' = SetTop([Taken EXCEPT !.conditional_stack = other])
      PROVE  \E g \in DecidedFrame : frames' = SetTop(g) /\ g.define = Top.define
  <2>1. [Taken EXCEPT !.conditional_stack = other] \in Frame
    BY <1>1, FrameWith
  <2>2. [Taken EXCEPT !.conditional_stack = other] \in DecidedFrame
    BY <1>5, <2>1, BranchesDecided
  <2>3. [Taken EXCEPT !.conditional_stack = other].define = Top.define
    BY TakenHolds DEF Frame, ParserType
  <2> QED BY <1>5, <2>2, <2>3
<1>6. CASE ReadConditional(line)
  <2> DEFINE active == is_conditionally_active(Top) /\ evaluate_condition(line.condition)
             branch == [active |-> active, seen_true |-> active,
                        branches |-> IF active THEN 1 ELSE 0]
  <2>1. frames' = SetTop([Taken EXCEPT !.conditional_stack = Append(stack, branch)])
    BY <1>1, <1>6 DEF ReadConditional
  <2>2. active \in BOOLEAN
    BY DEF is_conditionally_active, evaluate_condition
  <2> HIDE DEF active
  <2>3. branch \in Branch /\ Decided(branch)
    BY <2>2, NewBranch DEF Branch
  <2> HIDE DEF branch, stack
  <2>4. /\ Append(stack, branch) \in Seq(Branch)
        /\ \A c \in DOMAIN Append(stack, branch) : Decided(Append(stack, branch)[c])
    BY <1>1, <1>3, <2>3, AppendDecided
  <2> QED BY <1>5, <2>1, <2>4
<1>7. CASE ReadElse(line)
  <2>1. CASE stack = <<>>
    <3>1. frames' = SetTop(Taken)
      BY <1>7, <2>1 DEF ReadElse
    <3>2. Taken \in DecidedFrame
      BY <1>1, <1>2, SameConditionals
    <3> QED BY <3>1, <3>2, TakenHolds
  <2>2. CASE stack # <<>>
    <3> DEFINE next == Otherwise(Last(stack), line.condition)
               rest == Front(stack)
    <3>1. frames' = SetTop([Taken EXCEPT !.conditional_stack = Append(rest, next)])
      BY <1>7, <2>2 DEF ReadElse
    <3>2. next \in Branch /\ Decided(next)
      BY <1>4, <2>2, OtherwiseType, NextBranch
    <3>3. rest \in Seq(Branch) /\ \A c \in DOMAIN rest : Decided(rest[c])
      BY <1>4, <2>2
    <3> HIDE DEF next, rest
    <3>4. /\ Append(rest, next) \in Seq(Branch)
          /\ \A c \in DOMAIN Append(rest, next) : Decided(Append(rest, next)[c])
      BY <3>2, <3>3, AppendDecided
    <3> QED BY <1>5, <3>1, <3>4
  <2> QED BY <2>1, <2>2
<1>8. CASE ReadEndif(line)
  <2> DEFINE other == IF stack = <<>> THEN stack ELSE Front(stack)
  <2>1. frames' = SetTop([Taken EXCEPT !.conditional_stack = other])
    BY <1>1, <1>8 DEF ReadEndif
  <2>2. other \in Seq(Branch) /\ \A c \in DOMAIN other : Decided(other[c])
    BY <1>1, <1>3, <1>4
  <2> HIDE DEF other
  <2> QED BY <1>5, <2>1, <2>2
<1> QED BY <1>6, <1>7, <1>8

(* A parser without open conditionals is decided.                          *)
LEMMA FreshDecided ==
  ASSUME NEW f \in Frame, f.conditional_stack = <<>>
  PROVE  f \in DecidedFrame
BY DEF DecidedFrame

(* A new parser has nothing open and nothing pending.                      *)
LEMMA ParserStack ==
  ASSUME NEW of, NEW file, NEW ignore, NEW text
  PROVE  /\ Parser(of, file, ignore, text).conditional_stack = <<>>
         /\ Parser(of, file, ignore, text).define = <<>>
         /\ Parser(of, file, ignore, text).current_rule = <<>>
         /\ Parser(of, file, ignore, text).siblings = <<>>
BY DEF Parser

(* What the steps that read no line do to the parsers.                     *)
LEMMA OtherStepFrames ==
  ASSUME Types, Drain \/ EndOfText \/ Raise \/ SkipFile \/ StartFile \/ Finished
  PROVE  \/ frames' = frames
         \/ frames # <<>> /\ frames' = Front(frames)
         \/ \E new \in Frame : /\ frames' = <<new>> /\ new.conditional_stack = <<>>
                               /\ new.define = <<>>
                               /\ new.current_rule = <<>> /\ new.siblings = <<>>
         \/ /\ frames # <<>>
            /\ \E g \in Frame :
                 /\ g.conditional_stack = Top.conditional_stack /\ g.define = Top.define
                 /\ g.current_rule = Top.current_rule /\ g.siblings = Top.siblings
                 /\ \/ frames' = SetTop(g)
                    \/ \E new \in Frame : /\ frames' = Append(SetTop(g), new)
                                          /\ new.conditional_stack = <<>> /\ new.define = <<>>
                                          /\ new.current_rule = <<>> /\ new.siblings = <<>>
<1>1. CASE EndOfText \/ Raise \/ SkipFile
  <2>1. Raise => frames # <<>>
    BY DEF Raise, Types
  <2> QED BY <1>1, <2>1 DEF EndOfText, Raise, SkipFile
<1>2. CASE StartFile
  <2> DEFINE new == Parser(Head(agenda).of, Head(agenda).file, TRUE, <<>>)
  <2>1. frames' = <<new>> /\ agenda # <<>>
    BY <1>2 DEF StartFile
  <2>2. new \in Frame
    <3>1. <<>> \in Seq(Lines)
      OBVIOUS
    <3> QED BY <2>1, <3>1, AgendaHolds, ParserIs
  <2>3. /\ new.conditional_stack = <<>> /\ new.define = <<>>
        /\ new.current_rule = <<>> /\ new.siblings = <<>>
    BY DEF Parser
  <2> HIDE DEF new
  <2> QED BY <2>1, <2>2, <2>3
<1>3. CASE Finished
  <2>1. CASE eval_pending = <<>>
    BY <1>3, <2>1 DEF Finished
  <2>2. CASE eval_pending # <<>>
    <3> DEFINE new == Parser("eval", "<eval>", FALSE, Head(eval_pending))
    <3>1. frames' = <<new>>
      BY <1>3, <2>2 DEF Finished
    <3>2. Head(eval_pending) \in Seq(Lines)
      BY <2>2 DEF Types, Texts_
    <3>3. /\ new \in Frame /\ new.conditional_stack = <<>> /\ new.define = <<>>
          /\ new.current_rule = <<>> /\ new.siblings = <<>>
      BY <3>2, EvalFrame, ParserStack
    <3> HIDE DEF new
    <3> QED BY <3>1, <3>3
  <2> QED BY <2>1, <2>2
<1>4. CASE Drain
  <2>1. frames \in Seq(Frame) /\ frames # <<>> /\ Top \in Frame
    BY <1>4, TopHolds DEF Types, Drain, Top
  <2>2. Top \in ParserType /\ Top.queue \in Seq(Seq(Lines))
    BY <2>1 DEF Frame, ParserType
  <2>3. CASE Top.queue # <<>>
    <3> DEFINE q == Tail(Top.queue)
               g == [Top EXCEPT !.queue = q]
               new == Parser("eval", "<eval>", FALSE, Head(Top.queue))
    <3>1. frames' = Append(SetTop(g), new)
      BY <1>4, <2>3 DEF Drain
    <3>2. q \in Seq(Seq(Lines)) /\ Head(Top.queue) \in Seq(Lines)
      BY <2>2, <2>3
    <3>3. /\ new \in Frame /\ new.conditional_stack = <<>> /\ new.define = <<>>
          /\ new.current_rule = <<>> /\ new.siblings = <<>>
      BY <3>2, EvalFrame, ParserStack
    <3> HIDE DEF new, q
    <3>4. g \in Frame
      BY <2>1, <3>2, FrameWith
    <3>5. /\ g.conditional_stack = Top.conditional_stack /\ g.define = Top.define
          /\ g.current_rule = Top.current_rule /\ g.siblings = Top.siblings
      BY <2>2 DEF ParserType
    <3> HIDE DEF g
    <3> QED BY <2>1, <3>1, <3>3, <3>4, <3>5
  <2>4. CASE Top.queue = <<>>
    <3> DEFINE l == eval_pending # <<>>
               g == [Top EXCEPT !.queue = eval_pending, !.looping = l]
    <3>1. frames' = SetTop(g)
      BY <1>4, <2>4 DEF Drain
    <3>2. l \in BOOLEAN /\ eval_pending \in Seq(Seq(Lines))
      BY DEF Types, Texts_
    <3> HIDE DEF l
    <3>3. g \in Frame
      BY <2>1, <3>2, FrameWith
    <3>4. /\ g.conditional_stack = Top.conditional_stack /\ g.define = Top.define
          /\ g.current_rule = Top.current_rule /\ g.siblings = Top.siblings
      BY <2>2 DEF ParserType
    <3> HIDE DEF g
    <3> QED BY <2>1, <3>1, <3>3, <3>4
  <2> QED BY <2>3, <2>4
<1> QED BY <1>1, <1>2, <1>3, <1>4

(* A set of parsers that the steps that read no line do not leave.         *)
LEMMA OtherStepIn ==
  ASSUME Types, Drain \/ EndOfText \/ Raise \/ SkipFile \/ StartFile \/ Finished,
         NEW A \in SUBSET Frame, frames \in Seq(A),
         \A f \in Frame : f.conditional_stack = <<>> /\ f.define = <<>>
                          /\ f.current_rule = <<>> /\ f.siblings = <<>> => f \in A,
         \A f \in A : \A g \in Frame :
           g.conditional_stack = f.conditional_stack /\ g.define = f.define
           /\ g.current_rule = f.current_rule /\ g.siblings = f.siblings => g \in A
  PROVE  frames' \in Seq(A)
<1>1. CASE frames' = frames
  BY <1>1
<1>2. CASE frames # <<>> /\ frames' = Front(frames)
  BY <1>2, LastFront
<1>3. ASSUME NEW new \in Frame, frames' = <<new>>, new.conditional_stack = <<>>,
             new.define = <<>>, new.current_rule = <<>>, new.siblings = <<>>
      PROVE  frames' \in Seq(A)
  BY <1>3
<1>4. ASSUME frames # <<>>, NEW g \in Frame,
             g.conditional_stack = Top.conditional_stack, g.define = Top.define,
             g.current_rule = Top.current_rule, g.siblings = Top.siblings
      PROVE  SetTop(g) \in Seq(A)
  <2>1. Top \in A
    BY <1>4, SetTopIn
  <2>2. g \in A
    BY <1>4, <2>1
  <2> QED BY <1>4, <2>2, SetTopIn
<1>5. ASSUME frames # <<>>, NEW g \in Frame,
             g.conditional_stack = Top.conditional_stack, g.define = Top.define,
             g.current_rule = Top.current_rule, g.siblings = Top.siblings,
             NEW new \in Frame, frames' = Append(SetTop(g), new), new.conditional_stack = <<>>,
             new.define = <<>>, new.current_rule = <<>>, new.siblings = <<>>
      PROVE  frames' \in Seq(A)
  <2>1. SetTop(g) \in Seq(A) /\ new \in A
    BY <1>4, <1>5
  <2> QED BY <1>5, <2>1
<1> QED BY <1>1, <1>2, <1>3, <1>4, <1>5, OtherStepFrames

(* Every step leaves every parser decided.                                 *)
LEMMA BranchesStep ==
  ASSUME Types, Branches, [Next]_vars
  PROVE  Branches'
<1>1. DecidedFrame \in SUBSET Frame /\ frames \in Seq(DecidedFrame)
  BY DEF DecidedFrame, Branches
<1>2. CASE ReadLine
  <2>1. CanRead /\ Offered \subseteq Lines /\ frames # <<>>
    BY <1>2, TakenHolds DEF ReadLine
  <2>2. Top \in DecidedFrame /\ \A f \in DecidedFrame : SetTop(f) \in Seq(DecidedFrame)
    BY <1>1, <2>1, SetTopIn
  <2>3. PICK line \in Lines : OrdinaryLine(line) \/ ReadInclude(line)
    BY <1>2, <2>1 DEF ReadLine, OrdinaryLine
  <2>4. CASE ReadConditional(line) \/ ReadElse(line) \/ ReadEndif(line)
    BY <2>1, <2>2, <2>4, ConditionalDecided DEF Branches
  <2>5. CASE /\ OrdinaryLine(line)
             /\ ~ReadConditional(line) /\ ~ReadElse(line) /\ ~ReadEndif(line)
    <3>1. ASSUME NEW g \in Frame, frames' = SetTop(g),
                 g.conditional_stack = Top.conditional_stack
          PROVE  frames' \in Seq(DecidedFrame)
      <4>1. g \in DecidedFrame
        BY <2>2, <3>1, SameConditionals
      <4> QED BY <2>2, <3>1, <4>1
    <3> QED BY <1>1, <2>1, <2>5, <3>1, OtherLineFrame DEF Branches
  <2>6. CASE ReadInclude(line)
    <3> DEFINE new == Parser("include", line.file, line.ignore, <<>>)
    <3>1. Waiting \in DecidedFrame
      BY <2>1, <2>2, WaitingType, SameConditionals
    <3>2. new \in DecidedFrame
      BY <2>1, <2>6, IncludeHolds, ParserStack, FreshDecided
    <3>3. frames' = Append(SetTop(Waiting), new) \/ frames' = SetTop(Waiting)
      BY <2>1, <2>6, IncludeHolds
    <3> DEFINE rest == SetTop(Waiting)
    <3>4. rest \in Seq(DecidedFrame)
      BY <2>2, <3>1
    <3> HIDE DEF new, rest
    <3>5. Append(rest, new) \in Seq(DecidedFrame)
      BY <3>2, <3>4
    <3> QED BY <3>3, <3>4, <3>5 DEF Branches, rest
  <2> QED BY <2>3, <2>4, <2>5, <2>6
<1>3. CASE Drain \/ EndOfText \/ Raise \/ SkipFile \/ StartFile \/ Finished
  <2>1. \A f \in Frame : f.conditional_stack = <<>> /\ f.define = <<>>
                          /\ f.current_rule = <<>> /\ f.siblings = <<>> => f \in DecidedFrame
    BY FreshDecided
  <2>2. \A f \in DecidedFrame : \A g \in Frame :
          g.conditional_stack = f.conditional_stack /\ g.define = f.define
          /\ g.current_rule = f.current_rule /\ g.siblings = f.siblings => g \in DecidedFrame
    BY SameConditionals
  <2>3. frames' \in Seq(DecidedFrame)
    BY <1>1, <1>3, <2>1, <2>2, OtherStepIn
  <2> QED BY <2>3 DEF Branches
<1>4. CASE UNCHANGED vars
  BY <1>4 DEF vars, Branches
<1> QED BY <1>2, <1>3, <1>4 DEF Next

(* OneBranch holds throughout: of the branches of a conditional at most    *)
(* one is read, however conditionals, else-if chains, includes and $(eval) *)
(* texts nest (process_parsed_lines).                                      *)
THEOREM OneBranchRead == Spec => []OneBranch
<1>1. Init => Branches
  BY DEF Init, Branches
<1>2. Types /\ Branches /\ [Next]_vars => Branches'
  BY BranchesStep
<1>3. Branches => OneBranch
  <2> SUFFICES ASSUME Branches, NEW i \in DOMAIN frames,
                      NEW c \in DOMAIN frames[i].conditional_stack
               PROVE  frames[i].conditional_stack[c].branches <= 1
    BY DEF OneBranch
  <2>1. frames[i] \in DecidedFrame
    BY DEF Branches
  <2> QED BY <2>1 DEF DecidedFrame, Decided
<1> QED BY <1>1, <1>2, <1>3, TypesHold, PTL DEF Spec

(* The second table gives n what the first does.                           *)
KeepsAt(n, table, new) ==
  n \in DOMAIN new /\ new[n].value = table[n].value /\ new[n].origin = table[n].origin

(* Binding another name keeps a variable.                                  *)
LEMMA BindKeeps ==
  ASSUME NEW table, NEW n \in DOMAIN table, NEW m, NEW v, m # n
  PROVE  KeepsAt(n, table, Bind(table, m, v))
BY DEF Bind, KeepsAt

(* Handing over the default goal keeps every other variable.               *)
LEMMA ShownKeeps ==
  ASSUME NEW table, NEW n \in DOMAIN table, n # DefaultGoal, NEW before, NEW d
  PROVE  KeepsAt(n, table, Shown(table, before, d))
<1>1. KeepsAt(n, table, table)
  BY DEF KeepsAt
<1> DEFINE v == [value |-> d.default_target, flavor |-> "simple",
                 origin |-> "default", export |-> "unset"]
<1>2. KeepsAt(n, table, Bind(table, DefaultGoal, v))
  <2> HIDE DEF v
  <2> QED BY BindKeeps
<1> QED BY <1>1, <1>2 DEF Shown

(* Rewriting another value keeps a variable.                               *)
LEMMA ValueKeeps ==
  ASSUME NEW table, NEW n \in DOMAIN table, NEW m, m # n, NEW value
  PROVE  KeepsAt(n, table, [table EXCEPT ![m].value = value])
BY DEF KeepsAt

(* An assignment keeps a command-line variable unless it says override.    *)
LEMMA SetVariableKeeps ==
  ASSUME NEW table, IsTable(table), NEW n \in DOMAIN table, table[n].origin = "command_line",
         NEW a \in Assignment, a.name # n \/ ~a.override
  PROVE  KeepsAt(n, table, set_variable(table, a))
<1> DEFINE set == Bind(table, a.name, Stored(table, a))
<1>1. KeepsAt(n, table, table)
  BY DEF KeepsAt
<1>2. CASE Blocked(table, a) /\ a.flavor # "?="
  BY <1>1, <1>2 DEF set_variable
<1>3. CASE ~(Blocked(table, a) /\ a.flavor # "?=")
  <2>1. DOMAIN set = DOMAIN table \cup {a.name}
    BY DEF Bind
  <2>2. KeepsAt(n, table, set)
    <3>1. CASE a.name # n
      BY <3>1, BindKeeps
    <3>2. CASE a.name = n
      <4>1. Blocked(table, a)
        BY <3>2 DEF Blocked, is_protected
      <4>2. a.flavor = "?="
        BY <1>3, <4>1
      <4>3. Stored(table, a) = table[n]
        BY <3>2, <4>2 DEF Stored
      <4>4. set[n] = table[n]
        BY <3>2, <4>3 DEF Bind
      <4> QED BY <2>1, <4>4 DEF KeepsAt
    <3> QED BY <3>1, <3>2
  <2>3. KeepsAt(n, table, [set EXCEPT ![a.name].export = "exported"])
    <3>1. n \in DOMAIN set /\ set[n].value = table[n].value /\ set[n].origin = table[n].origin
      BY <2>2 DEF KeepsAt
    <3> DEFINE ex == [set EXCEPT ![a.name].export = "exported"]
    <3>2. DOMAIN ex = DOMAIN set
      OBVIOUS
    <3>3. CASE a.name # n
      <4>1. ex[n] = set[n]
        BY <3>1, <3>3
      <4> QED BY <3>1, <3>2, <4>1 DEF KeepsAt
    <3>4. CASE a.name = n
      <4> HIDE DEF set
      <4>1. ex[n] = [set[n] EXCEPT !.export = "exported"]
        BY <3>1, <3>4
      <4> HIDE DEF ex
      <4>2. ex[n].value = set[n].value /\ ex[n].origin = set[n].origin
        BY <4>1
      <4> QED BY <3>1, <3>2, <4>2 DEF KeepsAt
    <3> QED BY <3>3, <3>4
  <2>4. set_variable(table, a) = IF a.export THEN [set EXCEPT ![a.name].export = "exported"] ELSE set
    BY <1>3 DEF set_variable
  <2> QED BY <2>2, <2>3, <2>4
<1> QED BY <1>2, <1>3

(* A define block keeps a command-line variable unless it says override.   *)
LEMMA DefineKeeps ==
  ASSUME NEW table, NEW n \in DOMAIN table, table[n].origin = "command_line",
         NEW name, NEW flavor, NEW override \in BOOLEAN, NEW body, name # n \/ ~override
  PROVE  KeepsAt(n, table, Define(table, name, flavor, override, body))
<1> DEFINE block == [value |-> body, flavor |-> flavor, override |-> override]
           new == Created(Immediate(table, block))
<1>1. Define(table, name, flavor, override, body) =
        IF override \/ name \notin DOMAIN table THEN Bind(table, name, new)
        ELSE IF table[name].origin = "command_line" \/ flavor = "?=" THEN table
        ELSE IF flavor = "+=" THEN [table EXCEPT ![name].value = @ \o body]
        ELSE Bind(table, name, new)
  BY DEF Define
<1> HIDE DEF new
<1>2. KeepsAt(n, table, table)
  BY DEF KeepsAt
<1>3. CASE name = n
  BY <1>1, <1>2, <1>3
<1>4. CASE name # n
  <2>1. KeepsAt(n, table, Bind(table, name, new))
    BY <1>4, BindKeeps
  <2>2. KeepsAt(n, table, [table EXCEPT ![name].value = @ \o body])
    BY <1>4 DEF KeepsAt
  <2> QED BY <1>1, <1>2, <2>1, <2>2
<1> QED BY <1>3, <1>4

(* undefine keeps a command-line variable unless it says override.         *)
LEMMA UndefineKeeps ==
  ASSUME NEW table, NEW n \in DOMAIN table, table[n].origin = "command_line",
         NEW name, NEW override \in BOOLEAN, name # n \/ ~override
  PROVE  KeepsAt(n, table, Undefine(table, name, override))
<1>1. KeepsAt(n, table, table)
  BY DEF KeepsAt
<1>2. CASE name = n
  BY <1>1, <1>2 DEF Undefine
<1>3. CASE name # n
  <2>1. KeepsAt(n, table, [m \in DOMAIN table \ {name} |-> table[m]])
    BY <1>3 DEF KeepsAt
  <2> QED BY <1>1, <2>1 DEF Undefine
<1> QED BY <1>2, <1>3

(* export and unexport keep values and origins.                            *)
LEMMA MarkKeeps ==
  ASSUME NEW table, IsTable(table), NEW n \in DOMAIN table, NEW names, NEW mark
  PROVE  KeepsAt(n, table, Mark(table, names, mark))
<1> DEFINE new == Mark(table, names, mark)
<1>1. n \in DOMAIN new /\ new[n] = IF n \notin names THEN table[n]
                                   ELSE [table[n] EXCEPT !.export = mark]
  BY DEF Mark
<1>2. table[n] \in Variable
  BY DEF IsTable
<1> HIDE DEF new
<1> DEFINE v == table[n]
<1> HIDE DEF v
<1>3. [v EXCEPT !.export = mark].value = v.value /\ [v EXCEPT !.export = mark].origin = v.origin
  BY <1>2 DEF Variable, v
<1>4. new[n] = v \/ new[n] = [v EXCEPT !.export = mark]
  BY <1>1 DEF v
<1>5. new[n].value = table[n].value /\ new[n].origin = table[n].origin
  BY <1>3, <1>4 DEF v
<1> QED BY <1>1, <1>5 DEF KeepsAt, new

(* What two steps keep, both of them together keep.                        *)
LEMMA KeepsTwice ==
  ASSUME NEW n, NEW s, NEW t, NEW u, KeepsAt(n, s, t), KeepsAt(n, t, u)
  PROVE  KeepsAt(n, s, u)
BY DEF KeepsAt

-----------------------------------------------------------------------------

(* A define block that overrides has been counted among the overrides.     *)
Entitled(f) == \A i \in DOMAIN f.define : f.define[i].override => f.define[i].name \in overrides

(* A parser whose define block, if it says override, is counted in         *)
(* overrides.                                                              *)
EntitledFrame == {f \in Frame : Entitled(f)}

(* The inductive form of CommandLineHolds: the command line's variables    *)
(* stand, and no open block is going to override one that is not counted.  *)
Kept ==
  /\ \A n \in DOMAIN given \ (overrides \cup {DefaultGoal}) :
       given[n].origin = "command_line" =>
         /\ n \in DOMAIN variables /\ variables[n].value = given[n].value
         /\ variables[n].origin = "command_line"
  /\ frames \in Seq(EntitledFrame)

(* The end of a line keeps what the line kept.                             *)
LEMMA EndLineKeeps ==
  ASSUME Types, NEW f, NEW d, NEW table, NEW evals, NEW recipe,
         EndLine(f, d, table, evals, recipe),
         NEW n, n # DefaultGoal, n \in DOMAIN variables, KeepsAt(n, variables, table)
  PROVE  KeepsAt(n, variables, variables')
<1>1. variables' = Shown(table, d, db')
  BY EndLineIs
<1>2. n \in DOMAIN table
  BY DEF KeepsAt
<1> DEFINE after == db'
<1> HIDE DEF after
<1>3. KeepsAt(n, table, Shown(table, d, after))
  BY <1>2, ShownKeeps
<1> QED BY <1>1, <1>3, KeepsTwice DEF after

(* An ordinary line keeps a command-line variable that no override names.  *)
LEMMA LineKeeps ==
  ASSUME Types, Kept, CanRead, NEW line \in Lines, OrdinaryLine(line),
         NEW n \in DOMAIN variables, n # DefaultGoal, n \notin overrides',
         variables[n].origin = "command_line"
  PROVE  KeepsAt(n, variables, variables')
<1>1. KeepsAt(n, variables, variables) /\ IsTable(variables)
  BY DEF KeepsAt, Types
<1>2. \A before, d : KeepsAt(n, variables, Shown(variables, before, d))
  BY ShownKeeps
<1>3. KeepsAt(n, variables, ShownTable)
  BY <1>2 DEF ShownTable
<1>4. CASE ReadInDefine(line)
  <2>1. CASE variables' = variables
    BY <1>1, <2>1
  <2>2. CASE variables' = Define(variables, Top.define[1].name, Top.define[1].flavor,
                                 Top.define[1].override, Top.define[1].body)
    <3> DEFINE block == Top.define[1]
    <3>1. block \in Block /\ Top.define # <<>>
      BY <1>4, InDefineType
    <3>2. Top \in EntitledFrame
      BY TakenHolds, SetTopIn DEF Kept
    <3>3. Top.define \in Seq(Block)
      BY TakenHolds, FrameHolds
    <3>4. 1 \in DOMAIN Top.define
      <4>1. DOMAIN Top.define = 1 .. Len(Top.define) /\ Len(Top.define) \in Nat \ {0}
        BY <3>1, <3>3, EmptySeq
      <4> QED BY <4>1
    <3>5. block.override => block.name \in overrides
      BY <3>2, <3>4 DEF EntitledFrame, Entitled
    <3>6. overrides \subseteq overrides'
      BY LineTypes
    <3>7. block.override \in BOOLEAN
      BY <3>1 DEF Block
    <3> HIDE DEF block
    <3>8. block.name # n \/ ~block.override
      BY <3>5, <3>6
    <3>9. KeepsAt(n, variables,
                  Define(variables, block.name, block.flavor, block.override, block.body))
      BY <3>7, <3>8, DefineKeeps
    <3> QED BY <2>2, <3>9 DEF block
  <2> QED BY <1>4, <2>1, <2>2, InDefineType
<1>5. CASE \/ ReadInDeadBranch(line) \/ ReadConditional(line) \/ ReadElse(line)
           \/ ReadEndif(line) \/ ReadMissingSeparator(line)
  <2>1. variables' = variables
    BY <1>5 DEF ReadInDeadBranch, ReadConditional, ReadElse, ReadEndif, ReadMissingSeparator
  <2> QED BY <1>1, <2>1
<1>6. CASE ReadRule(line)
  BY <1>2, <1>6, RuleType, EndLineKeeps
<1>7. CASE ReadStaticPattern(line)
  <2>1. CASE variables' = Shown(variables, db, Registered(db, Taken))
    BY <1>2, <2>1
  <2>2. CASE EndLine(Opened(Last(StaticOf(line)), Front(StaticOf(line))), Registered(db, Taken),
                     Shown(variables, db, Registered(db, Taken)), line.evals, FALSE)
    BY <1>2, <2>2, EndLineKeeps
  <2> QED BY <1>7, <2>1, <2>2, StaticLineType
<1>8. CASE ReadRecipe(line)
  BY <1>1, <1>8, RecipeType, EndLineKeeps
<1>9. CASE ReadAssignment(line)
  <2> DEFINE a == AssignmentOf(line)
             set == set_variable(ShownTable, a)
  <2>1. a \in Assignment /\ EndLine(Flushed(Taken), AssignedBase(a), AssignedTable(a), line.evals, FALSE)
        /\ overrides' = IF a.override THEN overrides \cup {a.name} ELSE overrides
    BY <1>9, AssignmentType
  <2>2. a.name # n \/ ~a.override
    BY <2>1
  <2>3. IsTable(ShownTable)
    BY ShownTableType
  <2>4. n \in DOMAIN ShownTable /\ ShownTable[n].origin = "command_line"
    BY <1>3 DEF KeepsAt
  <2> HIDE DEF a
  <2>5. KeepsAt(n, ShownTable, set)
    BY <2>1, <2>2, <2>3, <2>4, SetVariableKeeps
  <2>6. KeepsAt(n, variables, set) /\ n \in DOMAIN set
    BY <1>3, <2>5, KeepsTwice DEF KeepsAt
  <2> HIDE DEF set
  <2>7. KeepsAt(n, set, [set EXCEPT ![DefaultGoal].value = Goal(a)])
    BY <2>6, ValueKeeps
  <2>8. KeepsAt(n, variables, [set EXCEPT ![DefaultGoal].value = Goal(a)])
    BY <2>6, <2>7, KeepsTwice
  <2>9. KeepsAt(n, variables, AssignedTable(a))
    BY <2>6, <2>8 DEF AssignedTable, set
  <2> QED BY <2>1, <2>9, EndLineKeeps
<1>10. CASE ReadTargetVariable(line)
  BY <1>3, <1>10, TargetVariableLineType, EndLineKeeps
<1>11. CASE ReadExport(line)
  BY <1>1, <1>11, MarkKeeps, ExportType, EndLineKeeps
<1>12. CASE ReadUndefine(line)
  <2>1. line.override \in BOOLEAN
        /\ EndLine(Taken, db, Undefine(variables, line.name, line.override), <<>>, FALSE)
    BY <1>12, UndefineLineType
  <2>2. line.name # n \/ ~line.override
    BY <1>12 DEF ReadUndefine
  <2>3. KeepsAt(n, variables, Undefine(variables, line.name, line.override))
    BY <2>1, <2>2, UndefineKeeps
  <2> QED BY <2>1, <2>3, EndLineKeeps
<1>13. CASE ReadDefine(line)
  BY <1>1, <1>13, DefineLineType, EndLineKeeps
<1>14. CASE ReadEmpty(line)
  BY <1>1, <1>14, EmptyType, EndLineKeeps
<1>15. CASE ReadVpath(line)
  BY <1>3, <1>15, VpathType, EndLineKeeps
<1> QED BY <1>4, <1>5, <1>6, <1>7, <1>8, <1>9, <1>10, <1>11, <1>12, <1>13, <1>14, <1>15
          DEF OrdinaryLine

(* A parser is entitled by its define block alone.                         *)
LEMMA SameDefine ==
  ASSUME NEW f \in EntitledFrame, NEW g \in Frame, g.define = f.define
  PROVE  g \in EntitledFrame
BY DEF EntitledFrame, Entitled

(* An entitled parser stays so as overrides are counted.                   *)
LEMMA EntitledLater ==
  ASSUME overrides \subseteq overrides'
  PROVE  EntitledFrame \subseteq EntitledFrame' /\ EntitledFrame' \subseteq Frame
BY DEF EntitledFrame, Entitled

(* A list over a set is a list over a larger one.                          *)
LEMMA SeqOfMore ==
  ASSUME NEW A, NEW B, A \subseteq B, NEW s \in Seq(A)
  PROVE  s \in Seq(B)
OBVIOUS

(* An ordinary line leaves the running parser entitled.                    *)
LEMMA LineEntitled ==
  ASSUME Types, Branches, Kept, CanRead, NEW line \in Lines, OrdinaryLine(line)
  PROVE  \/ frames' = frames
         \/ \E g \in Frame : frames' = SetTop(g) /\ g \in EntitledFrame'
<1>1. Top \in EntitledFrame /\ Top \in Frame /\ overrides \subseteq overrides'
  BY TakenHolds, SetTopIn, LineTypes DEF Kept
<1>2. Top \in EntitledFrame'
  BY <1>1, EntitledLater
<1>3. ASSUME NEW g \in Frame, g.define = Top.define PROVE g \in EntitledFrame'
  <2>1. \A i \in DOMAIN g.define : g.define[i].override => g.define[i].name \in overrides'
    BY <1>1, <1>3 DEF EntitledFrame, Entitled
  <2> QED BY <2>1 DEF EntitledFrame, Entitled
<1>4. CASE ReadConditional(line) \/ ReadElse(line) \/ ReadEndif(line)
  <2>1. PICK g \in DecidedFrame : frames' = SetTop(g) /\ g.define = Top.define
    BY <1>4, ConditionalDecided
  <2>2. g \in Frame
    BY DEF DecidedFrame
  <2> QED BY <1>3, <2>1, <2>2
<1>5. CASE ReadInDefine(line)
  <2>1. PICK v \in Seq(Block) :
              /\ Len(v) <= 1 /\ frames' = SetTop([Taken EXCEPT !.define = v])
              /\ \A i \in DOMAIN v : /\ v[i].name = Top.define[1].name
                                     /\ v[i].override = Top.define[1].override
    BY <1>5, InDefineType
  <2>2. [Taken EXCEPT !.define = v] \in Frame
    BY <2>1, TakenHolds, FrameWith
  <2>3. [Taken EXCEPT !.define = v].define = v
    BY TakenHolds DEF Frame, ParserType
  <2>4. Top.define[1].override => Top.define[1].name \in overrides'
    <3>1. Top.define \in Seq(Block) /\ Top.define # <<>>
      BY <1>5, TakenHolds, FrameHolds, InDefineType
    <3>2. DOMAIN Top.define = 1 .. Len(Top.define) /\ Len(Top.define) \in Nat \ {0}
      BY <3>1, EmptySeq
    <3>3. 1 \in DOMAIN Top.define
      BY <3>2
    <3> QED BY <1>1, <3>3 DEF EntitledFrame, Entitled
  <2>5. \A i \in DOMAIN v : v[i].override => v[i].name \in overrides'
    BY <2>1, <2>4
  <2> DEFINE g == [Taken EXCEPT !.define = v]
  <2> HIDE DEF g
  <2>6. g \in Frame /\ g.define = v /\ frames' = SetTop(g)
    BY <2>1, <2>2, <2>3 DEF g
  <2>7. g \in EntitledFrame'
    BY <2>5, <2>6 DEF EntitledFrame, Entitled
  <2> QED BY <2>6, <2>7
<1>6. CASE ReadDefine(line)
  <2> DEFINE g == Ended(Defining(line), <<>>, FALSE)
  <2>1. /\ Defining(line) \in Frame /\ Defining(line).define = <<BlockOf(line)>>
        /\ EndLine(Defining(line), db, variables, <<>>, FALSE)
    BY <1>6, DefineLineType
  <2>2. g \in Frame /\ g.define = Defining(line).define /\ frames' = SetTop(g)
    BY <2>1, EndedHolds, EndLineIs
  <2>3. BlockOf(line).override => BlockOf(line).name \in overrides'
    BY <1>6 DEF ReadDefine, BlockOf
  <2> HIDE DEF g
  <2> DEFINE b == BlockOf(line)
  <2> HIDE DEF b
  <2>4. g.define = <<b>> /\ (b.override => b.name \in overrides')
    BY <2>1, <2>2, <2>3 DEF b
  <2>5. \A i \in DOMAIN g.define : g.define[i] = b
    BY <2>4
  <2>6. g \in EntitledFrame'
    BY <2>2, <2>4, <2>5 DEF EntitledFrame, Entitled
  <2> QED BY <2>2, <2>6
<1>7. CASE /\ ~ReadConditional(line) /\ ~ReadElse(line) /\ ~ReadEndif(line)
           /\ ~ReadInDefine(line) /\ ~ReadDefine(line)
  BY <1>3, <1>7, OtherLineFrame
<1> QED BY <1>4, <1>5, <1>6, <1>7

(* The steps between lines keep every variable but .DEFAULT_GOAL.          *)
LEMMA OtherKeeps ==
  ASSUME Types, Drain \/ EndOfText \/ Raise \/ SkipFile \/ StartFile \/ Finished,
         NEW n \in DOMAIN variables, n # DefaultGoal
  PROVE  KeepsAt(n, variables, variables')
<1>1. KeepsAt(n, variables, variables)
  BY DEF KeepsAt
<1>2. CASE Drain \/ Raise \/ SkipFile \/ Finished
  BY <1>1, <1>2 DEF Drain, Raise, SkipFile, Finished
<1>3. CASE EndOfText
  <2> DEFINE after == db'
  <2>1. variables' = variables \/ variables' = Shown(variables, db, after)
    BY <1>3 DEF EndOfText
  <2> HIDE DEF after
  <2> QED BY <1>1, <2>1, ShownKeeps
<1>4. CASE StartFile
  <2>1. variables' = variables \/ variables' = [variables EXCEPT ![DefaultGoal].value = <<>>]
    BY <1>4 DEF StartFile
  <2>2. KeepsAt(n, variables, [variables EXCEPT ![DefaultGoal].value = <<>>])
    BY DEF KeepsAt
  <2> QED BY <1>1, <2>1, <2>2
<1> QED BY <1>2, <1>3, <1>4

(* Every step keeps the command line's variables.                          *)
LEMMA KeptStep ==
  ASSUME Types, Branches, Kept, [Next]_vars
  PROVE  Kept'
<1> DEFINE Held(n) == /\ n \in DOMAIN variables /\ variables[n].value = given[n].value
                      /\ variables[n].origin = "command_line"
<1>1. ASSUME given' = given, overrides \subseteq overrides',
             \A n \in DOMAIN variables :
               n # DefaultGoal /\ n \notin overrides' /\ variables[n].origin = "command_line"
                 => KeepsAt(n, variables, variables')
      PROVE  \A n \in DOMAIN given' \ (overrides' \cup {DefaultGoal}) :
               given'[n].origin = "command_line" =>
                 /\ n \in DOMAIN variables' /\ variables'[n].value = given'[n].value
                 /\ variables'[n].origin = "command_line"
  <2> SUFFICES ASSUME NEW n \in DOMAIN given, n \notin overrides', n # DefaultGoal,
                      given[n].origin = "command_line"
               PROVE  /\ n \in DOMAIN variables' /\ variables'[n].value = given[n].value
                      /\ variables'[n].origin = "command_line"
    BY <1>1
  <2>1. Held(n)
    BY <1>1 DEF Kept
  <2>2. KeepsAt(n, variables, variables')
    BY <1>1, <2>1
  <2> QED BY <2>1, <2>2 DEF KeepsAt
<1>2. CASE ReadLine
  <2>1. CanRead /\ Offered \subseteq Lines /\ frames # <<>>
    BY <1>2, TakenHolds DEF ReadLine
  <2>2. PICK line \in Lines : OrdinaryLine(line) \/ ReadInclude(line)
    BY <1>2, <2>1 DEF ReadLine, OrdinaryLine
  <2>3. CASE OrdinaryLine(line)
    <3>1. given' = given /\ overrides \subseteq overrides'
      BY <2>1, <2>3, LineTypes
    <3>2. \A n \in DOMAIN variables :
            n # DefaultGoal /\ n \notin overrides' /\ variables[n].origin = "command_line"
              => KeepsAt(n, variables, variables')
      BY <2>1, <2>3, LineKeeps
    <3> DEFINE E == EntitledFrame'
    <3>3. frames \in Seq(E)
      <4>1. EntitledFrame \subseteq E
        BY <3>1, EntitledLater
      <4> HIDE DEF E
      <4> QED BY <4>1, SeqOfMore DEF Kept
    <3>4. frames' \in Seq(E)
      <4>1. \/ frames' = frames
            \/ \E g \in Frame : frames' = SetTop(g) /\ g \in E
        BY <2>1, <2>3, LineEntitled
      <4> HIDE DEF E
      <4> QED BY <2>1, <3>3, <4>1, SetTopIn
    <3> QED BY <1>1, <3>1, <3>2, <3>4 DEF Kept
  <2>4. CASE ReadInclude(line)
    <3>1. given' = given /\ overrides' = overrides /\ variables' = ShownTable
      BY <2>1, <2>4, IncludeHolds
    <3>2. \A n \in DOMAIN variables : n # DefaultGoal => KeepsAt(n, variables, variables')
      BY <3>1, ShownKeeps DEF ShownTable
    <3> DEFINE new == Parser("include", line.file, line.ignore, <<>>)
               rest == SetTop(Waiting)
    <3>3. Top \in EntitledFrame /\ \A f \in EntitledFrame : SetTop(f) \in Seq(EntitledFrame)
      BY <2>1, SetTopIn DEF Kept
    <3>4. Waiting \in EntitledFrame
      BY <2>1, <3>3, WaitingType, SameDefine
    <3>5. new \in EntitledFrame
      <4>1. new \in Frame /\ new.define = <<>>
        BY <2>1, <2>4, IncludeHolds, ParserStack
      <4> HIDE DEF new
      <4> QED BY <4>1 DEF EntitledFrame, Entitled
    <3>6. frames' = Append(rest, new) \/ frames' = rest
      BY <2>1, <2>4, IncludeHolds
    <3>7. rest \in Seq(EntitledFrame)
      BY <3>3, <3>4
    <3> HIDE DEF new, rest
    <3>8. frames' \in Seq(EntitledFrame)
      BY <3>5, <3>6, <3>7
    <3>9. frames' \in Seq(EntitledFrame')
      BY <3>1, <3>8 DEF EntitledFrame, Entitled
    <3> QED BY <1>1, <3>1, <3>2, <3>9 DEF Kept
  <2> QED BY <2>2, <2>3, <2>4
<1>3. CASE Drain \/ EndOfText \/ Raise \/ SkipFile \/ StartFile \/ Finished
  <2>1. given' = given /\ overrides' = overrides
    BY <1>3 DEF Drain, EndOfText, Raise, SkipFile, StartFile, Finished, Rest, Settled
  <2>2. \A n \in DOMAIN variables : n # DefaultGoal => KeepsAt(n, variables, variables')
    BY <1>3, OtherKeeps
  <2>3. \A f \in Frame : f.conditional_stack = <<>> /\ f.define = <<>>
                          /\ f.current_rule = <<>> /\ f.siblings = <<>> => f \in EntitledFrame
    BY DEF EntitledFrame, Entitled
  <2>4. \A f \in EntitledFrame : \A g \in Frame :
          g.conditional_stack = f.conditional_stack /\ g.define = f.define
          /\ g.current_rule = f.current_rule /\ g.siblings = f.siblings => g \in EntitledFrame
    BY SameDefine
  <2>5. EntitledFrame \in SUBSET Frame /\ frames \in Seq(EntitledFrame)
    BY DEF EntitledFrame, Kept
  <2>6. frames' \in Seq(EntitledFrame)
    BY <1>3, <2>3, <2>4, <2>5, OtherStepIn
  <2>7. frames' \in Seq(EntitledFrame')
    BY <2>1, <2>6 DEF EntitledFrame, Entitled
  <2> QED BY <1>1, <2>1, <2>2, <2>7 DEF Kept
<1>4. CASE UNCHANGED vars
  BY <1>4 DEF vars, Kept, EntitledFrame, Entitled
<1> QED BY <1>2, <1>3, <1>4 DEF Next

(* CommandLineHolds holds throughout: a variable given on the command line *)
(* keeps its value through every assignment, define, undefine and export   *)
(* that does not say override (set_variable, process_parsed_lines).        *)
THEOREM CommandLineKept == Spec => []CommandLineHolds
<1>1. Init => Branches /\ Kept
  BY DEF Init, Branches, Kept
<1>2. Types /\ Branches /\ [Next]_vars => Branches'
  BY BranchesStep
<1>3. Types /\ Branches /\ Kept /\ [Next]_vars => Kept'
  BY KeptStep
<1>4. Kept => CommandLineHolds
  BY DEF Kept, CommandLineHolds
<1> QED BY <1>1, <1>2, <1>3, <1>4, TypesHold, PTL DEF Spec

(* The default goal that a rule with these targets gives.                  *)
FirstGoal(targets) == DefaultFrom(Builtins, targets).default_target

(* The default goal after a rule with these targets.                       *)
GoalAfter(d, targets) ==
  IF d.default_target # <<>> \/ d.default_goal_explicit THEN d.default_target
  ELSE FirstGoal(targets)

(* Looking for a default goal touches nothing but the default goal.        *)
LEMMA DefaultIs ==
  ASSUME NEW d \in Base, NEW targets \in Seq(FileName)
  PROVE  /\ DefaultFrom(d, targets).default_target = GoalAfter(d, targets)
         /\ DefaultFrom(d, targets).rules = d.rules
         /\ Quiet(d, DefaultFrom(d, targets))
         /\ DefaultFrom(d, targets).stopped = d.stopped
         /\ DefaultFrom(d, targets).second_expansion = d.second_expansion
         /\ DefaultFrom(d, targets).special_targets = d.special_targets
         /\ DefaultFrom(d, targets).pattern_rules = d.pattern_rules
         /\ DefaultFrom(d, targets).builtin_pattern_rules_count = d.builtin_pattern_rules_count
<1> DEFINE c == Select(targets, {t \in ToSet(targets) : MayBeDefault(t)})
           goal == Head(c)
<1>1. FirstGoal(targets) = IF c = <<>> THEN <<>> ELSE goal
  <2>1. Builtins.default_target = <<>> /\ Builtins.default_goal_explicit = FALSE
    BY DEF Builtins
  <2>2. DefaultFrom(Builtins, targets)
          = IF c = <<>> THEN Builtins ELSE [Builtins EXCEPT !.default_target = goal]
    BY <2>1 DEF DefaultFrom
  <2>3. c # <<>> => [Builtins EXCEPT !.default_target = goal].default_target = goal
    <3> HIDE DEF c, goal
    <3> QED BY BuiltinsType DEF Base, Database
  <2> HIDE DEF c, goal
  <2> QED BY <2>1, <2>2, <2>3 DEF FirstGoal
<1>2. DefaultFrom(d, targets)
        = IF d.default_target # <<>> \/ d.default_goal_explicit \/ c = <<>> THEN d
          ELSE [d EXCEPT !.default_target = goal]
  BY DEF DefaultFrom
<1> HIDE DEF c, goal
<1>3. CASE d.default_target # <<>> \/ d.default_goal_explicit \/ c = <<>>
  BY <1>1, <1>2, <1>3 DEF GoalAfter, Quiet
<1>4. CASE ~(d.default_target # <<>> \/ d.default_goal_explicit \/ c = <<>>)
  <2>1. DefaultFrom(d, targets) = [d EXCEPT !.default_target = goal]
    BY <1>2, <1>4
  <2> QED BY <1>1, <1>4, <2>1 DEF GoalAfter, Quiet, Base, Database
<1> QED BY <1>3, <1>4

(* What register_rule does before it looks at pattern rules.               *)
LEMMA StartedIs ==
  ASSUME NEW d \in Base, NEW rule \in Rule
  PROVE  /\ Quiet(d, Started(d, rule)) /\ Started(d, rule).rules = d.rules
         /\ Started(d, rule).default_target = GoalAfter(d, rule.targets)
         /\ Started(d, rule).second_expansion <=> d.second_expansion \/ SecondOf(rule)
<1> DEFINE s == SpecialsOf(d, rule)
           e == DefaultFrom(s, rule.targets)
<1>1. s \in Base /\ rule.targets \in Seq(FileName)
  BY StartedType, RuleHolds
<1>2. /\ Quiet(d, s) /\ s.rules = d.rules /\ s.default_target = d.default_target
      /\ (s.second_expansion <=> d.second_expansion \/ SecondOf(rule))
  BY SpecialsIs
<1> HIDE DEF s
<1>3. /\ e.default_target = GoalAfter(s, rule.targets) /\ e.rules = s.rules /\ Quiet(s, e)
      /\ e.second_expansion = s.second_expansion
  BY <1>1, DefaultIs
<1>4. Started(d, rule) = e
  BY DEF Started, s
<1> HIDE DEF e
<1>5. GoalAfter(s, rule.targets) = GoalAfter(d, rule.targets)
  BY <1>2 DEF GoalAfter, Quiet
<1> QED BY <1>2, <1>3, <1>4, <1>5 DEF Quiet

(* Noting the files a rule mentions touches no table of rules.             *)
LEMMA MentionedIs ==
  ASSUME NEW d \in Base, NEW rule \in Rule
  PROVE  /\ Quiet(d, Mentioned(d, rule)) /\ Mentioned(d, rule).rules = d.rules
         /\ Mentioned(d, rule).stopped = Started(d, rule).stopped
         /\ Mentioned(d, rule).default_target = GoalAfter(d, rule.targets)
         /\ Mentioned(d, rule).second_expansion <=> d.second_expansion \/ SecondOf(rule)
         /\ Mentioned(d, rule).special_targets = Started(d, rule).special_targets
         /\ Mentioned(d, rule).builtin_pattern_rules_count
              = Started(d, rule).builtin_pattern_rules_count
         /\ \/ Mentioned(d, rule).pattern_rules = Started(d, rule).pattern_rules
            \/ /\ Len(rule.targets) = 1
               /\ Mentioned(d, rule).pattern_rules
                    = Append(Started(d, rule).pattern_rules, suffix_to_pattern_rule(rule))
<1> DEFINE s == Started(d, rule)
           w == WithSuffixRule(s, rule)
           names == w.explicitly_mentioned \cup ToSet(rule.prerequisites) \cup ToSet(rule.order_only)
<1>1. s \in Base
  BY StartedType
<1>2. /\ Quiet(d, s) /\ s.rules = d.rules /\ s.default_target = GoalAfter(d, rule.targets)
      /\ (s.second_expansion <=> d.second_expansion \/ SecondOf(rule))
  BY StartedIs
<1>3. Mentioned(d, rule) = [w EXCEPT !.explicitly_mentioned = names]
  BY DEF Mentioned
<1> HIDE DEF s
<1>4. w \in Base
  BY <1>1, WithSuffixType
<1>5. /\ Quiet(s, w) /\ w.rules = s.rules /\ w.default_target = s.default_target
      /\ w.stopped = s.stopped
      /\ w.second_expansion = s.second_expansion /\ w.special_targets = s.special_targets
      /\ w.builtin_pattern_rules_count = s.builtin_pattern_rules_count
      /\ \/ w.pattern_rules = s.pattern_rules
         \/ /\ Len(rule.targets) = 1
            /\ w.pattern_rules = Append(s.pattern_rules, suffix_to_pattern_rule(rule))
  BY <1>1, WithSuffixIs
<1> HIDE DEF w, names
<1> DEFINE e == [w EXCEPT !.explicitly_mentioned = names]
<1>6. /\ e.log = w.log /\ e.default_goal_explicit = w.default_goal_explicit
      /\ e.stopped = w.stopped /\ e.rules = w.rules /\ e.default_target = w.default_target
      /\ e.second_expansion = w.second_expansion /\ e.special_targets = w.special_targets
      /\ e.builtin_pattern_rules_count = w.builtin_pattern_rules_count
      /\ e.pattern_rules = w.pattern_rules
  BY <1>4 DEF Base, Database
<1>7. Mentioned(d, rule) = e
  BY <1>3
<1> HIDE DEF e
<1>8. Quiet(d, e)
  BY <1>2, <1>5, <1>6 DEF Quiet
<1>9. s = Started(d, rule)
  BY DEF s
<1> QED BY <1>2, <1>5, <1>6, <1>7, <1>8, <1>9

(* What register_rule does to the goal and to second expansion.            *)
LEMMA RegisterEffect ==
  ASSUME NEW d \in Base, NEW rule \in Rule
  PROVE  /\ Quiet(d, register_rule(d, rule))
         /\ ~register_rule(d, rule).stopped =>
              /\ register_rule(d, rule).default_target = GoalAfter(d, rule.targets)
              /\ register_rule(d, rule).second_expansion <=> d.second_expansion \/ SecondOf(rule)
<1>1. CASE GroupWithoutRecipe(d, rule)
  <2>1. register_rule(d, rule) = [d EXCEPT !.stopped = TRUE]
    BY <1>1, RegisterIs
  <2> QED BY <2>1 DEF Quiet, Base, Database
<1>2. CASE ~GroupWithoutRecipe(d, rule) /\ is_pattern(rule)
  <2> DEFINE s == Started(d, rule)
  <2>1. register_rule(d, rule) = RegisterPattern(s, rule)
    BY <1>2, RegisterIs
  <2>2. /\ s \in Base /\ Quiet(d, s) /\ s.default_target = GoalAfter(d, rule.targets)
        /\ (s.second_expansion <=> d.second_expansion \/ SecondOf(rule))
    BY StartedType, StartedIs
  <2> HIDE DEF s
  <2>3. /\ Quiet(s, RegisterPattern(s, rule))
        /\ RegisterPattern(s, rule).default_target = s.default_target
        /\ RegisterPattern(s, rule).second_expansion = s.second_expansion
    BY <2>2, RegisterPatternIs
  <2>4. Quiet(d, RegisterPattern(s, rule))
    BY <2>2, <2>3 DEF Quiet
  <2> QED BY <2>1, <2>2, <2>3, <2>4
<1>3. CASE ~GroupWithoutRecipe(d, rule) /\ ~is_pattern(rule)
  <2> DEFINE s == Mentioned(d, rule)
  <2>1. register_rule(d, rule) = ExplicitOf(s, rule)
    BY <1>3, RegisterIs
  <2>2. /\ s \in Base /\ Quiet(d, s) /\ s.default_target = GoalAfter(d, rule.targets)
        /\ (s.second_expansion <=> d.second_expansion \/ SecondOf(rule))
    BY StartedType, MentionedIs
  <2> HIDE DEF s
  <2>3. Silent(s, ExplicitOf(s, rule))
    BY <2>2, ExplicitIs
  <2>4. Quiet(d, ExplicitOf(s, rule))
    BY <2>2, <2>3 DEF Quiet, Silent
  <2> QED BY <2>1, <2>2, <2>3, <2>4 DEF Silent
<1> QED BY <1>1, <1>2, <1>3

(* One step of a flush: what it does to the history, the default goal and  *)
(* second expansion.                                                       *)
LEMMA NextEffect ==
  ASSUME NEW d \in Base, NEW rule \in Rule
  PROVE  /\ RegisterNext(d, rule).default_goal_explicit = d.default_goal_explicit
         /\ d.stopped => RegisterNext(d, rule) = d
         /\ ~d.stopped => RegisterNext(d, rule).log = Append(d.log, rule)
         /\ ~RegisterNext(d, rule).stopped =>
              /\ ~d.stopped
              /\ RegisterNext(d, rule).default_target = GoalAfter(d, rule.targets)
              /\ RegisterNext(d, rule).second_expansion <=> d.second_expansion \/ SecondOf(rule)
<1>1. CASE d.stopped
  BY <1>1 DEF RegisterNext
<1>2. CASE ~d.stopped
  <2> DEFINE b == register_rule(d, rule)
             longer == Append(d.log, rule)
             e == [b EXCEPT !.log = longer]
  <2>1. b \in Base
    BY RegisterType
  <2>2. /\ Quiet(d, b)
        /\ ~b.stopped => /\ b.default_target = GoalAfter(d, rule.targets)
                         /\ b.second_expansion <=> d.second_expansion \/ SecondOf(rule)
    BY RegisterEffect
  <2>3. RegisterNext(d, rule) = e
    BY <1>2, <2>2 DEF RegisterNext, Quiet
  <2> HIDE DEF b, longer
  <2>4. /\ e.log = longer /\ e.stopped = b.stopped /\ e.default_target = b.default_target
        /\ e.second_expansion = b.second_expansion
        /\ e.default_goal_explicit = b.default_goal_explicit
    BY <2>1 DEF Base, Database
  <2> HIDE DEF e
  <2> QED BY <1>2, <2>2, <2>3, <2>4 DEF longer, Quiet
<1> QED BY <1>1, <1>2

(* The first of some rules that gives a default goal gives it.             *)
GoalIn(d, e, rules) ==
  /\ e.default_goal_explicit = d.default_goal_explicit
  /\ \/ /\ e.default_target = d.default_target
        /\ \/ d.default_target # <<>> \/ d.default_goal_explicit
           \/ \A i \in DOMAIN rules : FirstGoal(rules[i].targets) = <<>>
     \/ /\ d.default_target = <<>> /\ ~d.default_goal_explicit
        /\ \E i \in DOMAIN rules :
             /\ FirstGoal(rules[i].targets) # <<>>
             /\ e.default_target = FirstGoal(rules[i].targets)
             /\ \A j \in 1 .. i - 1 : FirstGoal(rules[j].targets) = <<>>

(* What registering the rules does: all of them are registered, unless     *)
(* there is an error.                                                      *)
LEMMA RegisteredEffect ==
  ASSUME NEW d \in Base, NEW f, PendingRules(f) \in Seq(Rule)
  PROVE  /\ Registered(d, f).default_goal_explicit = d.default_goal_explicit
         /\ d.stopped => Registered(d, f).stopped
         /\ \E m \in 0 .. Len(PendingRules(f)) :
              /\ Registered(d, f).log = d.log \o SubSeq(PendingRules(f), 1, m)
              /\ ~Registered(d, f).stopped => m = Len(PendingRules(f))
         /\ ~Registered(d, f).stopped =>
              /\ GoalIn(d, Registered(d, f), PendingRules(f))
              /\ Registered(d, f).second_expansion
                   <=> d.second_expansion \/ \E i \in DOMAIN PendingRules(f) : SecondOf(PendingRules(f)[i])
<1> DEFINE P == PendingRules(f)
           L == Len(P)
<1>1. PICK u \in [0 .. L -> Base] :
        /\ Registered(d, f) = u[L] /\ u[0] = d
        /\ \A n \in 1 .. L : u[n] = RegisterNext(u[n - 1], P[n])
  BY RegisteredSteps
<1>2. L \in Nat /\ P \in Seq(Rule) /\ DOMAIN P = 1 .. L
  OBVIOUS
<1> HIDE DEF P
<1> DEFINE First(n) == SubSeq(P, 1, n)
           Second(n) == \E i \in 1 .. n : SecondOf(P[i])
           Log(n) == \E m \in 0 .. n : /\ u[n].log = d.log \o First(m)
                                       /\ ~u[n].stopped => m = n
           Holds(n) == /\ u[n].default_goal_explicit = d.default_goal_explicit
                       /\ d.stopped => u[n].stopped
                       /\ Log(n)
                       /\ ~u[n].stopped => /\ GoalIn(d, u[n], First(n))
                                           /\ u[n].second_expansion <=> d.second_expansion \/ Second(n)
           T == {n \in 0 .. L : Holds(n)}
<1>3. /\ \A n \in 0 .. L : First(n) \in Seq(Rule) /\ Len(First(n)) = n
                           /\ \A i \in 1 .. n : First(n)[i] = P[i]
      /\ \A n \in 1 .. L : P[n] \in Rule /\ First(n) = Append(First(n - 1), P[n])
      /\ First(0) = <<>> /\ First(L) = P
  <2>1. First(0) = <<>> /\ First(L) = P
        /\ \A n \in 1 .. L : P[n] \in Rule /\ First(n) = Append(First(n - 1), P[n])
    BY <1>2, FirstMembers
  <2>2. \A n \in 0 .. L : First(n) \in Seq(Rule) /\ Len(First(n)) = n
                           /\ \A i \in 1 .. n : First(n)[i] = P[i]
    BY <1>2
  <2> QED BY <2>1, <2>2
<1> HIDE DEF L, First
<1>4. 0 \in T
  <2>1. GoalIn(d, d, First(0)) /\ ~Second(0)
    <3>1. DOMAIN First(0) = {}
      BY <1>3
    <3> QED BY <3>1 DEF GoalIn
  <2>2. d.log \o First(0) = d.log
    BY <1>3, BaseHolds
  <2>3. d.second_expansion \in BOOLEAN
    BY BaseHolds
  <2>4. 0 \in 0 .. 0 /\ 0 \in 0 .. L
    BY <1>2
  <2> HIDE DEF Second
  <2> QED BY <1>1, <2>1, <2>2, <2>3, <2>4
<1>5. ASSUME NEW n \in 1 .. L, n - 1 \in T
      PROVE  n \in T
  <2> DEFINE b == u[n - 1]
             e == RegisterNext(b, P[n])
  <2>1. b \in Base /\ P[n] \in Rule /\ n \in 0 .. L /\ n - 1 \in 0 .. L /\ n - 1 \in Nat /\ n \in Nat
    BY <1>1, <1>2, <1>3, <1>5
  <2>2. /\ b.default_goal_explicit = d.default_goal_explicit
        /\ d.stopped => b.stopped
        /\ ~b.stopped => /\ GoalIn(d, b, First(n - 1))
                         /\ b.second_expansion <=> d.second_expansion \/ Second(n - 1)
    BY <1>5
  <2>3. PICK m \in 0 .. n - 1 : b.log = d.log \o First(m) /\ (~b.stopped => m = n - 1)
    BY <1>5
  <2>4. u[n] = e
    BY <1>1
  <2> HIDE DEF b
  <2>5. /\ e.default_goal_explicit = b.default_goal_explicit
        /\ (b.stopped => e = b)
        /\ (~b.stopped => e.log = Append(b.log, P[n]))
        /\ ~e.stopped => /\ ~b.stopped
                         /\ e.default_target = GoalAfter(b, P[n].targets)
                         /\ e.second_expansion <=> b.second_expansion \/ SecondOf(P[n])
    BY <2>1, NextEffect
  <2> HIDE DEF e
  <2>6. \E k \in 0 .. n : e.log = d.log \o First(k) /\ (~e.stopped => k = n)
    <3>1. CASE b.stopped
      <4>1. m \in 0 .. n
        BY <2>1
      <4>2. e = b
        BY <2>5, <3>1
      <4> QED BY <2>3, <3>1, <4>1, <4>2
    <3>2. CASE ~b.stopped
      <4>1. e.log = Append(d.log \o First(n - 1), P[n])
        BY <2>3, <2>5, <3>2
      <4>2. d.log \in Seq(Rule) /\ First(n - 1) \in Seq(Rule) /\ P[n] \in Rule
        BY <1>3, <2>1, BaseHolds
      <4>3. First(n) = Append(First(n - 1), P[n])
        BY <1>3
      <4>4. e.log = d.log \o First(n)
        <5> DEFINE before == d.log
                   some == First(n - 1)
                   last == P[n]
        <5>1. before \in Seq(Rule) /\ some \in Seq(Rule) /\ last \in Rule
          BY <4>2
        <5>2. e.log = Append(before \o some, last) /\ First(n) = Append(some, last)
          BY <4>1, <4>3
        <5>3. before = d.log
          OBVIOUS
        <5> HIDE DEF before, some, last
        <5>4. before \o Append(some, last) = Append(before \o some, last)
          BY <5>1, ConcatAppend
        <5> QED BY <5>2, <5>3, <5>4
      <4>5. n \in 0 .. n
        BY <2>1
      <4> QED BY <4>4, <4>5
    <3> QED BY <3>1, <3>2
  <2>7. ~e.stopped => /\ GoalIn(d, e, First(n))
                      /\ e.second_expansion <=> d.second_expansion \/ Second(n)
    <3> SUFFICES ASSUME ~e.stopped
                 PROVE  /\ GoalIn(d, e, First(n))
                        /\ e.second_expansion <=> d.second_expansion \/ Second(n)
      OBVIOUS
    <3>1. /\ ~b.stopped /\ e.default_target = GoalAfter(b, P[n].targets)
          /\ (e.second_expansion <=> b.second_expansion \/ SecondOf(P[n]))
      BY <2>5
    <3>2. GoalIn(d, b, First(n - 1)) /\ (b.second_expansion <=> d.second_expansion \/ Second(n - 1))
      BY <2>2, <3>1
    <3>3. Second(n) <=> Second(n - 1) \/ SecondOf(P[n])
      BY <2>1
    <3> HIDE DEF Second
    <3>4. DOMAIN First(n) = 1 .. n /\ DOMAIN First(n - 1) = 1 .. n - 1
          /\ (\A i \in 1 .. n - 1 : First(n)[i] = P[i] /\ First(n - 1)[i] = P[i]) /\ First(n)[n] = P[n]
      BY <1>3, <2>1
    <3>5. GoalIn(d, e, First(n))
      <4>1. CASE /\ b.default_target = d.default_target
                 /\ d.default_target # <<>> \/ d.default_goal_explicit
        BY <2>2, <2>5, <3>1, <4>1 DEF GoalIn, GoalAfter
      <4>2. CASE /\ b.default_target = d.default_target
                 /\ ~(d.default_target # <<>> \/ d.default_goal_explicit)
                 /\ \A i \in 1 .. n - 1 : FirstGoal(P[i].targets) = <<>>
        <5>1. e.default_target = FirstGoal(P[n].targets)
          BY <2>2, <3>1, <4>2 DEF GoalAfter
        <5>2. CASE FirstGoal(P[n].targets) = <<>>
          <6>1. \A i \in 1 .. n : FirstGoal(P[i].targets) = <<>>
            BY <2>1, <4>2, <5>2
          <6>2. \A i \in DOMAIN First(n) : FirstGoal(First(n)[i].targets) = <<>>
            BY <2>1, <3>4, <6>1
          <6> QED BY <2>2, <2>5, <4>2, <5>1, <5>2, <6>2 DEF GoalIn
        <5>3. CASE FirstGoal(P[n].targets) # <<>>
          <6>1. /\ n \in DOMAIN First(n) /\ FirstGoal(First(n)[n].targets) # <<>>
                /\ e.default_target = FirstGoal(First(n)[n].targets)
                /\ \A j \in 1 .. n - 1 : FirstGoal(First(n)[j].targets) = <<>>
            BY <2>1, <3>4, <4>2, <5>1, <5>3
          <6> QED BY <2>2, <2>5, <4>2, <6>1 DEF GoalIn
        <5> QED BY <5>2, <5>3
      <4>3. ASSUME d.default_target = <<>>, ~d.default_goal_explicit,
                   NEW i \in DOMAIN First(n - 1),
                   FirstGoal(First(n - 1)[i].targets) # <<>>,
                   b.default_target = FirstGoal(First(n - 1)[i].targets),
                   \A j \in 1 .. i - 1 : FirstGoal(First(n - 1)[j].targets) = <<>>
            PROVE  GoalIn(d, e, First(n))
        <5>1. e.default_target = b.default_target
          BY <3>1, <4>3 DEF GoalAfter
        <5>2. /\ i \in DOMAIN First(n) /\ First(n)[i] = First(n - 1)[i]
              /\ \A j \in 1 .. i - 1 : First(n)[j] = First(n - 1)[j]
          BY <2>1, <3>4, <4>3
        <5>3. /\ FirstGoal(First(n)[i].targets) # <<>>
              /\ e.default_target = FirstGoal(First(n)[i].targets)
              /\ \A j \in 1 .. i - 1 : FirstGoal(First(n)[j].targets) = <<>>
          BY <4>3, <5>1, <5>2
        <5> QED BY <2>2, <2>5, <4>3, <5>2, <5>3 DEF GoalIn
      <4>4. DOMAIN First(n - 1) = 1 .. n - 1 /\ \A i \in 1 .. n - 1 : First(n - 1)[i] = P[i]
        BY <3>4
      <4> QED BY <3>2, <4>1, <4>2, <4>3, <4>4 DEF GoalIn
    <3> QED BY <3>1, <3>2, <3>3, <3>5
  <2>8. d.stopped => e.stopped
    BY <2>2, <2>5
  <2> HIDE DEF Second
  <2> QED BY <2>1, <2>2, <2>4, <2>5, <2>6, <2>7, <2>8
<1>6. \A n \in 0 .. L : n \in T
  <2> HIDE DEF T
  <2> QED BY <1>2, <1>4, <1>5, Counting
<1>7. Holds(L)
  <2>1. L \in 0 .. L
    BY <1>2
  <2> HIDE DEF Holds
  <2> QED BY <1>6, <2>1
<1>8. Second(L) <=> \E i \in DOMAIN P : SecondOf(P[i])
  BY <1>2
<1> HIDE DEF Second
<1> QED BY <1>1, <1>3, <1>7, <1>8 DEF L, P, First

(* None of them names a prerequisite twice.                                *)
OnceIn(seen) == \A i \in DOMAIN seen : NamedOnce(seen[i])

(* What one more rule adds.                                                *)
LEMMA SeenAppend ==
  ASSUME NEW seen \in Seq(Rule), NEW rule \in Rule
  PROVE  /\ NormalOf(Append(seen, rule)) = NormalOf(seen) \cup ToSet(rule.prerequisites)
         /\ WeakOf(Append(seen, rule)) = WeakOf(seen) \cup ToSet(rule.order_only)
         /\ OnceIn(Append(seen, rule)) <=> OnceIn(seen) /\ NamedOnce(rule)
         /\ LastRecipe(Append(seen, rule)) = IF rule.recipe # <<>> THEN rule.recipe
                                             ELSE LastRecipe(seen)
<1> DEFINE v == Append(seen, rule)
           n == Len(seen)
<1>1. /\ v \in Seq(Rule) /\ v[n + 1] = rule /\ n \in Nat
      /\ DOMAIN v = 1 .. n + 1 /\ DOMAIN seen = 1 .. n
      /\ \A i \in 1 .. n : v[i] = seen[i]
  OBVIOUS
<1>2. 1 .. n + 1 = 1 .. n \cup {n + 1}
  BY <1>1
<1>3. LastRecipe(v) = IF rule.recipe # <<>> THEN rule.recipe ELSE LastRecipe(seen)
  <2> DEFINE c == CookedOf(seen)
             e == CookedOf(v)
  <2>1. /\ c = Select(seen, Cooked_) /\ c \in Seq(Rule)
        /\ e = Select(v, Cooked_)
    BY <1>1, CookedIs
  <2>2. e = IF rule.recipe # <<>> THEN Append(c, rule) ELSE c
    <3>1. rule \in Cooked_ <=> rule.recipe # <<>>
      BY DEF Cooked_
    <3> QED BY <2>1, <3>1, SelectAppend
  <2> HIDE DEF c, e
  <2>3. /\ Append(c, rule) # <<>> /\ Last(Append(c, rule)) = rule
    BY <2>1 DEF Last
  <2>4. /\ LastRecipe(v) = IF e = <<>> THEN <<>> ELSE Last(e).recipe
        /\ LastRecipe(seen) = IF c = <<>> THEN <<>> ELSE Last(c).recipe
    BY DEF LastRecipe, c, e
  <2> QED BY <2>2, <2>3, <2>4
<1> HIDE DEF v, n
<1>4. NormalOf(v) = NormalOf(seen) \cup ToSet(rule.prerequisites)
  BY <1>1, <1>2 DEF NormalOf
<1>5. WeakOf(v) = WeakOf(seen) \cup ToSet(rule.order_only)
  BY <1>1, <1>2 DEF WeakOf
<1>6. OnceIn(v) <=> OnceIn(seen) /\ NamedOnce(rule)
  BY <1>1, <1>2 DEF OnceIn
<1> QED BY <1>3, <1>4, <1>5, <1>6 DEF v

(* A target without rules has no prerequisites and no recipe.              *)
LEMMA SeenNone ==
  /\ NormalOf(<<>>) = {} /\ WeakOf(<<>>) = {} /\ OnceIn(<<>>) /\ LastRecipe(<<>>) = <<>>
<1>1. CookedOf(<<>>) = <<>>
  BY SelectEmpty DEF CookedOf
<1> QED BY <1>1 DEF NormalOf, WeakOf, OnceIn, LastRecipe

(* The only rule of a target is its own merge.                             *)
LEMMA FitsAlone ==
  ASSUME NEW rule \in Rule, NEW once, once => NamedOnce(rule)
  PROVE  Fits(rule, ToSet(rule.prerequisites), ToSet(rule.order_only), once, rule.recipe)
BY DEF Fits, NamedOnce

(* merge keeps what was merged so far and adds the new rule: none of the   *)
(* prerequisites is lost, normal ones win, the later recipe wins.          *)
LEMMA FitsMerge ==
  ASSUME NEW existing \in Rule, NEW rule \in Rule, NEW target, NEW normal, NEW weak,
         NEW once \in BOOLEAN, NEW recipe, Fits(existing, normal, weak, once, recipe)
  PROVE  Fits(Merge(existing, Own(rule, target)),
              normal \cup ToSet(rule.prerequisites), weak \cup ToSet(rule.order_only),
              once /\ NamedOnce(rule), IF rule.recipe # <<>> THEN rule.recipe ELSE recipe)
<1> DEFINE own == Own(rule, target)
           p == rule.prerequisites
           o == rule.order_only
           without == Without(p, existing.prerequisites)
           added == Distinct(without)
           after == IF own.recipe # <<>> THEN added \o existing.prerequisites
                    ELSE existing.prerequisites \o added
           kept == Without(existing.order_only, p)
           fresh == Without(o, existing.prerequisites)
           weaker == kept \o fresh
           m == Merge(existing, own)
<1>1. /\ own.prerequisites = p /\ own.order_only = o /\ own.recipe = rule.recipe
  BY FitsOwn
<1>2. /\ p \in Seq(FileName) /\ o \in Seq(FileName)
      /\ existing.prerequisites \in Seq(FileName) /\ existing.order_only \in Seq(FileName)
  BY RuleHolds
<1>3. m.prerequisites = after /\ m.order_only = weaker
      /\ m.recipe = IF rule.recipe # <<>> THEN rule.recipe ELSE existing.recipe
  <2> DEFINE cooks == own.recipe # <<>>
             dollar == existing.dollar \/ own.dollar
             cooked == IF cooks THEN own.recipe ELSE existing.recipe
             line == IF cooks THEN own.lineno ELSE existing.lineno
             siblings == IF own.grouped_siblings # <<>> THEN own.grouped_siblings
                         ELSE existing.grouped_siblings
             stem == IF own.static_stem # <<>> THEN own.static_stem ELSE existing.static_stem
             variables_ == existing.vars \o own.vars
             e == [existing EXCEPT !.prerequisites = after, !.order_only = weaker,
                     !.dollar = dollar, !.recipe = cooked, !.lineno = line,
                     !.grouped_siblings = siblings, !.static_stem = stem, !.vars = variables_]
  <2> HIDE DEF own
  <2>1. m = e
    BY <1>1 DEF Merge
  <2>2. cooked = IF rule.recipe # <<>> THEN rule.recipe ELSE existing.recipe
    BY <1>1
  <2> HIDE DEF after, weaker, dollar, cooked, line, siblings, stem, variables_, m
  <2>3. e.prerequisites = after /\ e.order_only = weaker /\ e.recipe = cooked
    BY DEF Rule
  <2> QED BY <2>1, <2>2, <2>3
<1> HIDE DEF m, own
<1>4. /\ without \in Seq(FileName) /\ ToSet(without) = ToSet(p) \ ToSet(existing.prerequisites)
      /\ kept \in Seq(FileName) /\ ToSet(kept) = ToSet(existing.order_only) \ ToSet(p)
      /\ fresh \in Seq(FileName) /\ ToSet(fresh) = ToSet(o) \ ToSet(existing.prerequisites)
  BY <1>2, WithoutType
<1> HIDE DEF without, kept, fresh
<1>5. added \in Seq(FileName) /\ ToSet(added) = ToSet(without) /\ IsInjective(added)
  BY <1>4, DistinctHolds
<1> HIDE DEF added
<1>6. ToSet(weaker) = ToSet(kept) \cup ToSet(fresh)
  BY <1>4, ConcatRange, SetRange
<1>7. /\ ToSet(added \o existing.prerequisites) = ToSet(added) \cup ToSet(existing.prerequisites)
      /\ ToSet(existing.prerequisites \o added) = ToSet(added) \cup ToSet(existing.prerequisites)
      /\ IsInjective(existing.prerequisites) =>
           /\ IsInjective(added \o existing.prerequisites)
           /\ IsInjective(existing.prerequisites \o added)
  <2>1. Range(added) \cap Range(existing.prerequisites) = {}
    BY <1>4, <1>5, SetRange
  <2> QED BY <1>2, <1>5, <2>1, ConcatRange, SetRange
<1>8. /\ ToSet(after) = ToSet(p) \cup ToSet(existing.prerequisites)
      /\ IsInjective(existing.prerequisites) => IsInjective(after)
  BY <1>4, <1>5, <1>7
<1> HIDE DEF after, weaker
<1>9. /\ ToSet(existing.prerequisites) = normal
      /\ weak \ normal \subseteq ToSet(existing.order_only) /\ ToSet(existing.order_only) \subseteq weak
      /\ once => IsInjective(existing.prerequisites) /\ ToSet(existing.order_only) = weak \ normal
      /\ existing.recipe = recipe
  BY DEF Fits
<1>10. ToSet(weaker) = (ToSet(existing.order_only) \ ToSet(p)) \cup (ToSet(o) \ normal)
  BY <1>4, <1>6, <1>9
<1>11. NamedOnce(rule) => ToSet(p) \cap ToSet(o) = {}
  BY DEF NamedOnce
<1> DEFINE np == ToSet(p)
           no == ToSet(o)
           wo == ToSet(existing.order_only)
<1>12. (weak \cup no) \ (normal \cup np) \subseteq ToSet(weaker)
  <2> HIDE DEF np, no, wo
  <2>1. ToSet(weaker) = (wo \ np) \cup (no \ normal)
    BY <1>10 DEF np, no, wo
  <2>2. weak \ normal \subseteq wo
    BY <1>9 DEF wo
  <2> QED BY <2>1, <2>2
<1>13. ToSet(weaker) \subseteq weak \cup no
  <2>1. wo \subseteq weak
    BY <1>9
  <2> QED BY <1>10, <2>1
<1>14. once /\ NamedOnce(rule) => ToSet(weaker) = (weak \cup no) \ (normal \cup np)
  <2> SUFFICES ASSUME once, NamedOnce(rule)
               PROVE  ToSet(weaker) = (weak \cup no) \ (normal \cup np)
    OBVIOUS
  <2>1. wo = weak \ normal /\ np \cap no = {}
    BY <1>9, <1>11
  <2>2. ToSet(weaker) = (wo \ np) \cup (no \ normal)
    BY <1>10
  <2> HIDE DEF np, no, wo
  <2> QED BY <2>1, <2>2
<1> QED
  <2>1. ToSet(m.prerequisites) = normal \cup ToSet(p)
    BY <1>3, <1>8, <1>9
  <2>2. once /\ NamedOnce(rule) => IsInjective(m.prerequisites)
    BY <1>3, <1>8, <1>9
  <2> QED BY <1>3, <1>9, <1>12, <1>13, <1>14, <2>1, <2>2 DEF Fits, m, own

(* What a rule makes of the rules of a target.                             *)
LEMMA ExplicitMakes ==
  ASSUME NEW d \in Base, NEW rule \in Rule, NEW t \in FileName, ~SpecialTarget(t),
         NEW normal, NEW weak, NEW once \in BOOLEAN, NEW recipe,
         ~rule.double_colon =>
           \/ /\ t \notin DOMAIN d.rules /\ normal = {} /\ weak = {} /\ recipe = <<>>
           \/ /\ Len(RulesOf(d, t)) = 1
              /\ Fits(RulesOf(d, t)[1], normal, weak, once, recipe)
  PROVE  Contains(rule.targets, t) /\ ~rule.double_colon =>
           /\ Len(RulesOf(ExplicitOf(d, rule), t)) = 1
           /\ Fits(RulesOf(ExplicitOf(d, rule), t)[1],
                   normal \cup ToSet(rule.prerequisites), weak \cup ToSet(rule.order_only),
                   once /\ NamedOnce(rule),
                   IF rule.recipe # <<>> THEN rule.recipe ELSE recipe)
<1> DEFINE L == Len(rule.targets)
           n1 == normal \cup ToSet(rule.prerequisites)
           w1 == weak \cup ToSet(rule.order_only)
           o1 == once /\ NamedOnce(rule)
           r1 == IF rule.recipe # <<>> THEN rule.recipe ELSE recipe
<1>1. PICK u \in [0 .. L -> Base] :
        /\ ExplicitOf(d, rule) = u[L] /\ u[0] = d
        /\ \A n \in 1 .. L : u[n] =
             IF SpecialTarget(rule.targets[n]) THEN u[n - 1]
             ELSE RegisterExplicit(u[n - 1], rule.targets[n], rule)
  BY ExplicitSteps
<1>2. L \in Nat
  BY RuleHolds
<1> DEFINE Met(n) == \E i \in 1 .. n : rule.targets[i] = t
           Made(b) == ~rule.double_colon => /\ Len(RulesOf(b, t)) = 1
                                            /\ Fits(RulesOf(b, t)[1], n1, w1, o1, r1)
           AsWas(b) == /\ RulesOf(b, t) = RulesOf(d, t)
                       /\ t \in DOMAIN b.rules <=> t \in DOMAIN d.rules
           Holds(n) == IF Met(n) THEN Made(u[n]) ELSE AsWas(u[n])
           T == {n \in 0 .. L : Holds(n)}
<1> HIDE DEF L
<1>3. 0 \in T
  <2>1. ~Met(0) /\ AsWas(u[0])
    BY <1>1
  <2> QED BY <1>2, <2>1
<1>4. Len(RulesOf(d, t)) = 1 /\ Fits(RulesOf(d, t)[1], normal, weak, once, recipe)
        => RulesOf(d, t) # <<>> /\ RulesOf(d, t)[1] \in Rule
  BY RulesOfType
<1>5. ASSUME NEW n \in 1 .. L, n - 1 \in T
      PROVE  n \in T
  <2> DEFINE b == u[n - 1]
             target == rule.targets[n]
             own == Own(rule, target)
             rules == RulesOf(b, target)
             new == IF rules = <<>> \/ rule.double_colon THEN Append(rules, own)
                    ELSE [rules EXCEPT ![1] = Merge(@, own)]
             e == SetRules(b, target, new)
  <2>1. b \in Base /\ Holds(n - 1) /\ n \in 0 .. L /\ own \in Rule /\ rules \in Seq(Rule)
    <3>1. b \in Base /\ Holds(n - 1) /\ n \in 0 .. L
      BY <1>1, <1>2, <1>5
    <3> HIDE DEF b
    <3> QED BY <3>1, OwnType, RulesOfType
  <2>2. Met(n) <=> Met(n - 1) \/ target = t
    BY <1>2
  <2>3. u[n] = IF SpecialTarget(target) THEN b ELSE e
    BY <1>1, RegisterExplicitIs
  <2>4. /\ \A x : RulesOf(e, x) = IF x = target THEN new ELSE RulesOf(b, x)
        /\ DOMAIN e.rules = DOMAIN b.rules \cup {target}
    <3> HIDE DEF b, new
    <3> QED BY <2>1, SetRulesIs
  <2> HIDE DEF b, e
  <2>5. CASE target # t
    <3>1. AsWas(b) => AsWas(u[n])
      <4> HIDE DEF new
      <4> QED BY <2>3, <2>4, <2>5
    <3>2. Made(b) => Made(u[n])
      <4>1. RulesOf(u[n], t) = RulesOf(b, t)
        <5> HIDE DEF new
        <5> QED BY <2>3, <2>4, <2>5
      <4> QED BY <4>1
    <3>3. IF Met(n - 1) THEN Made(b) ELSE AsWas(b)
      BY <2>1 DEF b
    <3> HIDE DEF Met, Made, AsWas
    <3> QED BY <2>1, <2>2, <2>5, <3>1, <3>2, <3>3
  <2>6. CASE target = t
    <3>1. u[n] = e /\ RulesOf(e, t) = new
      <4> HIDE DEF new
      <4> QED BY <2>3, <2>4, <2>6
    <3>2. Made(e)
      <4> SUFFICES ASSUME ~rule.double_colon
                   PROVE  /\ Len(RulesOf(e, t)) = 1
                          /\ Fits(RulesOf(e, t)[1], n1, w1, o1, r1)
        OBVIOUS
      <4>1. CASE Met(n - 1)
        <5>1. Len(rules) = 1 /\ Fits(rules[1], n1, w1, o1, r1)
          BY <2>1, <2>6, <4>1 DEF b
        <5>2. rules # <<>> /\ rules[1] \in Rule
          BY <2>1, <5>1
        <5>3. new = [rules EXCEPT ![1] = Merge(@, own)]
          BY <5>2
        <5>4. Len(new) = 1 /\ new[1] = Merge(rules[1], own)
          <6> HIDE DEF own, rules, b
          <6> QED BY <2>1, <5>1, <5>3
        <5>5. Fits(Merge(rules[1], own), n1 \cup ToSet(rule.prerequisites),
                   w1 \cup ToSet(rule.order_only), o1 /\ NamedOnce(rule),
                   IF rule.recipe # <<>> THEN rule.recipe ELSE r1)
          <6> DEFINE r0 == rules[1]
          <6>1. r0 \in Rule /\ Fits(r0, n1, w1, o1, r1) /\ o1 \in BOOLEAN
            BY <5>1, <5>2
          <6> HIDE DEF r0, n1, w1, o1, r1, rules
          <6>2. Fits(Merge(r0, Own(rule, target)), n1 \cup ToSet(rule.prerequisites),
                   w1 \cup ToSet(rule.order_only), o1 /\ NamedOnce(rule),
                   IF rule.recipe # <<>> THEN rule.recipe ELSE r1)
            BY <6>1, FitsMerge
          <6> QED BY <6>2 DEF r0
        <5>6. /\ n1 \cup ToSet(rule.prerequisites) = n1 /\ w1 \cup ToSet(rule.order_only) = w1
              /\ (o1 /\ NamedOnce(rule)) = o1
              /\ (IF rule.recipe # <<>> THEN rule.recipe ELSE r1) = r1
          OBVIOUS
        <5> HIDE DEF n1, w1, o1, r1, new, own, rules
        <5> QED BY <3>1, <5>4, <5>5, <5>6
      <4>2. CASE ~Met(n - 1)
        <5>1. AsWas(b)
          BY <2>1, <4>2 DEF b
        <5>2. rules = RulesOf(d, t)
          BY <2>6, <5>1
        <5>3. CASE /\ t \notin DOMAIN d.rules /\ normal = {} /\ weak = {} /\ recipe = <<>>
          <6>1. rules = <<>>
            BY <5>2, <5>3 DEF RulesOf
          <6>2. new = Append(rules, own)
            BY <6>1
          <6>3. Len(new) = 1 /\ new[1] = own
            <7> HIDE DEF own, rules
            <7> QED BY <6>1, <6>2
          <6>4. /\ own.prerequisites = rule.prerequisites /\ own.order_only = rule.order_only
                /\ own.recipe = rule.recipe
            BY FitsOwn
          <6>5. NamedOnce(own) <=> NamedOnce(rule)
            <7> HIDE DEF own
            <7> QED BY <6>4 DEF NamedOnce
          <6>6. Fits(own, ToSet(own.prerequisites), ToSet(own.order_only), o1, own.recipe)
            <7> HIDE DEF own
            <7> QED BY <2>1, <6>5, FitsAlone
          <6>7. /\ n1 = ToSet(own.prerequisites) /\ w1 = ToSet(own.order_only)
                /\ r1 = own.recipe
            <7> HIDE DEF own
            <7> QED BY <5>3, <6>4
          <6> HIDE DEF n1, w1, o1, r1, new, own, rules
          <6> QED BY <3>1, <6>3, <6>6, <6>7
        <5>4. CASE Len(RulesOf(d, t)) = 1 /\ Fits(RulesOf(d, t)[1], normal, weak, once, recipe)
          <6>1. rules # <<>> /\ Len(rules) = 1 /\ rules[1] \in Rule
                /\ Fits(rules[1], normal, weak, once, recipe)
            BY <1>4, <5>2, <5>4
          <6>2. new = [rules EXCEPT ![1] = Merge(@, own)]
            BY <6>1
          <6>3. Len(new) = 1 /\ new[1] = Merge(rules[1], own)
            <7> HIDE DEF own, rules, b
            <7> QED BY <2>1, <6>1, <6>2
          <6>4. Fits(Merge(rules[1], own), n1, w1, o1, r1)
            <7> DEFINE r0 == rules[1]
            <7>1. r0 \in Rule /\ Fits(r0, normal, weak, once, recipe)
              BY <6>1
            <7> HIDE DEF r0, rules
            <7>2. Fits(Merge(r0, Own(rule, target)), n1, w1, o1, r1)
              BY <7>1, FitsMerge
            <7> QED BY <7>2 DEF r0
          <6> HIDE DEF n1, w1, o1, r1, new, own, rules
          <6> QED BY <3>1, <6>3, <6>4
        <5> QED BY <5>3, <5>4
      <4> QED BY <4>1, <4>2
    <3> HIDE DEF Met, Made, AsWas
    <3> QED BY <2>1, <2>2, <2>6, <3>1, <3>2
  <2> QED BY <2>5, <2>6
<1>6. \A n \in 0 .. L : n \in T
  <2> HIDE DEF T
  <2> QED BY <1>2, <1>3, <1>5, Counting
<1>7. Holds(L)
  <2>1. L \in 0 .. L
    BY <1>2
  <2> HIDE DEF Holds
  <2> QED BY <1>6, <2>1
<1>8. Met(L) <=> Contains(rule.targets, t)
  BY DEF Contains, L
<1> HIDE DEF Met
<1> QED BY <1>1, <1>7, <1>8

(* The rules of a target are what the registered ones make.                *)
MergedAt(d, t) ==
  LET seen == GivenIn(d.log, t)
  IN  (\A i \in DOMAIN seen : ~seen[i].double_colon) =>
        \/ seen = <<>> /\ t \notin DOMAIN d.rules
        \/ /\ Len(RulesOf(d, t)) = 1
           /\ Fits(RulesOf(d, t)[1], NormalOf(seen), WeakOf(seen), OnceIn(seen), LastRecipe(seen))

(* Every ordinary target has what its rules make together.                 *)
Whole(d) == ~d.stopped => \A t \in FileName : ~SpecialTarget(t) => MergedAt(d, t)

(* What a target has depends on its own rules only.                        *)
LEMMA MergedSame ==
  ASSUME NEW d, NEW e, NEW t, RulesOf(e, t) = RulesOf(d, t),
         t \in DOMAIN e.rules <=> t \in DOMAIN d.rules,
         GivenIn(e.log, t) = GivenIn(d.log, t), MergedAt(d, t)
  PROVE  MergedAt(e, t)
BY DEF MergedAt

(* What targets have depends on the tables of explicit rules and the       *)
(* history only.                                                           *)
LEMMA WholeSame ==
  ASSUME NEW d, NEW e, Whole(d), e.rules = d.rules, e.log = d.log, d.stopped => e.stopped
  PROVE  Whole(e)
BY MergedSame DEF Whole, RulesOf

(* One step of a flush writes the rule to the history and does what        *)
(* register_rule does.                                                     *)
LEMMA LogOfNext ==
  ASSUME NEW d \in Base, NEW rule \in Rule
  PROVE  /\ d.stopped => RegisterNext(d, rule) = d
         /\ ~d.stopped =>
              /\ RegisterNext(d, rule).log = Append(d.log, rule)
              /\ RegisterNext(d, rule).rules = register_rule(d, rule).rules
              /\ RegisterNext(d, rule).stopped = register_rule(d, rule).stopped
              /\ RegisterNext(d, rule).pattern_rules = register_rule(d, rule).pattern_rules
              /\ RegisterNext(d, rule).builtin_pattern_rules_count
                   = register_rule(d, rule).builtin_pattern_rules_count
              /\ RegisterNext(d, rule).special_targets = register_rule(d, rule).special_targets
<1>1. CASE d.stopped
  BY <1>1 DEF RegisterNext
<1>2. CASE ~d.stopped
  <2> DEFINE b == register_rule(d, rule)
             longer == Append(d.log, rule)
             e == [b EXCEPT !.log = longer]
  <2>1. b \in Base /\ Quiet(d, b)
    BY RegisterType, RegisterEffect
  <2>2. RegisterNext(d, rule) = e
    BY <1>2, <2>1 DEF RegisterNext, Quiet
  <2> HIDE DEF b, longer
  <2>3. /\ e.log = longer /\ e.rules = b.rules /\ e.stopped = b.stopped
        /\ e.pattern_rules = b.pattern_rules /\ e.special_targets = b.special_targets
        /\ e.builtin_pattern_rules_count = b.builtin_pattern_rules_count
    BY <2>1 DEF Base, Database
  <2> HIDE DEF e
  <2> QED BY <1>2, <2>2, <2>3 DEF b, longer
<1> QED BY <1>1, <1>2

(* Registering a rule keeps what every target has in step with the         *)
(* history.                                                                *)
LEMMA WholeNext ==
  ASSUME NEW d \in Base, NEW rule \in Rule, Whole(d)
  PROVE  Whole(RegisterNext(d, rule))
<1> DEFINE e == RegisterNext(d, rule)
<1>1. CASE d.stopped
  BY <1>1, LogOfNext
<1>2. CASE ~d.stopped
  <2>1. /\ e.log = Append(d.log, rule) /\ e.rules = register_rule(d, rule).rules
        /\ e.stopped = register_rule(d, rule).stopped
    BY <1>2, LogOfNext
  <2> HIDE DEF e
  <2>2. SUFFICES ASSUME ~e.stopped, NEW t \in FileName, ~SpecialTarget(t)
                 PROVE  MergedAt(e, t)
    BY DEF Whole, e
  <2> DEFINE seen == GivenIn(d.log, t)
             now == GivenIn(e.log, t)
             mine == Contains(rule.targets, t) /\ ~is_pattern(rule)
  <2>3. /\ MergedAt(d, t) /\ d.log \in Seq(Rule) /\ seen \in Seq(Rule)
        /\ now = IF mine THEN Append(seen, rule) ELSE seen
    <3>1. d.log \in Seq(Rule)
      BY BaseHolds
    <3> QED BY <1>2, <2>1, <2>2, <3>1, GivenIs, GivenAppend DEF Whole
  <2>4. ~GroupWithoutRecipe(d, rule)
    <3>1. ASSUME GroupWithoutRecipe(d, rule)
          PROVE  FALSE
      <4>1. register_rule(d, rule) = [d EXCEPT !.stopped = TRUE]
        BY <3>1, RegisterIs
      <4>2. [d EXCEPT !.stopped = TRUE].stopped
        BY DEF Base, Database
      <4> QED BY <2>1, <2>2, <4>1, <4>2
    <3> QED BY <3>1
  <2>5. CASE is_pattern(rule)
    <3>1. register_rule(d, rule) = RegisterPattern(Started(d, rule), rule)
      BY <2>4, <2>5, RegisterIs
    <3>2. Started(d, rule) \in Base /\ Started(d, rule).rules = d.rules
      BY StartedType, StartedIs
    <3>3. e.rules = d.rules
      BY <2>1, <3>1, <3>2, RegisterPatternIs
    <3>4. now = seen
      BY <2>3, <2>5
    <3>5. RulesOf(e, t) = RulesOf(d, t) /\ (t \in DOMAIN e.rules <=> t \in DOMAIN d.rules)
      BY <3>3 DEF RulesOf
    <3> QED BY <2>3, <3>4, <3>5, MergedSame
  <2>6. CASE ~is_pattern(rule)
    <3> DEFINE b == Mentioned(d, rule)
               x == ExplicitOf(b, rule)
               once == OnceIn(seen)
               normal == NormalOf(seen)
               weak == WeakOf(seen)
               recipe == LastRecipe(seen)
    <3>1. e.rules = x.rules
      BY <2>1, <2>4, <2>6, RegisterIs
    <3>2. b \in Base /\ b.rules = d.rules
      BY StartedType, MentionedIs
    <3>3. RulesOf(b, t) = RulesOf(d, t)
      BY <3>2 DEF RulesOf
    <3>4. RulesOf(e, t) = RulesOf(x, t)
      BY <3>1 DEF RulesOf
    <3> HIDE DEF b
    <3>5. once \in BOOLEAN
      BY DEF OnceIn
    <3>6. ASSUME \A i \in DOMAIN seen : ~seen[i].double_colon
          PROVE  \/ t \notin DOMAIN b.rules /\ normal = {} /\ weak = {} /\ recipe = <<>>
                 \/ Len(RulesOf(b, t)) = 1 /\ Fits(RulesOf(b, t)[1], normal, weak, once, recipe)
      <4>1. \/ seen = <<>> /\ t \notin DOMAIN d.rules
            \/ Len(RulesOf(d, t)) = 1 /\ Fits(RulesOf(d, t)[1], normal, weak, once, recipe)
        BY <2>3, <3>6 DEF MergedAt
      <4> HIDE DEF seen
      <4> QED BY <3>2, <3>3, <4>1, SeenNone
    <3>7. CASE Contains(rule.targets, t)
      <4>1. now = Append(seen, rule)
        BY <2>3, <2>6, <3>7
      <4>2. SUFFICES ASSUME \A i \in DOMAIN now : ~now[i].double_colon
                     PROVE  /\ Len(RulesOf(e, t)) = 1
                            /\ Fits(RulesOf(e, t)[1], NormalOf(now), WeakOf(now), OnceIn(now),
                                    LastRecipe(now))
        BY DEF MergedAt
      <4>3. (\A i \in DOMAIN seen : ~seen[i].double_colon) /\ ~rule.double_colon
        <5> HIDE DEF seen, now
        <5> QED BY <2>3, <4>1, <4>2, OneMore
      <4>4. \/ t \notin DOMAIN b.rules /\ normal = {} /\ weak = {} /\ recipe = <<>>
            \/ Len(RulesOf(b, t)) = 1 /\ Fits(RulesOf(b, t)[1], normal, weak, once, recipe)
        BY <3>6, <4>3
      <4> HIDE DEF once, normal, weak, recipe
      <4>5. /\ Len(RulesOf(x, t)) = 1
            /\ Fits(RulesOf(x, t)[1],
                        normal \cup ToSet(rule.prerequisites), weak \cup ToSet(rule.order_only),
                        once /\ NamedOnce(rule),
                        IF rule.recipe # <<>> THEN rule.recipe ELSE recipe)
        BY <2>2, <3>2, <3>5, <3>7, <4>3, <4>4, ExplicitMakes
      <4>6. /\ NormalOf(now) = normal \cup ToSet(rule.prerequisites)
            /\ WeakOf(now) = weak \cup ToSet(rule.order_only)
            /\ OnceIn(now) <=> once /\ NamedOnce(rule)
            /\ LastRecipe(now) = IF rule.recipe # <<>> THEN rule.recipe ELSE recipe
        <5> HIDE DEF seen, now
        <5> QED BY <2>3, <4>1, SeenAppend DEF normal, weak, once, recipe
      <4>7. OnceIn(now) = (once /\ NamedOnce(rule))
        <5>1. OnceIn(now) \in BOOLEAN
          BY DEF OnceIn
        <5> HIDE DEF now
        <5> QED BY <4>6, <5>1
      <4> HIDE DEF x, now
      <4> QED BY <3>4, <4>5, <4>6, <4>7
    <3>8. CASE ~Contains(rule.targets, t)
      <4>1. now = seen
        BY <2>3, <3>8
      <4>2. RulesOf(x, t) = RulesOf(b, t) /\ (t \in DOMAIN x.rules <=> t \in DOMAIN b.rules)
        BY <3>2, <3>8, ExplicitOthers
      <4> HIDE DEF x
      <4> QED BY <2>3, <3>1, <3>2, <3>3, <3>4, <4>1, <4>2, MergedSame
    <3> QED BY <3>7, <3>8
  <2> QED BY <2>5, <2>6
<1> QED BY <1>1, <1>2

(* A variable of a target changes nothing of this.                         *)
LEMMA WholeVariable ==
  ASSUME NEW d \in Base, NEW target \in FileName, NEW n \in Nat,
         NEW placeholder \in Rule, placeholder.prerequisites = <<>>,
         placeholder.order_only = <<>>, placeholder.recipe = <<>>, Whole(d)
  PROVE  Whole(TargetVariable(d, target, placeholder, n))
<1> DEFINE rules == RulesOf(d, target)
           holders == IF rules = <<>> THEN <<placeholder>> ELSE rules
           new == [k \in DOMAIN holders |-> [holders[k] EXCEPT !.vars = Append(@, n)]]
           e == SetRules(d, target, new)
<1>1. TargetVariable(d, target, placeholder, n) = e
  BY DEF TargetVariable
<1>2. rules \in Seq(Rule)
  BY RulesOfType
<1>3. /\ holders \in Seq(Rule) /\ (rules # <<>> => holders = rules)
      /\ (rules = <<>> => Len(holders) = 1 /\ holders[1] = placeholder)
  <2> HIDE DEF rules
  <2> QED BY <1>2
<1> HIDE DEF rules, holders
<1>4. Len(new) = Len(holders)
  <2>1. DOMAIN holders = 1 .. Len(holders) /\ Len(holders) \in Nat
    BY <1>3
  <2> QED BY <2>1
<1>5. ASSUME Len(holders) = 1
      PROVE  /\ new[1].prerequisites = holders[1].prerequisites
             /\ new[1].order_only = holders[1].order_only
             /\ new[1].recipe = holders[1].recipe
  <2>1. 1 \in DOMAIN holders /\ holders[1] \in Rule
    BY <1>3, <1>5
  <2> DEFINE longer == Append(holders[1].vars, n)
  <2>2. new[1] = [holders[1] EXCEPT !.vars = longer]
    BY <2>1
  <2> HIDE DEF longer, new
  <2> QED BY <2>1, <2>2 DEF Rule
<1> HIDE DEF new
<1>6. /\ Silent(d, e) /\ DOMAIN e.rules = DOMAIN d.rules \cup {target}
      /\ \A t : RulesOf(e, t) = IF t = target THEN new ELSE RulesOf(d, t)
  BY SetRulesIs
<1>7. e.log = d.log /\ e.stopped = d.stopped
  BY <1>6 DEF Silent, Quiet
<1> HIDE DEF e
<1>8. SUFFICES ASSUME ~e.stopped, NEW t \in FileName, ~SpecialTarget(t)
               PROVE  MergedAt(e, t)
  BY <1>1 DEF Whole
<1>9. MergedAt(d, t)
  BY <1>7, <1>8 DEF Whole
<1>10. CASE t # target
  BY <1>6, <1>7, <1>9, <1>10, MergedSame
<1>11. CASE t = target
  <2> DEFINE seen == GivenIn(d.log, t)
  <2>1. GivenIn(e.log, t) = seen
    BY <1>7
  <2>2. SUFFICES ASSUME \A i \in DOMAIN seen : ~seen[i].double_colon
                 PROVE  /\ Len(new) = 1
                        /\ Fits(new[1], NormalOf(seen), WeakOf(seen), OnceIn(seen), LastRecipe(seen))
    BY <1>6, <1>11, <2>1 DEF MergedAt
  <2>3. \/ seen = <<>> /\ t \notin DOMAIN d.rules
        \/ /\ Len(rules) = 1
           /\ Fits(rules[1], NormalOf(seen), WeakOf(seen), OnceIn(seen), LastRecipe(seen))
    BY <1>9, <1>11, <2>2 DEF MergedAt, rules
  <2> HIDE DEF seen
  <2>4. CASE seen = <<>> /\ t \notin DOMAIN d.rules
    <3>1. rules = <<>>
      BY <1>11, <2>4 DEF rules, RulesOf
    <3>2. /\ Len(new) = 1 /\ new[1].prerequisites = <<>> /\ new[1].order_only = <<>>
          /\ new[1].recipe = <<>>
      BY <1>3, <1>4, <1>5, <3>1
    <3> QED BY <2>4, <3>2, SeenNone, EmptySet DEF Fits
  <2>5. CASE /\ Len(rules) = 1
             /\ Fits(rules[1], NormalOf(seen), WeakOf(seen), OnceIn(seen), LastRecipe(seen))
    <3>1. rules # <<>>
      <4>1. Len(rules) = 1
        BY <2>5
      <4> QED BY <4>1
    <3>2. holders = rules /\ Len(holders) = 1
      BY <1>3, <2>5, <3>1
    <3> QED BY <1>4, <1>5, <2>5, <3>2 DEF Fits
  <2> QED BY <2>3, <2>4, <2>5
<1> QED BY <1>10, <1>11

(* And looking for a default goal after them.                              *)
LEMMA TidyStarted ==
  ASSUME NEW d \in Base, NEW rule \in Rule, Tidy(d)
  PROVE  Tidy(Started(d, rule))
<1> DEFINE s == SpecialsOf(d, rule)
           e == DefaultFrom(s, rule.targets)
<1>1. s \in Base /\ Tidy(s) /\ rule.targets \in Seq(FileName)
  BY StartedType, TidySpecials, RuleHolds
<1> HIDE DEF s
<1>2. /\ e.pattern_rules = s.pattern_rules /\ e.special_targets = s.special_targets
      /\ e.builtin_pattern_rules_count = s.builtin_pattern_rules_count
  BY <1>1, DefaultIs
<1>3. Started(d, rule) = e
  BY DEF Started, s
<1> HIDE DEF e
<1> QED BY <1>1, <1>2, <1>3, TidySame

(* Noting mentioned files and a suffix rule keeps the tables tidy.         *)
LEMMA TidyMentioned ==
  ASSUME NEW d \in Base, NEW rule \in Rule, rule.lineno # 0, Tidy(d)
  PROVE  Tidy(Mentioned(d, rule))
<1> DEFINE s == Started(d, rule)
           e == Mentioned(d, rule)
           ps == s.pattern_rules
           n == s.builtin_pattern_rules_count
<1>1. s \in Base /\ Tidy(s)
  BY StartedType, TidyStarted
<1>2. /\ e.special_targets = s.special_targets /\ e.builtin_pattern_rules_count = n
      /\ \/ e.pattern_rules = ps
         \/ Len(rule.targets) = 1 /\ e.pattern_rules = Append(ps, suffix_to_pattern_rule(rule))
  BY MentionedIs
<1> HIDE DEF e, s
<1>3. CASE e.pattern_rules = ps
  BY <1>1, <1>2, <1>3, TidySame DEF e
<1>4. CASE Len(rule.targets) = 1 /\ e.pattern_rules = Append(ps, suffix_to_pattern_rule(rule))
  <2> DEFINE r == suffix_to_pattern_rule(rule)
  <2>1. r \in Rule
    BY <1>4, SuffixType
  <2>2. r.lineno # 0
    BY DEF suffix_to_pattern_rule, Rule
  <2> HIDE DEF r
  <2>3. ps \in Seq(Rule) /\ n \in 0 .. Len(ps) /\ SplitAt(ps, n)
    BY <1>1, SplitBase DEF Tidy
  <2>4. e.pattern_rules = Append(ps, r)
    BY <1>4 DEF r
  <2> HIDE DEF ps, n
  <2>5. SplitAt(Append(ps, r), n)
    BY <2>1, <2>2, <2>3, SplitAppend
  <2>6. Apart(s)
    BY <1>1 DEF Tidy
  <2>7. Tidy(e)
    BY <1>2, <2>4, <2>5, <2>6 DEF Tidy, Apart, Names_of
  <2> QED BY <2>7 DEF e
<1> QED BY <1>2, <1>3, <1>4

(* Registering a rule that has a line keeps the tables tidy.               *)
LEMMA TidyNext ==
  ASSUME NEW d \in Base, NEW rule \in Rule, rule.lineno # 0, Tidy(d)
  PROVE  Tidy(RegisterNext(d, rule))
<1> DEFINE b == register_rule(d, rule)
           e == RegisterNext(d, rule)
<1>1. Tidy(b)
  <2>1. CASE GroupWithoutRecipe(d, rule)
    <3>1. b = [d EXCEPT !.stopped = TRUE]
      BY <2>1, RegisterIs
    <3>2. /\ b.pattern_rules = d.pattern_rules /\ b.special_targets = d.special_targets
          /\ b.builtin_pattern_rules_count = d.builtin_pattern_rules_count
      <4> HIDE DEF b
      <4> QED BY <3>1 DEF Base, Database
    <3> HIDE DEF b
    <3> QED BY <3>2, TidySame DEF b
  <2>2. CASE ~GroupWithoutRecipe(d, rule) /\ is_pattern(rule)
    <3>1. b = RegisterPattern(Started(d, rule), rule)
      BY <2>2, RegisterIs
    <3>2. Started(d, rule) \in Base /\ Tidy(Started(d, rule))
      BY StartedType, TidyStarted
    <3> QED BY <3>1, <3>2, TidyPattern
  <2>3. CASE ~GroupWithoutRecipe(d, rule) /\ ~is_pattern(rule)
    <3> DEFINE m == Mentioned(d, rule)
               x == ExplicitOf(m, rule)
    <3>1. b = x
      BY <2>3, RegisterIs
    <3>2. m \in Base /\ Tidy(m)
      BY StartedType, TidyMentioned
    <3> HIDE DEF m
    <3>3. Silent(m, x)
      BY <3>2, ExplicitIs
    <3> HIDE DEF x, b
    <3>4. Tidy(x)
      BY <3>2, <3>3, TidySame DEF Silent
    <3> QED BY <3>1, <3>4 DEF b
  <2> QED BY <2>1, <2>2, <2>3
<1>2. CASE d.stopped
  BY <1>2, LogOfNext
<1>3. CASE ~d.stopped
  <2>1. /\ e.pattern_rules = b.pattern_rules
        /\ e.builtin_pattern_rules_count = b.builtin_pattern_rules_count
        /\ e.special_targets = b.special_targets
    BY <1>3, LogOfNext
  <2> HIDE DEF b, e
  <2> QED BY <1>1, <2>1, TidySame DEF e
<1> QED BY <1>2, <1>3

(* The databases that agree with what was registered.                      *)
Sound == {d \in Base : Whole(d) /\ Tidy(d)}

(* A change of other fields keeps a database in agreement.                 *)
LEMMA SoundSame ==
  ASSUME NEW d \in Sound, NEW e \in Base, e.rules = d.rules, e.log = d.log,
         e.pattern_rules = d.pattern_rules, e.special_targets = d.special_targets,
         e.builtin_pattern_rules_count = d.builtin_pattern_rules_count,
         d.stopped => e.stopped
  PROVE  e \in Sound
BY WholeSame, TidySame DEF Sound

(* Registering a rule that has a line keeps a database in agreement.       *)
LEMMA SoundNext ==
  ASSUME NEW d \in Sound, NEW rule \in Rule, rule.lineno # 0
  PROVE  RegisterNext(d, rule) \in Sound
<1>1. d \in Base /\ Whole(d) /\ Tidy(d)
  BY DEF Sound
<1>2. Whole(RegisterNext(d, rule)) /\ Tidy(RegisterNext(d, rule))
      /\ RegisterNext(d, rule) \in Base
  BY <1>1, WholeNext, TidyNext, NextType
<1> QED BY <1>2 DEF Sound

(* The parsers whose pending rules have lines.                             *)
NumberedFrame == {f \in Frame : Numbered(f.current_rule) /\ Numbered(f.siblings)}

(* The pending rules of a parser, one by one.                              *)
LEMMA PendingIs ==
  ASSUME NEW f \in Frame, f.current_rule # <<>>
  PROVE  /\ Len(PendingRules(f)) = Len(f.siblings) + 1
         /\ Len(f.siblings) \in Nat /\ Len(f.current_rule) = 1 /\ f.current_rule[1] \in Rule
         /\ DOMAIN f.siblings = 1 .. Len(f.siblings)
         /\ \A i \in 1 .. Len(f.siblings) : f.siblings[i] \in Rule
         /\ PendingRules(f)[Len(f.siblings) + 1] = f.current_rule[1]
         /\ \A i \in 1 .. Len(f.siblings) : PendingRules(f)[i]
              = [f.siblings[i] EXCEPT !.recipe = f.current_rule[1].recipe]
<1> DEFINE s == f.siblings
           c == f.current_rule
           recipe == c[1].recipe
           told == [i \in DOMAIN s |-> [s[i] EXCEPT !.recipe = recipe]]
<1>1. s \in Seq(Rule) /\ c \in Seq(Rule) /\ Len(c) <= 1
  BY FrameHolds DEF Coherent
<1>2. PendingRules(f) = told \o c
  BY DEF PendingRules
<1>3. c # <<>>
  OBVIOUS
<1> HIDE DEF s, c
<1>4. Len(c) = 1 /\ c[1] \in Rule
  <2>1. Len(c) \in Nat /\ Len(c) # 0
    BY <1>1, <1>3, EmptySeq
  <2> DEFINE n == Len(c)
  <2>2. n = 1
    <3>1. n \in Nat /\ n <= 1 /\ n # 0
      BY <1>1, <2>1
    <3> HIDE DEF n
    <3> QED BY <3>1
  <2> HIDE DEF n
  <2>3. Len(c) = 1
    BY <2>2 DEF n
  <2> HIDE DEF recipe, told
  <2>4. 1 \in 1 .. Len(c)
    BY <2>3
  <2>5. c[1] \in Rule
    BY <1>1, <2>4, ElementOfSeq
  <2> QED BY <2>3, <2>5
<1>5. Len(s) \in Nat /\ DOMAIN s = 1 .. Len(s) /\ \A i \in 1 .. Len(s) : s[i] \in Rule
  BY <1>1
<1>6. recipe \in Seq(Nat)
  BY <1>4, RuleHolds
<1> HIDE DEF recipe
<1>7. \A i \in 1 .. Len(s) : [s[i] EXCEPT !.recipe = recipe] \in Rule
  BY <1>5, <1>6 DEF Rule
<1>8. told \in Seq(Rule) /\ Len(told) = Len(s)
      /\ \A i \in 1 .. Len(s) : told[i] = [s[i] EXCEPT !.recipe = recipe]
  <2>1. told = [i \in 1 .. Len(s) |-> told[i]]
    BY <1>5
  <2>2. \A i \in 1 .. Len(s) : told[i] = [s[i] EXCEPT !.recipe = recipe]
    BY <1>5
  <2> HIDE DEF told
  <2> QED BY <1>5, <1>7, <2>1, <2>2, IsList
<1> HIDE DEF told
<1>9. /\ Len(told \o c) = Len(s) + 1 /\ (told \o c)[Len(s) + 1] = c[1]
      /\ \A i \in 1 .. Len(s) : (told \o c)[i] = told[i]
  <2>1. /\ Len(told \o c) = Len(told) + Len(c)
        /\ \A i \in 1 .. Len(told) + Len(c) :
             (told \o c)[i] = IF i <= Len(told) THEN told[i] ELSE c[i - Len(told)]
    BY <1>1, <1>8
  <2>2. Len(s) + 1 \in 1 .. Len(s) + 1 /\ ~(Len(s) + 1 <= Len(s)) /\ (Len(s) + 1) - Len(s) = 1
        /\ \A i \in 1 .. Len(s) : i \in 1 .. Len(s) + 1 /\ i <= Len(s)
    BY <1>5
  <2> QED BY <1>4, <1>8, <2>1, <2>2
<1> QED BY <1>2, <1>4, <1>5, <1>8, <1>9 DEF s, c, recipe

(* Pending rules have lines when those of the parser do.                   *)
LEMMA PendingNumbered ==
  ASSUME NEW f \in NumberedFrame
  PROVE  f \in Frame /\ PendingRules(f) \in Seq(Rule) /\ Numbered(PendingRules(f))
<1>1. f \in Frame /\ Numbered(f.current_rule) /\ Numbered(f.siblings)
  BY DEF NumberedFrame
<1>2. PendingRules(f) \in Seq(Rule)
  BY <1>1, PendingType
<1>3. CASE f.current_rule = <<>>
  <2>1. PendingRules(f) = <<>>
    BY <1>3 DEF PendingRules
  <2> QED BY <1>1, <1>2, <2>1 DEF Numbered
<1>4. CASE f.current_rule # <<>>
  <2> DEFINE n == Len(f.siblings)
             P == PendingRules(f)
  <2>1. /\ Len(P) = n + 1 /\ n \in Nat /\ Len(f.current_rule) = 1
        /\ DOMAIN f.siblings = 1 .. n /\ P[n + 1] = f.current_rule[1]
        /\ \A i \in 1 .. n : f.siblings[i] \in Rule
        /\ \A i \in 1 .. n : P[i] = [f.siblings[i] EXCEPT !.recipe = f.current_rule[1].recipe]
    BY <1>1, <1>4, PendingIs
  <2> HIDE DEF n, P
  <2>2. \A i \in 1 .. n : P[i].lineno # 0
    BY <1>1, <2>1 DEF Numbered, Rule
  <2>3. P[n + 1].lineno # 0
    <3>1. 1 \in DOMAIN f.current_rule
      BY <1>1, <2>1, FrameHolds
    <3> QED BY <1>1, <2>1, <3>1 DEF Numbered
  <2>4. DOMAIN P = 1 .. n + 1
    BY <1>2, <2>1 DEF P
  <2>5. 1 .. n + 1 = 1 .. n \cup {n + 1}
    BY <2>1
  <2> QED BY <1>1, <1>2, <2>2, <2>3, <2>4, <2>5 DEF Numbered, P
<1> QED BY <1>3, <1>4

(* A flush keeps a database in agreement.                                  *)
LEMMA SoundRegistered ==
  ASSUME NEW d \in Sound, NEW f \in NumberedFrame
  PROVE  Registered(d, f) \in Sound
<1> DEFINE P == PendingRules(f)
           L == Len(P)
<1>1. P \in Seq(Rule) /\ Numbered(P) /\ d \in Base
  BY PendingNumbered DEF Sound
<1>2. PICK u \in [0 .. L -> Base] :
        /\ Registered(d, f) = u[L] /\ u[0] = d
        /\ \A n \in 1 .. L : u[n] = RegisterNext(u[n - 1], P[n])
  BY <1>1, RegisteredSteps
<1>3. L \in Nat /\ \A n \in 1 .. L : P[n] \in Rule /\ P[n].lineno # 0
  <2> HIDE DEF P
  <2> QED BY <1>1 DEF Numbered
<1> HIDE DEF P, L
<1> DEFINE T == {n \in 0 .. L : u[n] \in Sound}
<1>4. 0 \in T
  BY <1>2, <1>3
<1>5. ASSUME NEW n \in 1 .. L, n - 1 \in T
      PROVE  n \in T
  <2>1. u[n - 1] \in Sound /\ n \in 0 .. L
    BY <1>3, <1>5
  <2> QED BY <1>2, <1>3, <2>1, SoundNext
<1>6. \A n \in 0 .. L : n \in T
  <2> HIDE DEF T
  <2> QED BY <1>3, <1>4, <1>5, Counting
<1>7. L \in 0 .. L
  BY <1>3
<1> QED BY <1>2, <1>6, <1>7

(* Only the open rule and its siblings matter.                             *)
LEMMA NumberedSame ==
  \A f \in NumberedFrame : \A g \in Frame :
    g.current_rule = f.current_rule /\ g.siblings = f.siblings => g \in NumberedFrame
BY DEF NumberedFrame, Numbered

(* A parser with no open rule.                                             *)
LEMMA NumberedNone ==
  \A g \in Frame : g.current_rule = <<>> /\ g.siblings = <<>> => g \in NumberedFrame
BY DEF NumberedFrame, Numbered

(* A target-specific variable keeps a database in agreement, though it may *)
(* create a rule.                                                          *)
LEMMA SoundVariable ==
  ASSUME NEW d \in Sound, NEW target \in FileName \ {<<>>}, NEW n \in Nat
  PROVE  TargetVariable(d, target, Placeholder(target), n) \in Sound
<1> DEFINE p == Placeholder(target)
           e == TargetVariable(d, target, p, n)
<1>1. d \in Base /\ Whole(d) /\ Tidy(d)
  BY DEF Sound
<1>2. p \in Rule /\ p.prerequisites = <<>> /\ p.order_only = <<>> /\ p.recipe = <<>>
  BY PlaceholderType DEF Placeholder, NoRule
<1> HIDE DEF p
<1>3. e \in Base /\ Whole(e)
  BY <1>1, <1>2, TargetVariableType, WholeVariable
<1>4. Silent(d, e)
  <2> DEFINE holders == IF RulesOf(d, target) = <<>> THEN <<p>> ELSE RulesOf(d, target)
             rules == [k \in DOMAIN holders |-> [holders[k] EXCEPT !.vars = Append(@, n)]]
  <2>1. e = SetRules(d, target, rules)
    BY DEF TargetVariable
  <2> HIDE DEF rules
  <2> QED BY <1>1, <2>1, SetRulesIs
<1> HIDE DEF e
<1>5. Tidy(e)
  BY <1>1, <1>4, TidySame DEF Silent
<1> QED BY <1>3, <1>5 DEF Sound, e, p

(* The database and the parsers while makefiles are read.                  *)
Agreeing == db \in Sound /\ frames \in Seq(NumberedFrame)

(* The running parser is determined by the stack.                          *)
LEMMA SetTopSame ==
  ASSUME frames \in Seq(Frame), frames # <<>>, NEW f \in Frame, NEW g, SetTop(f) = SetTop(g)
  PROVE  f = g
<1> DEFINE rest == Front(frames)
<1>1. rest \in Seq(Frame)
  BY SetTopIn
<1> HIDE DEF rest
<1>2. Append(rest, f) = Append(rest, g)
  BY DEF SetTop, rest
<1>3. Append(rest, f)[Len(rest) + 1] = f /\ Append(rest, g)[Len(rest) + 1] = g
  BY <1>1
<1> QED BY <1>2, <1>3

(* The end of a line keeps the agreement.                                  *)
LEMMA SoundEnd ==
  ASSUME frames \in Seq(NumberedFrame), frames # <<>>, NEW f \in NumberedFrame, NEW d \in Sound,
         NEW table, NEW evals, NEW recipe \in BOOLEAN, EndLine(f, d, table, evals, recipe)
  PROVE  db' \in Sound /\ frames' \in Seq(NumberedFrame)
<1>1. /\ frames' = SetTop(Ended(f, evals, recipe))
      /\ db' = Registered(d, f) \/ db' = d
  BY EndLineIs
<1>2. f \in Frame
  BY DEF NumberedFrame
<1>3. Ended(f, evals, recipe) \in NumberedFrame
  BY <1>2, EndedHolds, NumberedSame, NumberedNone
<1> QED BY <1>1, <1>3, SoundRegistered, SetTopIn

(* What holds of the running parser when a line is read.                   *)
LEMMA TakenNumbered ==
  ASSUME Types, Agreeing, CanRead
  PROVE  /\ frames # <<>> /\ Top \in NumberedFrame /\ Taken \in NumberedFrame
         /\ Flushed(Taken) \in NumberedFrame
         /\ Registered(db, Taken) \in Sound
         /\ \A g \in Frame : g.current_rule = Top.current_rule /\ g.siblings = Top.siblings
                             => g \in NumberedFrame
         /\ \A g \in NumberedFrame : SetTop(g) \in Seq(NumberedFrame)
<1>1. frames # <<>> /\ Taken \in Frame /\ Taken.current_rule = Top.current_rule
      /\ Taken.siblings = Top.siblings
  BY TakenHolds
<1>2. Top \in NumberedFrame /\ Top \in Frame /\ \A g \in NumberedFrame : SetTop(g) \in Seq(NumberedFrame)
  BY <1>1, SetTopIn, TakenHolds DEF Agreeing
<1>3. Taken \in NumberedFrame
  BY <1>1, <1>2, NumberedSame
<1>4. Flushed(Taken) \in NumberedFrame
  BY <1>1, FlushedType, NumberedNone
<1>5. Registered(db, Taken) \in Sound
  BY <1>3, SoundRegistered DEF Agreeing
<1> QED BY <1>1, <1>2, <1>3, <1>4, <1>5, NumberedSame

(* A parser that opens rules with lines.                                   *)
LEMMA OpenedNumbered ==
  ASSUME Types, CanRead, NEW rule \in Rule, rule.lineno # 0,
         NEW siblings \in Seq(Rule), Numbered(siblings)
  PROVE  Opened(rule, siblings) \in NumberedFrame
<1> DEFINE f == Opened(rule, siblings)
           one == <<rule>>
<1>1. f \in Frame /\ f.current_rule = one /\ f.siblings = siblings
  BY OpenedType
<1>2. Numbered(one)
  BY DEF Numbered
<1> HIDE DEF f, one
<1> QED BY <1>1, <1>2 DEF NumberedFrame, f

(* Conditionals leave the database and the open rule alone.                *)
LEMMA ConditionalNumbered ==
  ASSUME Types, Agreeing, CanRead, NEW line \in Lines,
         ReadConditional(line) \/ ReadElse(line) \/ ReadEndif(line)
  PROVE  db' \in Sound /\ frames' \in Seq(NumberedFrame)
<1>1. db' = db /\ \E stack : frames' = SetTop([Taken EXCEPT !.conditional_stack = stack])
                             \/ frames' = SetTop(Taken)
  BY DEF ReadConditional, ReadElse, ReadEndif
<1>2. PICK stack : frames' = SetTop([Taken EXCEPT !.conditional_stack = stack])
                   \/ frames' = SetTop(Taken)
  BY <1>1
<1>3. Taken \in Frame /\ Taken \in ParserType /\ frames \in Seq(Frame) /\ frames # <<>>
  BY TakenHolds DEF Frame, Types
<1>4. \/ frames' = frames
      \/ \E g \in Frame : g.of = Top.of /\ frames' = SetTop(g)
  BY ConditionalType DEF Read
<1>5. CASE frames' = frames \/ frames' = SetTop(Taken)
  BY <1>1, <1>5, TakenNumbered DEF Agreeing
<1>6. CASE frames' # frames /\ frames' = SetTop([Taken EXCEPT !.conditional_stack = stack])
  <2>1. PICK g \in Frame : frames' = SetTop(g)
    BY <1>4, <1>6
  <2>2. g = [Taken EXCEPT !.conditional_stack = stack]
    BY <1>3, <1>6, <2>1, SetTopSame
  <2>3. g.current_rule = Taken.current_rule /\ g.siblings = Taken.siblings
    BY <1>3, <2>2 DEF ParserType
  <2>4. g \in NumberedFrame
    BY <2>3, TakenNumbered, NumberedSame
  <2> QED BY <1>1, <2>1, <2>4, TakenNumbered DEF Agreeing
<1> QED BY <1>2, <1>5, <1>6

(* An error keeps the agreement.                                           *)
LEMMA StoppedSound ==
  ASSUME NEW d \in Sound
  PROVE  [d EXCEPT !.stopped = TRUE] \in Sound
<1> DEFINE e == [d EXCEPT !.stopped = TRUE]
<1>1. d \in Base
  BY DEF Sound
<1>2. e \in Base
  BY <1>1, BaseWith
<1>3. /\ e.rules = d.rules /\ e.log = d.log /\ e.pattern_rules = d.pattern_rules
      /\ e.special_targets = d.special_targets
      /\ e.builtin_pattern_rules_count = d.builtin_pattern_rules_count
  BY <1>1 DEF Base, Database
<1>4. d.stopped => e.stopped
  BY <1>1 DEF Base, Database
<1> HIDE DEF e
<1> QED BY <1>2, <1>3, <1>4, SoundSame DEF e

(* A rule line, before its end, keeps the agreement.                       *)
LEMMA GoalSound ==
  ASSUME Types, Agreeing, CanRead, NEW line \in Lines, line.kind = "rule"
  PROVE  GoalStarted(line) \in Sound
<1> DEFINE d == Registered(db, Taken)
           v == d.posix_mode \/ Contains(RuleOf(line).targets, <<"POSIX">>)
           p == [d EXCEPT !.posix_mode = v]
           targets == RuleOf(line).targets
           e == DefaultFrom(p, targets)
<1>1. d \in Sound /\ d \in Base /\ v \in BOOLEAN
  <2>1. d \in Sound
    BY TakenNumbered
  <2>2. d.posix_mode \in BOOLEAN
    BY <2>1, BaseHolds DEF Sound
  <2> QED BY <2>1, <2>2 DEF Sound
<1>2. GoalStarted(line) = e
  BY DEF GoalStarted
<1>3. targets \in Seq(FileName)
  BY RuleOfType, RuleHolds
<1> HIDE DEF d, v, targets
<1>4. /\ p.rules = d.rules /\ p.log = d.log /\ p.pattern_rules = d.pattern_rules
      /\ p.special_targets = d.special_targets /\ p.stopped = d.stopped
      /\ p.builtin_pattern_rules_count = d.builtin_pattern_rules_count
  BY <1>1 DEF Base, Database
<1>5. p \in Base
  BY <1>1, BaseWith
<1> HIDE DEF p
<1>6. /\ e.rules = p.rules /\ e.log = p.log /\ e.pattern_rules = p.pattern_rules
      /\ e.special_targets = p.special_targets /\ e.stopped = p.stopped
      /\ e.builtin_pattern_rules_count = p.builtin_pattern_rules_count
  BY <1>3, <1>5, DefaultIs DEF Quiet
<1>7. e \in Base
  BY <1>3, <1>5, DefaultFromType
<1> HIDE DEF e
<1> QED BY <1>1, <1>2, <1>4, <1>6, <1>7, SoundSame

(* An assignment to .DEFAULT_GOAL keeps the agreement.                     *)
LEMMA AssignedSound ==
  ASSUME Types, Agreeing, CanRead, NEW a \in Assignment
  PROVE  AssignedBase(a) \in Sound
<1> DEFINE d == Registered(db, Taken)
           e == SetGoal(d, a, Goal(a))
<1>1. d \in Sound /\ d \in Base /\ AssignedBase(a) \in Base
  BY TakenNumbered, AssignedType DEF Sound
<1>2. CASE Special_goal(a)
  <2>1. AssignedBase(a) = e
    BY <1>2 DEF AssignedBase
  <2> HIDE DEF d
  <2>2. /\ e.rules = d.rules /\ e.log = d.log /\ e.pattern_rules = d.pattern_rules
        /\ e.special_targets = d.special_targets /\ (d.stopped => e.stopped)
        /\ e.builtin_pattern_rules_count = d.builtin_pattern_rules_count
    BY <1>1 DEF SetGoal, Base, Database
  <2> HIDE DEF e
  <2> QED BY <1>1, <2>1, <2>2, SoundSame
<1>3. CASE ~Special_goal(a)
  BY <1>1, <1>3 DEF AssignedBase
<1> QED BY <1>2, <1>3

(* A vpath line keeps the agreement.                                       *)
LEMMA VpathSound ==
  ASSUME NEW d \in Sound, NEW v \in Seq(Seq(Seq(STRING)))
  PROVE  [d EXCEPT !.vpath = v] \in Sound
<1> DEFINE e == [d EXCEPT !.vpath = v]
<1>1. d \in Base
  BY DEF Sound
<1>2. e \in Base
  BY <1>1, BaseWith
<1>3. /\ e.rules = d.rules /\ e.log = d.log /\ e.pattern_rules = d.pattern_rules
      /\ e.special_targets = d.special_targets /\ e.stopped = d.stopped
      /\ e.builtin_pattern_rules_count = d.builtin_pattern_rules_count
  BY <1>1 DEF Base, Database
<1> HIDE DEF e
<1> QED BY <1>2, <1>3, SoundSame DEF e

(* An export line keeps the agreement.                                     *)
LEMMA ExportSound ==
  ASSUME Types, Agreeing, NEW line
  PROVE  ExportBase(line) \in Base => ExportBase(line) \in Sound
<1> DEFINE e == ExportBase(line)
<1>1. db \in Base /\ db \in Sound
  BY DEF Agreeing, Sound
<1>2. /\ e.rules = db.rules /\ e.log = db.log /\ e.pattern_rules = db.pattern_rules
      /\ e.special_targets = db.special_targets /\ e.stopped = db.stopped
      /\ e.builtin_pattern_rules_count = db.builtin_pattern_rules_count
  BY <1>1 DEF Base, Database, ExportBase
<1> HIDE DEF e
<1> QED BY <1>1, <1>2, SoundSame DEF e

(* The rules of a static pattern line have its line.                       *)
LEMMA StaticNumbered ==
  ASSUME Types, CanRead, NEW line \in Lines, line.kind = "static", StaticOf(line) # <<>>
  PROVE  Opened(Last(StaticOf(line)), Front(StaticOf(line))) \in NumberedFrame
<1> DEFINE read == StaticOf(line)
           last == Last(read)
           front == Front(read)
<1>1. read \in Seq(Rule) /\ \A i \in 1 .. Len(read) : read[i].lineno = lineno + 1
  BY StaticOfType
<1>2. lineno \in Nat
  BY DEF Types
<1>3. /\ last \in Rule /\ front \in Seq(Rule) /\ Len(read) \in Nat \ {0} /\ last = read[Len(read)]
      /\ Len(front) = Len(read) - 1 /\ \A i \in 1 .. Len(read) - 1 : front[i] = read[i]
  <2> HIDE DEF read
  <2> QED BY <1>1, LastFront DEF read
<1> HIDE DEF last, front, read
<1>4. last.lineno # 0
  <2>1. Len(read) \in 1 .. Len(read) /\ lineno + 1 # 0
    BY <1>2, <1>3
  <2> QED BY <1>1, <1>3, <2>1
<1>5. Numbered(front)
  <2>1. DOMAIN front = 1 .. Len(read) - 1 /\ lineno + 1 # 0
        /\ \A i \in 1 .. Len(read) - 1 : i \in 1 .. Len(read)
    BY <1>2, <1>3
  <2> QED BY <1>1, <1>3, <2>1 DEF Numbered
<1>6. Opened(last, front) \in NumberedFrame
  BY <1>3, <1>4, <1>5, OpenedNumbered
<1> QED BY <1>6 DEF last, front, read

(* A recipe line changes the line of no rule.                              *)
LEMMA LongerNumbered ==
  ASSUME lineno \in Nat, NEW rules \in Seq(Rule), Numbered(rules)
  PROVE  Numbered(LongerAll(rules))
<1>1. /\ LongerAll(rules) \in Seq(Rule) /\ Len(LongerAll(rules)) = Len(rules)
      /\ \A i \in 1 .. Len(rules) : LongerAll(rules)[i] = Longer(rules[i])
  BY LongerAllType
<1>2. DOMAIN LongerAll(rules) = 1 .. Len(rules) /\ DOMAIN rules = 1 .. Len(rules)
      /\ \A i \in 1 .. Len(rules) : rules[i] \in Rule
  BY <1>1
<1>3. \A i \in 1 .. Len(rules) : LongerAll(rules)[i].lineno = rules[i].lineno
  BY <1>1, <1>2, LongerType
<1> QED BY <1>2, <1>3 DEF Numbered

(* The parser after a recipe line.                                         *)
LEMMA CookingNumbered ==
  ASSUME Types, Agreeing, CanRead
  PROVE  Cooking \in NumberedFrame
<1>1. /\ Cooking \in Frame /\ Cooking.current_rule = LongerAll(Top.current_rule)
      /\ Cooking.siblings = LongerAll(Top.siblings)
  BY CookingType
<1>2. Top \in NumberedFrame /\ Top \in Frame /\ lineno \in Nat
  BY TakenNumbered, TakenHolds DEF Types
<1>3. Top.current_rule \in Seq(Rule) /\ Top.siblings \in Seq(Rule)
  BY <1>2, FrameHolds
<1>4. Numbered(Top.current_rule) /\ Numbered(Top.siblings)
  BY <1>2 DEF NumberedFrame
<1>5. Numbered(Cooking.current_rule) /\ Numbered(Cooking.siblings)
  BY <1>1, <1>2, <1>3, <1>4, LongerNumbered
<1> QED BY <1>1, <1>5 DEF NumberedFrame

(* Every line keeps the agreement.                                         *)
LEMMA LineSound ==
  ASSUME Types, Agreeing, CanRead, NEW line \in Lines, OrdinaryLine(line)
  PROVE  db' \in Sound /\ frames' \in Seq(NumberedFrame)
<1> DEFINE Good == db' \in Sound /\ frames' \in Seq(NumberedFrame)
<1>1. /\ frames # <<>> /\ Taken \in NumberedFrame /\ Flushed(Taken) \in NumberedFrame
      /\ Registered(db, Taken) \in Sound
      /\ \A g \in NumberedFrame : SetTop(g) \in Seq(NumberedFrame)
      /\ \A g \in Frame : g.current_rule = Top.current_rule /\ g.siblings = Top.siblings
                          => g \in NumberedFrame
      /\ db \in Sound /\ frames \in Seq(NumberedFrame) /\ lineno \in Nat
  BY TakenNumbered DEF Agreeing, Types
<1>2. ASSUME NEW f \in NumberedFrame, NEW d \in Sound, NEW table, NEW evals,
             NEW recipe \in BOOLEAN, EndLine(f, d, table, evals, recipe)
      PROVE  Good
  BY <1>1, <1>2, SoundEnd
<1>3. CASE ReadInDefine(line)
  <2>1. PICK v \in Seq(Block) : Len(v) <= 1 /\ frames' = SetTop([Taken EXCEPT !.define = v])
    BY <1>3, InDefineType
  <2>2. [Taken EXCEPT !.define = v] \in Frame
    BY <2>1, TakenHolds, FrameWith
  <2>3. /\ [Taken EXCEPT !.define = v].current_rule = Taken.current_rule
        /\ [Taken EXCEPT !.define = v].siblings = Taken.siblings
    BY TakenHolds DEF Frame, ParserType
  <2>4. db' = db
    BY <1>3 DEF ReadInDefine
  <2> QED BY <1>1, <2>1, <2>2, <2>3, <2>4, TakenHolds
<1>4. CASE ReadInDeadBranch(line)
  BY <1>1, <1>4 DEF ReadInDeadBranch
<1>5. CASE ReadMissingSeparator(line)
  BY <1>1, <1>5, StoppedSound DEF ReadMissingSeparator
<1>6. CASE ReadConditional(line) \/ ReadElse(line) \/ ReadEndif(line)
  BY <1>6, ConditionalNumbered
<1>7. CASE ReadRule(line)
  <2>1. EndLine(Opened(RuleOf(line), <<>>), GoalStarted(line),
                Shown(variables, db, GoalStarted(line)), line.evals, FALSE)
        /\ line.kind = "rule"
    BY <1>7, RuleType DEF ReadRule, Reads
  <2>2. RuleOf(line) \in Rule /\ RuleOf(line).lineno = lineno + 1
    BY <2>1, RuleOfType
  <2>3. RuleOf(line).lineno # 0
    BY <1>1, <2>2
  <2>4. <<>> \in Seq(Rule) /\ Numbered(<<>>)
    BY DEF Numbered
  <2>5. Opened(RuleOf(line), <<>>) \in NumberedFrame
    BY <2>2, <2>3, <2>4, OpenedNumbered
  <2> QED BY <1>2, <2>1, <2>5, GoalSound
<1>8. CASE ReadStaticPattern(line)
  <2>1. CASE frames' = SetTop(Flushed(Taken)) /\ db' = Registered(db, Taken)
    BY <1>1, <2>1
  <2>2. CASE /\ StaticOf(line) # <<>>
             /\ EndLine(Opened(Last(StaticOf(line)), Front(StaticOf(line))), Registered(db, Taken),
                        Shown(variables, db, Registered(db, Taken)), line.evals, FALSE)
    <3>1. Opened(Last(StaticOf(line)), Front(StaticOf(line))) \in NumberedFrame
      BY <1>8, <2>2, StaticNumbered DEF ReadStaticPattern, Reads
    <3> QED BY <1>1, <1>2, <2>2, <3>1
  <2> QED BY <1>8, <2>1, <2>2, StaticLineType
<1>9. CASE ReadRecipe(line)
  <2>1. CASE EndLine(Cooking, db, variables, <<>>, TRUE)
    BY <1>1, <1>2, <2>1, CookingNumbered
  <2>2. CASE db' = [db EXCEPT !.stopped = TRUE] /\ frames' = frames
    BY <1>1, <2>2, StoppedSound
  <2> QED BY <1>9, <2>1, <2>2, RecipeType
<1>10. CASE ReadAssignment(line)
  BY <1>1, <1>2, <1>10, AssignmentType, AssignedSound
<1>11. CASE ReadTargetVariable(line)
  <2>1. lineno + 1 \in Nat
    BY <1>1
  <2> QED BY <1>1, <1>2, <1>11, <2>1, TargetVariableLineType, SoundVariable
<1>12. CASE ReadExport(line)
  BY <1>1, <1>2, <1>12, ExportType, ExportSound
<1>13. CASE ReadUndefine(line)
  BY <1>1, <1>2, <1>13, UndefineLineType
<1>14. CASE ReadDefine(line)
  BY <1>1, <1>2, <1>14, DefineLineType
<1>15. CASE ReadEmpty(line)
  BY <1>1, <1>2, <1>15, EmptyType
<1>16. CASE ReadVpath(line)
  BY <1>1, <1>2, <1>16, VpathType, VpathSound
<1> QED BY <1>3, <1>4, <1>5, <1>6, <1>7, <1>8, <1>9, <1>10, <1>11, <1>12, <1>13, <1>14, <1>15,
          <1>16 DEF OrdinaryLine

(* An include line keeps the agreement.                                    *)
LEMMA IncludeSound ==
  ASSUME Types, Agreeing, CanRead, NEW line \in Lines, ReadInclude(line)
  PROVE  db' \in Sound /\ frames' \in Seq(NumberedFrame)
<1> DEFINE new == Parser("include", line.file, line.ignore, <<>>)
           rest == SetTop(Waiting)
           d == Registered(db, Taken)
           e == db'
<1>1. e = [d EXCEPT !.explicitly_mentioned = @ \cup {<<line.file>>}] /\ e \in Base
  BY IncludeHolds
<1>2. d \in Sound /\ d \in Base
  BY TakenNumbered DEF Sound
<1>3. e \in Sound
  <2> HIDE DEF d, e
  <2>1. /\ e.rules = d.rules /\ e.log = d.log /\ e.pattern_rules = d.pattern_rules
        /\ e.special_targets = d.special_targets /\ e.stopped = d.stopped
        /\ e.builtin_pattern_rules_count = d.builtin_pattern_rules_count
    BY <1>1, <1>2 DEF Base, Database
  <2> QED BY <1>1, <1>2, <2>1, SoundSame
<1>4. new \in NumberedFrame
  BY IncludeHolds, ParserStack, NumberedNone
<1>5. Waiting \in NumberedFrame
  BY WaitingType, NumberedNone
<1>6. rest \in Seq(NumberedFrame)
  BY <1>5, TakenNumbered
<1>7. frames' = Append(rest, new) \/ frames' = rest
  BY IncludeHolds
<1> HIDE DEF new, rest
<1>8. frames' \in Seq(NumberedFrame)
  BY <1>4, <1>6, <1>7
<1> QED BY <1>3, <1>8

(* So do the steps that read no line.                                      *)
LEMMA OtherSound ==
  ASSUME Types, Agreeing, Drain \/ EndOfText \/ Raise \/ SkipFile \/ StartFile \/ Finished
  PROVE  db' \in Sound /\ frames' \in Seq(NumberedFrame)
<1>1. frames' \in Seq(NumberedFrame)
  <2>1. \A f \in Frame : f.conditional_stack = <<>> /\ f.define = <<>>
                          /\ f.current_rule = <<>> /\ f.siblings = <<>> => f \in NumberedFrame
    BY NumberedNone
  <2>2. \A f \in NumberedFrame : \A g \in Frame :
          g.conditional_stack = f.conditional_stack /\ g.define = f.define
          /\ g.current_rule = f.current_rule /\ g.siblings = f.siblings => g \in NumberedFrame
    BY NumberedSame
  <2>3. NumberedFrame \in SUBSET Frame /\ frames \in Seq(NumberedFrame)
    BY DEF NumberedFrame, Agreeing
  <2> QED BY <2>1, <2>2, <2>3, OtherStepIn
<1>2. db \in Sound /\ db \in Base
  BY DEF Agreeing, Sound
<1>3. CASE Drain \/ Raise \/ SkipFile \/ Finished
  BY <1>1, <1>2, <1>3 DEF Drain, Raise, SkipFile, Finished
<1>4. CASE EndOfText
  <2>1. frames # <<>> /\ (db' = db \/ db' = Registered(db, Top))
    BY <1>4 DEF EndOfText
  <2>2. Top \in NumberedFrame
    BY <2>1, SetTopIn DEF Agreeing
  <2> QED BY <1>1, <1>2, <2>1, <2>2, SoundRegistered
<1>5. CASE StartFile
  <2> DEFINE e == [db EXCEPT !.default_target = <<>>, !.default_goal_explicit = FALSE]
  <2>1. db' = db \/ db' = e
    BY <1>5 DEF StartFile
  <2>2. e \in Base
    <3>1. <<>> \in FileName
      BY DEF FileName
    <3> QED BY <1>2, <3>1 DEF Base, Database
  <2>3. /\ e.rules = db.rules /\ e.log = db.log /\ e.pattern_rules = db.pattern_rules
        /\ e.special_targets = db.special_targets /\ e.stopped = db.stopped
        /\ e.builtin_pattern_rules_count = db.builtin_pattern_rules_count
    BY <1>2 DEF Base, Database
  <2> HIDE DEF e
  <2>4. e \in Sound
    BY <1>2, <2>2, <2>3, SoundSame
  <2> QED BY <1>1, <1>2, <2>1, <2>4
<1> QED BY <1>3, <1>4, <1>5

(* Every step keeps the agreement.                                         *)
LEMMA AgreeingStep ==
  ASSUME Types, Agreeing, [Next]_vars
  PROVE  Agreeing'
<1>1. ASSUME db' \in Sound, frames' \in Seq(NumberedFrame)
      PROVE  Agreeing'
  BY <1>1 DEF Agreeing, Sound, Whole, Tidy, NumberedFrame, Numbered
<1>2. CASE ReadLine
  <2>1. CanRead /\ Offered \subseteq Lines
    BY <1>2, TakenHolds DEF ReadLine
  <2>2. PICK line \in Lines : OrdinaryLine(line) \/ ReadInclude(line)
    BY <1>2, <2>1 DEF ReadLine, OrdinaryLine
  <2> QED BY <1>1, <2>1, <2>2, LineSound, IncludeSound
<1>3. CASE Drain \/ EndOfText \/ Raise \/ SkipFile \/ StartFile \/ Finished
  BY <1>1, <1>3, OtherSound
<1>4. CASE UNCHANGED vars
  BY <1>4 DEF vars, Agreeing
<1> QED BY <1>2, <1>3, <1>4 DEF Next

(* The built-in rules alone agree with an empty history.                   *)
LEMMA BuiltinsSound ==
  ASSUME Types, db = Builtins
  PROVE  Builtins \in Sound
<1>1. Builtins \in Base
  BY DEF Types
<1>2. /\ Builtins.log = <<>> /\ Builtins.rules = <<>> /\ Builtins.special_targets = <<>>
      /\ Builtins.pattern_rules = BuiltinRules
      /\ Builtins.builtin_pattern_rules_count = Len(BuiltinRules)
  BY DEF Builtins
<1>3. Whole(Builtins)
  <2>1. \A t : GivenIn(<<>>, t) = <<>>
    BY SelectEmpty DEF GivenIn
  <2>2. \A t : t \notin DOMAIN Builtins.rules
    BY <1>2
  <2> QED BY <1>2, <2>1, <2>2 DEF Whole, MergedAt
<1>4. SplitAt(BuiltinRules, Len(BuiltinRules))
  <2>1. DOMAIN BuiltinRules = 1 .. Len(BuiltinRules)
        /\ \A i \in DOMAIN BuiltinRules : BuiltinRules[i].lineno = 0
    BY BuiltinsAssumption
  <2>2. \A i \in 1 .. Len(BuiltinRules) : i <= Len(BuiltinRules)
    OBVIOUS
  <2> QED BY <2>1, <2>2 DEF SplitAt
<1>5. Apart(Builtins)
  <2>1. \A s : s \notin DOMAIN Builtins.special_targets
    BY <1>2
  <2> QED BY <2>1 DEF Apart, Names_of
<1> QED BY <1>1, <1>2, <1>3, <1>4, <1>5 DEF Sound, Tidy

(* It holds at the start.                                                  *)
LEMMA AgreeingInit == Init /\ Types => Agreeing
BY BuiltinsSound DEF Init, Agreeing

(* The property the run checks, from the agreement.                        *)
LEMMA AgreeingGives ==
  ASSUME Types, Agreeing
  PROVE  DatabaseAgrees
<1>1. db \in Base /\ Whole(db) /\ Tidy(db)
  BY DEF Agreeing, Sound
<1>2. MergedWhole
  <2> SUFFICES ASSUME NEW t \in DOMAIN db.rules, ~SpecialTarget(t), ~db.stopped,
                      \A i \in DOMAIN Given(t) : ~Given(t)[i].double_colon
               PROVE  /\ Len(db.rules[t]) = 1
                      /\ Fits(db.rules[t][1], NormalOf(Given(t)), WeakOf(Given(t)),
                              OnceIn(Given(t)), LastRecipe(Given(t)))
    BY DEF MergedWhole, Fits, NormalOf, WeakOf, OnceIn, LastRecipe, CookedOf
  <2>1. t \in FileName
    BY <1>1, BaseHolds, TableHolds
  <2>2. Given(t) = GivenIn(db.log, t)
    BY DEF Given, GivenIn
  <2>3. MergedAt(db, t)
    BY <1>1, <2>1 DEF Whole
  <2>4. RulesOf(db, t) = db.rules[t]
    BY DEF RulesOf
  <2> QED BY <2>2, <2>3, <2>4 DEF MergedAt
<1>3. BuiltinsFirst /\ NotBoth
  BY <1>1 DEF Tidy, SplitAt, Apart, BuiltinsFirst, NotBoth
<1> QED BY <1>2, <1>3 DEF DatabaseAgrees

(* DatabaseAgrees holds throughout: the one rule of a target has the       *)
(* prerequisites of all its single-colon rules and the last recipe, built- *)
(* in pattern rules come first and are counted, and no file is marked both *)
(* intermediate and not, whatever is read in whatever order                *)
(* (register_rule, merge, register_special_target, read_makefile).         *)
THEOREM DatabaseAgreement == Spec => []DatabaseAgrees
<1>1. Init /\ Types => Agreeing
  BY AgreeingInit
<1>2. Types /\ Agreeing /\ [Next]_vars => Agreeing'
  BY AgreeingStep
<1>3. Types /\ Agreeing => DatabaseAgrees
  BY AgreeingGives
<1> QED BY <1>1, <1>2, <1>3, TypesHold, PTL DEF Spec

(* Those of the parsers that wait: each as above, exposed, and each        *)
(* parser's below those of the parser that it interrupted.                 *)
WaitFine(d, fs, n, X) ==
  \A k \in DOMAIN fs :
    /\ OpenFine(d, PendingRules(fs[k]), n, X) /\ Exposed(PendingRules(fs[k]), X)
    /\ \A m \in 1 .. k - 1 : Under(X, PendingRules(fs[m]), PendingRules(fs[k]))

(* The open rules of the parser at work, and of those below it.            *)
TopFine(d, fs, P, n, X) ==
  OpenFine(d, P, n, X) /\ \A k \in DOMAIN fs : Under(X, PendingRules(fs[k]), P)

(* The same, while the open rules are being registered.                    *)
Flushing(d, fs, P, X) ==
  /\ Uniform(P) /\ \A j \in DOMAIN P : Beside(d.log, P[j], X) /\ Due(d, P[j])
  /\ \A k \in DOMAIN fs : Under(X, PendingRules(fs[k]), P)

(* Registering one rule adds it to the history, and turns second expansion *)
(* on if it is the one that does.                                          *)
LEMMA NextLog ==
  ASSUME NEW d \in Base, NEW p \in Rule, ~d.stopped
  PROVE  /\ RegisterNext(d, p).log = Append(d.log, p) /\ d.log \in Seq(Rule)
         /\ ~RegisterNext(d, p).stopped =>
              (RegisterNext(d, p).second_expansion <=> d.second_expansion \/ SecondOf(p))
BY NextEffect, BaseHolds

(* Registering a rule that stands where it may keeps the history in order. *)
LEMMA LogFineNext ==
  ASSUME NEW d \in Base, NEW p \in Rule, NEW n, NEW X, LogFine(d, n, X), Within(p, n),
         Beside(d.log, p, X), Due(d, p)
  PROVE  LogFine(RegisterNext(d, p), n, X)
<1> DEFINE e == RegisterNext(d, p)
<1>1. CASE d.stopped
  BY <1>1, NextEffect
<1>2. CASE ~d.stopped
  <2> DEFINE log == d.log
  <2>1. /\ e.log = Append(log, p) /\ log \in Seq(Rule)
        /\ ~e.stopped => (e.second_expansion <=> d.second_expansion \/ SecondOf(p))
    BY <1>2, NextLog
  <2>2. /\ AllWithin(log, n) /\ InLine(log, X) /\ ToldInLine(log) /\ Told(d)
    BY DEF LogFine
  <2>3. p.dollar <=> p.text_dollar /\ ToldAbove(log, p.lineno)
    BY <1>2 DEF Due
  <2> HIDE DEF e, log
  <2>4. AllWithin(e.log, n)
    BY <2>1, <2>2, LogPlus
  <2>5. InLine(e.log, X)
    BY <2>1, <2>2, InLinePlus DEF log
  <2>6. ToldInLine(e.log)
    BY <2>1, <2>2, <2>3, ToldInLinePlus
  <2>7. Told(e)
    <3> DEFINE l == Append(log, p)
    <3>1. /\ \A i \in DOMAIN l : (i \in DOMAIN log /\ l[i] = log[i]) \/ l[i] = p
          /\ \A i \in DOMAIN log : i \in DOMAIN l /\ l[i] = log[i]
          /\ Len(log) + 1 \in DOMAIN l /\ l[Len(log) + 1] = p
      BY <2>1, LogAppend
    <3> HIDE DEF l
    <3>2. (\E i \in DOMAIN l : SecondOf(l[i])) <=> (\E i \in DOMAIN log : SecondOf(log[i])) \/ SecondOf(p)
      BY <3>1
    <3>3. d.second_expansion <=> \E i \in DOMAIN log : SecondOf(log[i])
      BY <1>2, <2>2 DEF Told, log
    <3> QED BY <2>1, <3>2, <3>3 DEF Told, l
  <2>8. LogFine(e, n, X)
    BY <2>4, <2>5, <2>6, <2>7 DEF LogFine
  <2> QED BY <2>8 DEF e
<1> QED BY <1>1, <1>2

(* A rule further down is registered before q, which stays open.           *)
LEMMA OpenNext ==
  ASSUME NEW d \in Base, NEW p \in Rule, NEW q \in Rule, NEW X, Late(X, p, q),
         Lower(d.log, q, X), Due(d, q)
  PROVE  Lower(RegisterNext(d, p).log, q, X) /\ Due(RegisterNext(d, p), q)
<1> DEFINE e == RegisterNext(d, p)
<1>1. CASE d.stopped
  BY <1>1, NextEffect
<1>2. CASE ~d.stopped
  <2>1. e.log = Append(d.log, p) /\ d.log \in Seq(Rule)
    BY <1>2, NextLog
  <2>2. p.lineno \in Nat /\ q.lineno \in Nat
    BY RuleHolds
  <2> HIDE DEF e
  <2>3. Lower(e.log, q, X)
    BY <2>1, LogPlus
  <2>4. ToldAbove(e.log, q.lineno) <=> ToldAbove(d.log, q.lineno)
    BY <2>1, <2>2, ToldPlus DEF Late
  <2>5. Due(e, q)
    BY <1>2, <2>4 DEF Due
  <2> QED BY <2>3, <2>5 DEF e
<1> QED BY <1>1, <1>2

(* The rules of one line are registered one after the other.               *)
LEMMA BesideNext ==
  ASSUME NEW d \in Base, NEW p \in Rule, NEW q \in Rule, NEW X, Alike(p, q),
         Beside(d.log, q, X), Due(d, q)
  PROVE  Beside(RegisterNext(d, p).log, q, X) /\ Due(RegisterNext(d, p), q)
<1> DEFINE e == RegisterNext(d, p)
<1>1. CASE d.stopped
  BY <1>1, NextEffect
<1>2. CASE ~d.stopped
  <2>1. e.log = Append(d.log, p) /\ d.log \in Seq(Rule)
    BY <1>2, NextLog
  <2>2. p.lineno \in Nat /\ q.lineno \in Nat
    BY RuleHolds
  <2> HIDE DEF e
  <2>3. Beside(e.log, q, X)
    BY <2>1, LogPlus
  <2>4. ToldAbove(e.log, q.lineno) <=> ToldAbove(d.log, q.lineno)
    BY <2>1, <2>2, ToldPlus DEF Alike
  <2>5. Due(e, q)
    BY <1>2, <2>4 DEF Due
  <2> QED BY <2>3, <2>5 DEF e
<1> QED BY <1>1, <1>2

(* The open rules of a parser that waits.                                  *)
LEMMA WaitingRules ==
  ASSUME NEW fs \in Seq(Frame), NEW k \in DOMAIN fs
  PROVE  /\ fs[k] \in Frame /\ PendingRules(fs[k]) \in Seq(Rule)
         /\ \A i \in DOMAIN PendingRules(fs[k]) : PendingRules(fs[k])[i] \in Rule
<1>1. fs[k] \in Frame
  OBVIOUS
<1>2. PendingRules(fs[k]) \in Seq(Rule)
  BY <1>1, PendingType
<1> QED BY <1>1, <1>2, InRange

(* Registering one rule leaves the rules of the waiting parsers where they *)
(* may stand, if it may be overtaken by none but them.                     *)
LEMMA WaitFineNext ==
  ASSUME NEW d \in Base, NEW p \in Rule, NEW fs \in Seq(Frame), NEW n, NEW X,
         WaitFine(d, fs, n, X),
         \A k \in DOMAIN fs : \A i \in DOMAIN PendingRules(fs[k]) :
           Late(X, p, PendingRules(fs[k])[i])
  PROVE  WaitFine(RegisterNext(d, p), fs, n, X)
<1> DEFINE e == RegisterNext(d, p)
<1>1. ASSUME NEW k \in DOMAIN fs
      PROVE  OpenFine(e, PendingRules(fs[k]), n, X)
  <2> DEFINE Q == PendingRules(fs[k])
  <2>1. \A i \in DOMAIN Q : Q[i] \in Rule /\ Late(X, p, Q[i])
    BY <1>1, WaitingRules
  <2>2. OpenFine(d, Q, n, X)
    BY <1>1 DEF WaitFine
  <2> HIDE DEF e, Q
  <2>3. \A i \in DOMAIN Q : Lower(e.log, Q[i], X) /\ Due(e, Q[i])
    BY <2>1, <2>2, OpenNext DEF OpenFine, e
  <2>4. OpenFine(e, Q, n, X)
    BY <2>2, <2>3 DEF OpenFine
  <2> QED BY <2>4 DEF e, Q
<1> HIDE DEF e
<1>2. WaitFine(e, fs, n, X)
  BY <1>1 DEF WaitFine
<1> QED BY <1>2 DEF e

(* Registering one of the rules of a line keeps what its siblings need.    *)
LEMMA FlushingNext ==
  ASSUME NEW d \in Base, NEW P \in Seq(Rule), NEW j \in DOMAIN P, NEW fs \in Seq(Frame), NEW n,
         NEW X, LogFine(d, n, X), AllWithin(P, n), WaitFine(d, fs, n, X), Flushing(d, fs, P, X)
  PROVE  /\ LogFine(RegisterNext(d, P[j]), n, X) /\ WaitFine(RegisterNext(d, P[j]), fs, n, X)
         /\ Flushing(RegisterNext(d, P[j]), fs, P, X)
<1> DEFINE p == P[j]
           e == RegisterNext(d, p)
<1>1. p \in Rule /\ \A i \in DOMAIN P : P[i] \in Rule
  BY InRange
<1>2. Within(p, n) /\ Beside(d.log, p, X) /\ Due(d, p)
  BY DEF AllWithin, Flushing
<1>3. \A i \in DOMAIN P : Alike(p, P[i]) /\ Beside(d.log, P[i], X) /\ Due(d, P[i])
  BY DEF Flushing, Uniform
<1>4. \A k \in DOMAIN fs : \A i \in DOMAIN PendingRules(fs[k]) :
        Late(X, p, PendingRules(fs[k])[i])
  BY DEF Flushing, Under
<1> HIDE DEF p
<1>5. LogFine(e, n, X)
  BY <1>1, <1>2, LogFineNext
<1>6. WaitFine(e, fs, n, X)
  BY <1>1, <1>4, WaitFineNext
<1>7. \A i \in DOMAIN P : Beside(e.log, P[i], X) /\ Due(e, P[i])
  BY <1>1, <1>3, BesideNext
<1> HIDE DEF e
<1>8. Flushing(e, fs, P, X)
  BY <1>7 DEF Flushing
<1> QED BY <1>5, <1>6, <1>8 DEF e, p

(* Registering the open rules keeps everything in order.                   *)
LEMMA FlushFine ==
  ASSUME NEW d \in Base, NEW f \in Frame, NEW fs \in Seq(Frame), NEW n, NEW X,
         LogFine(d, n, X), WaitFine(d, fs, n, X), TopFine(d, fs, PendingRules(f), n, X)
  PROVE  LogFine(Registered(d, f), n, X) /\ WaitFine(Registered(d, f), fs, n, X)
<1> DEFINE P == PendingRules(f)
           L == Len(P)
<1>1. P \in Seq(Rule)
  BY PendingType
<1>2. PICK u \in [0 .. L -> Base] :
        /\ Registered(d, f) = u[L] /\ u[0] = d
        /\ \A i \in 1 .. L : u[i] = RegisterNext(u[i - 1], P[i])
  BY <1>1, RegisteredSteps
<1>3. AllWithin(P, n) /\ Flushing(d, fs, P, X)
  <2> HIDE DEF P
  <2> QED BY DEF P, TopFine, OpenFine, Flushing, Lower, Beside
<1>4. L \in Nat /\ \A i \in 1 .. L : i \in DOMAIN P
  <2> HIDE DEF P
  <2> QED BY <1>1
<1> HIDE DEF P, L
<1> DEFINE T == {i \in 0 .. L : /\ LogFine(u[i], n, X) /\ WaitFine(u[i], fs, n, X)
                                /\ Flushing(u[i], fs, P, X)}
<1>5. 0 \in T
  BY <1>2, <1>3, <1>4
<1>6. ASSUME NEW i \in 1 .. L, i - 1 \in T
      PROVE  i \in T
  <2>1. i \in 0 .. L /\ i - 1 \in 0 .. L
    BY <1>4
  <2>2. u[i - 1] \in Base /\ u[i] = RegisterNext(u[i - 1], P[i]) /\ i \in DOMAIN P
    BY <1>2, <1>4, <2>1
  <2> QED BY <1>1, <1>3, <1>6, <2>1, <2>2, FlushingNext
<1>7. \A i \in 0 .. L : i \in T
  <2> HIDE DEF T
  <2> QED BY <1>4, <1>5, <1>6, Counting
<1>8. L \in 0 .. L
  BY <1>4
<1> QED BY <1>2, <1>7, <1>8

(* So do the open rules of the parsers that wait.                          *)
LEMMA WaitFineLater ==
  ASSUME NEW d \in Base, NEW e \in Base, Same(d, e), NEW n \in Nat, NEW m \in Nat, n <= m,
         NEW X, NEW Y, X \subseteq Y, NEW fs \in Seq(Frame), WaitFine(d, fs, n, X)
  PROVE  WaitFine(e, fs, m, Y)
<1>1. ASSUME NEW k \in DOMAIN fs
      PROVE  /\ OpenFine(e, PendingRules(fs[k]), m, Y) /\ Exposed(PendingRules(fs[k]), Y)
             /\ \A j \in 1 .. k - 1 : Under(Y, PendingRules(fs[j]), PendingRules(fs[k]))
  <2>1. PendingRules(fs[k]) \in Seq(Rule)
    BY WaitingRules
  <2>2. OpenFine(d, PendingRules(fs[k]), n, X) /\ Exposed(PendingRules(fs[k]), X)
        /\ \A j \in 1 .. k - 1 : Under(X, PendingRules(fs[j]), PendingRules(fs[k]))
    BY <1>1 DEF WaitFine
  <2>3. OpenFine(e, PendingRules(fs[k]), m, Y)
    BY <2>1, <2>2, OpenFineLater
  <2>4. Exposed(PendingRules(fs[k]), Y)
    BY <2>2 DEF Exposed
  <2> QED BY <2>2, <2>3, <2>4, UnderLater
<1> QED BY <1>1 DEF WaitFine

(* So do those of the parser at work.                                      *)
LEMMA TopFineLater ==
  ASSUME NEW d \in Base, NEW e \in Base, Same(d, e), NEW n \in Nat, NEW m \in Nat, n <= m,
         NEW X, NEW Y, X \subseteq Y, NEW P \in Seq(Rule), NEW fs, TopFine(d, fs, P, n, X)
  PROVE  TopFine(e, fs, P, m, Y)
BY OpenFineLater, UnderLater DEF TopFine

(* A parser with no open rule has nothing to register out of order.        *)
LEMMA NothingOpen ==
  ASSUME NEW d, NEW fs, NEW n, NEW X
  PROVE  TopFine(d, fs, <<>>, n, X) /\ Exposed(<<>>, X)
BY DEF TopFine, OpenFine, AllWithin, Uniform, Under, Exposed

(* The rules that a line opens stand below all that was read.              *)
LEMMA OpenedFine ==
  ASSUME NEW d \in Base, NEW fs \in Seq(Frame), NEW n \in Nat, NEW X, NEW P \in Seq(Rule),
         LogFine(d, n, X), WaitFine(d, fs, n, X), Fresh(d, P, n + 1)
  PROVE  TopFine(d, fs, P, n + 1, X)
<1>1. d.log \in Seq(Rule)
  BY BaseHolds
<1>2. \A i \in DOMAIN d.log : /\ Within(d.log[i], n) /\ d.log[i].lineno \in Nat
                              /\ \A k \in DOMAIN d.log[i].recipe : d.log[i].recipe[k] \in Nat
  <2>1. \A i \in DOMAIN d.log : d.log[i] \in Rule
    BY <1>1, InRange
  <2> QED BY <2>1, RuleHolds DEF LogFine, AllWithin
<1>3. \A i \in DOMAIN d.log : \A j \in DOMAIN P : Ahead(d.log[i], P[j])
  <2> SUFFICES ASSUME NEW i \in DOMAIN d.log, NEW j \in DOMAIN P
               PROVE  Ahead(d.log[i], P[j])
    OBVIOUS
  <2>1. P[j].lineno = n + 1
    BY DEF Fresh
  <2>2. d.log[i].lineno < n + 1 /\ \A k \in DOMAIN d.log[i].recipe : d.log[i].recipe[k] < n + 1
    BY <1>2 DEF Within
  <2> QED BY <2>1, <2>2 DEF Ahead
<1>4. ASSUME NEW j \in DOMAIN P
      PROVE  Lower(d.log, P[j], X) /\ Due(d, P[j])
  <2>1. Lower(d.log, P[j], X)
    BY <1>3 DEF Lower
  <2>2. ToldAbove(d.log, P[j].lineno) <=> \E i \in DOMAIN d.log : SecondOf(d.log[i])
    BY <1>3 DEF ToldAbove, Ahead
  <2>3. Due(d, P[j])
    BY <2>2 DEF Due, LogFine, Told, Fresh
  <2> QED BY <2>1, <2>3
<1>5. ASSUME NEW k \in DOMAIN fs
      PROVE  Under(X, PendingRules(fs[k]), P)
  <2> DEFINE Q == PendingRules(fs[k])
  <2>1. \A i \in DOMAIN Q : Q[i] \in Rule
    BY <1>5, WaitingRules
  <2>2. AllWithin(Q, n) /\ Exposed(Q, X)
    BY <1>5 DEF WaitFine, OpenFine
  <2> HIDE DEF Q
  <2>3. \A i \in DOMAIN Q : Q[i].lineno \in X /\ Q[i].lineno < n + 1
    <3>1. \A i \in DOMAIN Q : Q[i].lineno \in Nat
      BY <2>1, RuleHolds
    <3> QED BY <2>2, <3>1 DEF AllWithin, Within, Exposed
  <2>4. Under(X, Q, P)
    BY <2>3 DEF Under, Late, Fresh
  <2> QED BY <2>4 DEF Q
<1> QED BY <1>4, <1>5 DEF TopFine, OpenFine, Fresh

(* A recipe line, which is below everything, leaves the open rules where   *)
(* they stand.                                                             *)
LEMMA CookedFine ==
  ASSUME NEW d, NEW fs \in Seq(Frame), NEW n \in Nat, NEW X, NEW P \in Seq(Rule),
         NEW Q \in Seq(Rule), TopFine(d, fs, P, n, X), Cooked(P, Q, n + 1)
  PROVE  TopFine(d, fs, Q, n + 1, X)
<1>1. \A i \in DOMAIN P : P[i] \in Rule /\ P[i].lineno \in Nat /\ P[i].recipe \in Seq(Nat)
  BY InRange, RuleHolds
<1>2. AllWithin(Q, n + 1)
  <2> SUFFICES ASSUME NEW i \in DOMAIN P
               PROVE  Within(Q[i], n + 1)
    BY DEF AllWithin, Cooked
  <2> DEFINE recipe == P[i].recipe
             longer == Append(recipe, n + 1)
  <2>1. recipe \in Seq(Nat) /\ \A k \in DOMAIN recipe : recipe[k] <= n
    BY <1>1 DEF TopFine, OpenFine, AllWithin, Within
  <2>2. Q[i].recipe = longer /\ Q[i].lineno <= n + 1
    BY <1>1 DEF TopFine, OpenFine, AllWithin, Within, Cooked
  <2> HIDE DEF recipe
  <2>3. \A k \in DOMAIN longer : longer[k] <= n + 1
    <3>1. /\ DOMAIN recipe = 1 .. Len(recipe) /\ DOMAIN longer = 1 .. Len(recipe) + 1
          /\ Len(recipe) \in Nat /\ longer[Len(recipe) + 1] = n + 1
          /\ \A k \in 1 .. Len(recipe) : longer[k] = recipe[k] /\ recipe[k] \in Nat
      BY <2>1
    <3> HIDE DEF longer
    <3>2. \A k \in 1 .. Len(recipe) + 1 : k \in 1 .. Len(recipe) \/ k = Len(recipe) + 1
      BY <3>1
    <3>3. ASSUME NEW k \in 1 .. Len(recipe)
          PROVE  longer[k] <= n + 1
      <4>1. longer[k] = recipe[k] /\ recipe[k] \in Nat /\ k \in DOMAIN recipe
        BY <3>1
      <4>2. recipe[k] <= n
        BY <2>1, <4>1
      <4> QED BY <4>1, <4>2
    <3> QED BY <3>1, <3>2, <3>3
  <2> HIDE DEF longer
  <2> QED BY <2>2, <2>3 DEF Within
<1>3. Uniform(Q)
  <2> SUFFICES ASSUME NEW i \in DOMAIN P, NEW j \in DOMAIN P
               PROVE  Alike(Q[i], Q[j])
    BY DEF Uniform, Cooked
  <2>1. P[i].lineno = P[j].lineno /\ P[i].recipe = P[j].recipe
    BY DEF TopFine, OpenFine, Uniform, Alike
  <2>2. /\ Q[i].lineno = P[i].lineno /\ Q[j].lineno = P[j].lineno
        /\ Q[i].recipe = Append(P[i].recipe, n + 1) /\ Q[j].recipe = Append(P[j].recipe, n + 1)
    BY DEF Cooked
  <2> QED BY <2>1, <2>2 DEF Alike
<1>4. \A j \in DOMAIN P : Lower(d.log, P[j], X) /\ Due(d, P[j])
  BY DEF TopFine, OpenFine
<1>5. \A j \in DOMAIN Q : Lower(d.log, Q[j], X) /\ Due(d, Q[j])
  BY <1>4 DEF Lower, Due, Ahead, Late, Cooked
<1>6. \A k \in DOMAIN fs : Under(X, PendingRules(fs[k]), Q)
  BY DEF TopFine, Under, Late, Cooked
<1> QED BY <1>2, <1>3, <1>5, <1>6 DEF TopFine, OpenFine

(* The database and the open rules P of the parser at work, above parsers  *)
(* that wait.                                                              *)
Fine(d, fs, P, n, X) ==
  LogFine(d, n, X) /\ WaitFine(d, fs, n, X) /\ TopFine(d, fs, P, n, X)

(* All of it stays so as reading goes on, if the history is untouched.     *)
LEMMA FineLater ==
  ASSUME NEW d \in Base, NEW e \in Base, Same(d, e), NEW n \in Nat, NEW m \in Nat, n <= m,
         NEW X, NEW Y, X \subseteq Y, NEW fs \in Seq(Frame), NEW P \in Seq(Rule),
         Fine(d, fs, P, n, X)
  PROVE  Fine(e, fs, P, m, Y)
BY LogFineLater, WaitFineLater, TopFineLater DEF Fine

(* Closing the open rules keeps it: they are registered and none is open.  *)
LEMMA FineClosed ==
  ASSUME NEW d \in Base, NEW f \in Frame, NEW fs \in Seq(Frame), NEW n, NEW X,
         Fine(d, fs, PendingRules(f), n, X)
  PROVE  Fine(Registered(d, f), fs, <<>>, n, X)
BY FlushFine, NothingOpen DEF Fine

(* Opening rules on a line where none is open keeps it.                    *)
LEMMA FineOpened ==
  ASSUME NEW d \in Base, NEW fs \in Seq(Frame), NEW n \in Nat, NEW X, NEW P \in Seq(Rule),
         Fine(d, fs, <<>>, n, X), Fresh(d, P, n + 1)
  PROVE  Fine(d, fs, P, n + 1, X)
<1>1. n + 1 \in Nat /\ n <= n + 1 /\ Same(d, d) /\ X \subseteq X
  BY DEF Same
<1>2. LogFine(d, n + 1, X)
  BY <1>1, LogFineLater DEF Fine
<1>3. WaitFine(d, fs, n + 1, X)
  BY <1>1, WaitFineLater DEF Fine
<1>4. TopFine(d, fs, P, n + 1, X)
  BY OpenedFine DEF Fine
<1> QED BY <1>2, <1>3, <1>4 DEF Fine

(* Adding the line to the recipes of the open rules keeps it.              *)
LEMMA FineCooked ==
  ASSUME NEW d \in Base, NEW fs \in Seq(Frame), NEW n \in Nat, NEW X, NEW P \in Seq(Rule),
         NEW Q \in Seq(Rule), Fine(d, fs, P, n, X), Cooked(P, Q, n + 1)
  PROVE  Fine(d, fs, Q, n + 1, X)
<1>1. n + 1 \in Nat /\ n <= n + 1 /\ Same(d, d) /\ X \subseteq X
  BY DEF Same
<1>2. LogFine(d, n + 1, X)
  BY <1>1, LogFineLater DEF Fine
<1>3. WaitFine(d, fs, n + 1, X)
  BY <1>1, WaitFineLater DEF Fine
<1>4. TopFine(d, fs, Q, n + 1, X)
  BY CookedFine DEF Fine
<1> QED BY <1>2, <1>3, <1>4 DEF Fine

(* The parser below resumes.                                               *)
LEMMA FinePopped ==
  ASSUME NEW d \in Base, NEW fs \in Seq(Frame), fs # <<>>, NEW n, NEW X,
         LogFine(d, n, X), WaitFine(d, fs, n, X)
  PROVE  /\ Fine(d, Front(fs), PendingRules(Last(fs)), n, X)
         /\ Exposed(PendingRules(Last(fs)), X)
<1> DEFINE rest == Front(fs)
           L == Len(fs)
           f == Last(fs)
<1>1. /\ L \in Nat \ {0} /\ DOMAIN fs = 1 .. L /\ f = fs[L] /\ rest \in Seq(Frame)
      /\ Len(rest) = L - 1 /\ \A i \in 1 .. L - 1 : rest[i] = fs[i]
  BY TopHolds
<1> HIDE DEF rest, L, f
<1>2. DOMAIN rest = 1 .. L - 1 /\ L \in DOMAIN fs /\ \A k \in 1 .. L - 1 : k \in DOMAIN fs
  BY <1>1
<1>3. WaitFine(d, rest, n, X)
  <2> SUFFICES ASSUME NEW k \in DOMAIN rest
               PROVE  /\ OpenFine(d, PendingRules(rest[k]), n, X)
                      /\ Exposed(PendingRules(rest[k]), X)
                      /\ \A m \in 1 .. k - 1 : Under(X, PendingRules(rest[m]), PendingRules(rest[k]))
    BY DEF WaitFine
  <2>1. k \in DOMAIN fs /\ rest[k] = fs[k] /\ k \in 1 .. L - 1
    BY <1>1, <1>2
  <2>2. \A m \in 1 .. k - 1 : rest[m] = fs[m]
    BY <1>1, <2>1
  <2> QED BY <2>1, <2>2 DEF WaitFine
<1>4. OpenFine(d, PendingRules(f), n, X) /\ Exposed(PendingRules(f), X)
  BY <1>1, <1>2 DEF WaitFine
<1>5. \A k \in DOMAIN rest : Under(X, PendingRules(rest[k]), PendingRules(f))
  BY <1>1, <1>2 DEF WaitFine
<1>6. Fine(d, rest, PendingRules(f), n, X)
  BY <1>3, <1>4, <1>5 DEF Fine, TopFine
<1> QED BY <1>4, <1>6 DEF rest, f

(* A parser starts to wait for another.                                    *)
LEMMA FinePushed ==
  ASSUME NEW d, NEW fs \in Seq(Frame), NEW f \in Frame, NEW n, NEW X,
         Fine(d, fs, PendingRules(f), n, X), Exposed(PendingRules(f), X)
  PROVE  Fine(d, Append(fs, f), <<>>, n, X)
<1> DEFINE gs == Append(fs, f)
           L == Len(fs)
<1>1. /\ L \in Nat /\ DOMAIN fs = 1 .. L /\ gs \in Seq(Frame) /\ DOMAIN gs = 1 .. L + 1
      /\ gs[L + 1] = f /\ \A i \in 1 .. L : gs[i] = fs[i]
  BY PushHolds
<1> HIDE DEF gs, L
<1>2. ASSUME NEW k \in DOMAIN gs
      PROVE  /\ OpenFine(d, PendingRules(gs[k]), n, X) /\ Exposed(PendingRules(gs[k]), X)
             /\ \A m \in 1 .. k - 1 : Under(X, PendingRules(gs[m]), PendingRules(gs[k]))
  <2>1. k \in 1 .. L \/ k = L + 1
    BY <1>1
  <2>2. CASE k \in 1 .. L
    <3>1. gs[k] = fs[k] /\ k \in DOMAIN fs /\ \A m \in 1 .. k - 1 : gs[m] = fs[m]
      BY <1>1, <2>2
    <3> QED BY <3>1 DEF Fine, WaitFine
  <2>3. CASE k = L + 1
    <3>1. gs[k] = f /\ \A m \in 1 .. k - 1 : gs[m] = fs[m] /\ m \in DOMAIN fs
      BY <1>1, <2>3
    <3> QED BY <3>1 DEF Fine, TopFine
  <2> QED BY <2>1, <2>2, <2>3
<1>3. WaitFine(d, gs, n, X)
  BY <1>2 DEF WaitFine
<1>4. TopFine(d, gs, <<>>, n, X)
  BY NothingOpen
<1>5. Fine(d, gs, <<>>, n, X)
  BY <1>3, <1>4 DEF Fine
<1> QED BY <1>5 DEF gs

(* The open rules are those of current_rule and siblings, whatever else    *)
(* the parser holds.                                                       *)
LEMMA PendingSame ==
  ASSUME NEW f, NEW g, g.current_rule = f.current_rule, g.siblings = f.siblings
  PROVE  PendingRules(g) = PendingRules(f)
BY DEF PendingRules

(* Without a current rule no rule is open.                                 *)
LEMMA PendingNone ==
  ASSUME NEW f, f.current_rule = <<>>
  PROVE  PendingRules(f) = <<>>
BY DEF PendingRules

(* The open rules: the siblings with the recipe of the current rule, then  *)
(* the current rule.                                                       *)
LEMMA PendingFields ==
  ASSUME NEW f \in Frame, f.current_rule # <<>>
  PROVE  LET P == PendingRules(f)
             m == Len(f.siblings)
             last == f.current_rule[1]
         IN  /\ m \in Nat /\ P \in Seq(Rule) /\ DOMAIN P = 1 .. m + 1 /\ P[m + 1] = last
             /\ DOMAIN f.siblings = 1 .. m /\ last \in Rule /\ f.current_rule = <<last>>
             /\ \A i \in 1 .. m :
                  /\ f.siblings[i] \in Rule
                  /\ P[i].lineno = f.siblings[i].lineno /\ P[i].targets = f.siblings[i].targets
                  /\ P[i].dollar = f.siblings[i].dollar
                  /\ P[i].text_dollar = f.siblings[i].text_dollar /\ P[i].recipe = last.recipe
<1> DEFINE P == PendingRules(f)
           s == f.siblings
           m == Len(s)
           c == f.current_rule
           last == c[1]
<1>1. /\ Len(P) = m + 1 /\ m \in Nat /\ Len(c) = 1 /\ last \in Rule /\ DOMAIN s = 1 .. m
      /\ \A i \in 1 .. m : s[i] \in Rule
      /\ P[m + 1] = last
      /\ \A i \in 1 .. m : P[i] = [s[i] EXCEPT !.recipe = last.recipe]
  BY PendingIs
<1>2. P \in Seq(Rule) /\ c \in Seq(Rule)
  BY PendingType, FrameHolds
<1> HIDE DEF P, s, c, last
<1>3. DOMAIN P = 1 .. m + 1
  BY <1>1, <1>2
<1>4. c = <<last>>
  BY <1>1, <1>2 DEF last
<1>5. ASSUME NEW i \in 1 .. m
      PROVE  /\ P[i].lineno = s[i].lineno /\ P[i].targets = s[i].targets
             /\ P[i].dollar = s[i].dollar /\ P[i].text_dollar = s[i].text_dollar
             /\ P[i].recipe = last.recipe
  <2> DEFINE rule == s[i]
             recipe == last.recipe
             told == [rule EXCEPT !.recipe = recipe]
  <2>1. rule \in Rule /\ P[i] = told
    BY <1>1
  <2> HIDE DEF rule, recipe
  <2>2. /\ told.lineno = rule.lineno /\ told.targets = rule.targets
        /\ told.dollar = rule.dollar /\ told.text_dollar = rule.text_dollar
        /\ told.recipe = recipe
    BY <2>1, WithRecipe
  <2> HIDE DEF told
  <2> QED BY <2>1, <2>2 DEF rule, recipe
<1> QED BY <1>1, <1>2, <1>3, <1>4, <1>5 DEF P, s, c, last

(* What a line opens is fresh.                                             *)
LEMMA PendingFresh ==
  ASSUME NEW f \in Frame, f.current_rule # <<>>, NEW d, NEW m \in Nat,
         \A k \in DOMAIN f.current_rule[1].recipe : f.current_rule[1].recipe[k] <= m,
         \A i \in DOMAIN f.siblings :
           /\ f.siblings[i].lineno = m
           /\ f.siblings[i].dollar <=> f.siblings[i].text_dollar /\ d.second_expansion,
         /\ f.current_rule[1].lineno = m
         /\ f.current_rule[1].dollar <=> f.current_rule[1].text_dollar /\ d.second_expansion
  PROVE  Fresh(d, PendingRules(f), m)
<1> DEFINE P == PendingRules(f)
           s == f.siblings
           l == Len(s)
           last == f.current_rule[1]
<1>1. /\ l \in Nat /\ DOMAIN P = 1 .. l + 1 /\ P[l + 1] = last /\ DOMAIN s = 1 .. l
      /\ \A i \in 1 .. l : /\ P[i].lineno = s[i].lineno /\ P[i].dollar = s[i].dollar
                           /\ P[i].text_dollar = s[i].text_dollar /\ P[i].recipe = last.recipe
  BY PendingFields
<1>2. /\ \A k \in DOMAIN last.recipe : last.recipe[k] <= m
      /\ last.lineno = m /\ (last.dollar <=> last.text_dollar /\ d.second_expansion)
      /\ \A i \in DOMAIN s : s[i].lineno = m /\ (s[i].dollar <=> s[i].text_dollar /\ d.second_expansion)
  OBVIOUS
<1> HIDE DEF P, s, l, last
<1>3. \A i \in 1 .. l + 1 : i \in 1 .. l \/ i = l + 1
  BY <1>1
<1>4. \A i \in DOMAIN P : /\ P[i].lineno = m /\ P[i].recipe = last.recipe
                          /\ P[i].dollar <=> P[i].text_dollar /\ d.second_expansion
  BY <1>1, <1>2, <1>3
<1>5. Uniform(P)
  BY <1>4 DEF Uniform, Alike
<1>6. AllWithin(P, m)
  BY <1>2, <1>4 DEF AllWithin, Within
<1> QED BY <1>4, <1>5, <1>6 DEF Fresh, P

(* A recipe line goes to all rules of the parser.                          *)
LEMMA PendingCooked ==
  ASSUME lineno \in Nat, NEW f \in Frame, NEW g \in Frame,
         g.current_rule = LongerAll(f.current_rule), g.siblings = LongerAll(f.siblings)
  PROVE  Cooked(PendingRules(f), PendingRules(g), lineno + 1)
<1>1. f.current_rule \in Seq(Rule) /\ f.siblings \in Seq(Rule)
  BY FrameHolds
<1>2. CASE f.current_rule = <<>>
  <2>1. g.current_rule = <<>>
    BY <1>1, <1>2, LongerAllType
  <2> QED BY <1>2, <2>1, PendingNone DEF Cooked
<1>3. CASE f.current_rule # <<>>
  <2> DEFINE P == PendingRules(f)
             Q == PendingRules(g)
             s == f.siblings
             t == g.siblings
             m == Len(s)
             c == f.current_rule
             b == g.current_rule
             last == c[1]
             after == b[1]
  <2>1. b # <<>>
    BY <1>1, <1>3, LongerAllType
  <2>2. /\ m \in Nat /\ DOMAIN P = 1 .. m + 1 /\ P[m + 1] = last /\ DOMAIN s = 1 .. m
        /\ last \in Rule /\ c = <<last>>
        /\ \A i \in 1 .. m : /\ s[i] \in Rule
                             /\ P[i].lineno = s[i].lineno /\ P[i].targets = s[i].targets
                             /\ P[i].dollar = s[i].dollar
                             /\ P[i].text_dollar = s[i].text_dollar /\ P[i].recipe = last.recipe
    BY <1>3, PendingFields
  <2>3. /\ Len(t) \in Nat /\ DOMAIN Q = 1 .. Len(t) + 1 /\ Q[Len(t) + 1] = after
        /\ \A i \in 1 .. Len(t) : /\ Q[i].lineno = t[i].lineno /\ Q[i].targets = t[i].targets
                                  /\ Q[i].dollar = t[i].dollar
                                  /\ Q[i].text_dollar = t[i].text_dollar
                                  /\ Q[i].recipe = after.recipe
    BY <2>1, PendingFields
  <2>4. Len(t) = m /\ \A i \in 1 .. m : t[i] = Longer(s[i])
    BY <1>1, LongerAllType
  <2>5. after = Longer(last)
    <3>1. Len(c) = 1 /\ b = LongerAll(c) /\ c \in Seq(Rule)
      <4> HIDE DEF last
      <4> QED BY <1>1, <2>2
    <3>2. 1 \in 1 .. Len(c)
      BY <3>1
    <3> QED BY <3>1, <3>2, LongerAllType
  <2> HIDE DEF P, Q, s, t, m, c, b, last, after
  <2>6. /\ after.recipe = Append(last.recipe, lineno + 1) /\ after.lineno = last.lineno
        /\ after.dollar = last.dollar /\ after.text_dollar = last.text_dollar
        /\ after.targets = last.targets
    BY <2>2, <2>5, LongerType
  <2>7. \A i \in 1 .. m : /\ t[i].lineno = s[i].lineno /\ t[i].dollar = s[i].dollar
                          /\ t[i].text_dollar = s[i].text_dollar /\ t[i].targets = s[i].targets
    BY <2>2, <2>4, LongerType
  <2>8. DOMAIN Q = DOMAIN P
    BY <2>2, <2>3, <2>4
  <2>9. ASSUME NEW i \in DOMAIN P
        PROVE  /\ Q[i].lineno = P[i].lineno /\ Q[i].targets = P[i].targets
               /\ Q[i].dollar = P[i].dollar /\ Q[i].text_dollar = P[i].text_dollar
               /\ Q[i].recipe = Append(P[i].recipe, lineno + 1)
    <3>1. i \in 1 .. m \/ i = m + 1
      BY <2>2
    <3>2. CASE i \in 1 .. m
      <4>1. i \in 1 .. Len(t)
        BY <2>4, <3>2
      <4>2. /\ P[i].lineno = s[i].lineno /\ P[i].targets = s[i].targets
            /\ P[i].dollar = s[i].dollar /\ P[i].text_dollar = s[i].text_dollar
            /\ P[i].recipe = last.recipe
        BY <2>2, <3>2
      <4>3. /\ Q[i].lineno = t[i].lineno /\ Q[i].targets = t[i].targets
            /\ Q[i].dollar = t[i].dollar /\ Q[i].text_dollar = t[i].text_dollar
            /\ Q[i].recipe = after.recipe
        BY <2>3, <4>1
      <4>4. /\ t[i].lineno = s[i].lineno /\ t[i].dollar = s[i].dollar
            /\ t[i].text_dollar = s[i].text_dollar /\ t[i].targets = s[i].targets
        BY <2>7, <3>2
      <4> QED BY <2>6, <4>2, <4>3, <4>4
    <3>3. CASE i = m + 1
      <4>1. P[i] = last
        BY <2>2, <3>3
      <4>2. Q[i] = after
        BY <2>3, <2>4, <3>3
      <4> QED BY <2>6, <4>1, <4>2
    <3> QED BY <3>1, <3>2, <3>3
  <2>10. Cooked(P, Q, lineno + 1)
    BY <2>8, <2>9 DEF Cooked
  <2> QED BY <2>10 DEF P, Q
<1> QED BY <1>2, <1>3

(* A parser that will be reading queued text was caught with an open rule  *)
(* by a conditional.                                                       *)
Hot(f, pending, X) == f.looping \/ pending # <<>> => Exposed(PendingRules(f), X)

(* The inductive invariant of ReadInOrder: the history is in order; the    *)
(* open rules, of the parser at work and of those that wait, stand where   *)
(* they may be registered; and a parser that will read queued text before  *)
(* its own next line has only exposed rules open.                          *)
Ordered ==
  /\ LogFine(db, lineno, exposed)
  /\ frames # <<>> => /\ Fine(db, Front(frames), PendingRules(Top), lineno, exposed)
                      /\ Hot(Top, eval_pending, exposed)

(* What a line leaves.                                                     *)
Outcome ==
  \E g \in Frame : /\ frames' = SetTop(g)
                   /\ Fine(db', Front(frames), PendingRules(g), lineno', exposed')
                   /\ Hot(g, eval_pending', exposed')

(* A line that leaves such a parser on top leaves the invariant.           *)
LEMMA OutcomeGives ==
  ASSUME frames \in Seq(Frame), frames # <<>>, Outcome
  PROVE  Ordered'
<1>1. PICK g \in Frame : /\ frames' = SetTop(g)
                         /\ Fine(db', Front(frames), PendingRules(g), lineno', exposed')
                         /\ Hot(g, eval_pending', exposed')
  BY DEF Outcome
<1>2. Last(frames') = g /\ Front(frames') = Front(frames) /\ frames' # <<>>
  BY <1>1, SetTopHolds
<1>3. Fine(db', Front(frames'), PendingRules(Last(frames')), lineno', exposed')
      /\ Hot(Last(frames'), eval_pending', exposed')
  BY <1>1, <1>2
<1>4. LogFine(db', lineno', exposed')
  BY <1>1 DEF Fine
<1>5. Top' = Last(frames')
  BY DEF Top
<1> QED BY <1>3, <1>4, <1>5 DEF Ordered, Fine, LogFine, WaitFine, TopFine, Hot, Exposed, OpenFine,
          PendingRules, Told, Due

(* What a line that ends in the ordinary way leaves, if the open rules are *)
(* in order.                                                               *)
LEMMA EndFine ==
  ASSUME frames # <<>>, NEW f \in Frame, NEW d \in Base, NEW table, NEW evals,
         NEW recipe \in BOOLEAN, EndLine(f, d, table, evals, recipe),
         Fine(d, Front(frames), PendingRules(f), lineno', exposed'), Front(frames) \in Seq(Frame),
         recipe /\ eval_pending \o evals # <<>> => Exposed(PendingRules(f), exposed')
  PROVE  Outcome
<1> DEFINE g == Ended(f, evals, recipe)
           pending == eval_pending \o evals
<1>1. /\ frames' = SetTop(g) /\ eval_pending' = pending
      /\ \/ pending # <<>> /\ ~recipe /\ db' = Registered(d, f)
         \/ (pending = <<>> \/ recipe) /\ db' = d
  BY EndLineIs
<1>2. /\ g \in Frame
      /\ \/ pending # <<>> /\ ~recipe /\ g.current_rule = <<>> /\ g.siblings = <<>>
         \/ /\ pending = <<>> \/ recipe
            /\ g.current_rule = f.current_rule /\ g.siblings = f.siblings
  BY EndedHolds
<1>3. g.looping => pending # <<>>
  <2> DEFINE b == pending # <<>>
             h == IF b /\ ~recipe THEN Flushed(f) ELSE f
  <2>1. h \in Frame
    BY FlushedType
  <2>2. g = [h EXCEPT !.looping = b]
    BY DEF Ended
  <2> HIDE DEF g, h, b
  <2>3. g.looping = b
    BY <2>1, <2>2 DEF Frame, ParserType
  <2> QED BY <2>3 DEF b
<1> HIDE DEF g, pending
<1>4. CASE pending # <<>> /\ ~recipe
  <2>1. PendingRules(g) = <<>> /\ db' = Registered(d, f)
    BY <1>1, <1>2, <1>4, PendingNone
  <2>2. Fine(db', Front(frames), <<>>, lineno', exposed')
    BY <2>1, FineClosed
  <2>3. Exposed(<<>>, exposed')
    BY NothingOpen
  <2> QED BY <1>1, <1>2, <2>1, <2>2, <2>3 DEF Outcome, Hot
<1>5. CASE pending = <<>> \/ recipe
  <2>1. PendingRules(g) = PendingRules(f) /\ db' = d
    BY <1>1, <1>2, <1>5, PendingSame
  <2>2. pending # <<>> => Exposed(PendingRules(g), exposed')
    BY <1>5, <2>1 DEF pending
  <2> QED BY <1>1, <1>2, <1>3, <2>1, <2>2 DEF Outcome, Hot
<1> QED BY <1>4, <1>5

(* Putting the parser at work back on top changes nothing.                 *)
LEMMA TopSet ==
  ASSUME frames \in Seq(Frame), frames # <<>>
  PROVE  SetTop(Top) = frames
<1> DEFINE f == Last(frames)
           gs == SetTop(f)
           L == Len(frames)
<1>1. f \in Frame /\ f = frames[L] /\ L \in Nat \ {0} /\ DOMAIN frames = 1 .. L
  BY TopHolds
<1>2. /\ gs \in Seq(Frame) /\ Len(gs) = L /\ gs[L] = f
      /\ \A i \in 1 .. L - 1 : gs[i] = frames[i]
  BY <1>1, SetTopHolds
<1> HIDE DEF gs, f, L
<1>3. \A i \in 1 .. L : gs[i] = frames[i]
  <2>1. \A i \in 1 .. L : i \in 1 .. L - 1 \/ i = L
    BY <1>1
  <2> QED BY <1>1, <1>2, <2>1
<1>4. gs = frames
  BY <1>2, <1>3 DEF L
<1> QED BY <1>4 DEF gs, f, Top

(* A conditional leaves the rule open.                                     *)
LEMMA ConditionalFrame ==
  ASSUME Types, CanRead, NEW line \in Lines,
         ReadConditional(line) \/ ReadElse(line) \/ ReadEndif(line)
  PROVE  \E g \in Frame : /\ frames' = SetTop(g) /\ g.looping = FALSE
                          /\ g.current_rule = Top.current_rule /\ g.siblings = Top.siblings
<1>1. \E stack : frames' = SetTop([Taken EXCEPT !.conditional_stack = stack])
                 \/ frames' = SetTop(Taken)
  BY DEF ReadConditional, ReadElse, ReadEndif
<1>2. PICK stack : frames' = SetTop([Taken EXCEPT !.conditional_stack = stack])
                   \/ frames' = SetTop(Taken)
  BY <1>1
<1>3. /\ Taken \in Frame /\ Taken \in ParserType /\ frames \in Seq(Frame) /\ frames # <<>>
      /\ Taken.looping = FALSE /\ Taken.current_rule = Top.current_rule
      /\ Taken.siblings = Top.siblings /\ Top \in Frame
  BY TakenHolds DEF Frame, Types
<1>4. frames' = frames \/ \E g \in Frame : frames' = SetTop(g)
  BY ConditionalType DEF Read
<1>5. CASE frames' = SetTop(Taken)
  BY <1>3, <1>5
<1>6. CASE frames' = frames
  <2>1. SetTop(Top) = frames
    BY <1>3, TopSet
  <2>2. Top.looping = FALSE
    BY <1>3, FrameHolds DEF CanRead
  <2> QED BY <1>3, <1>6, <2>1, <2>2
<1>7. CASE frames' # frames /\ frames' = SetTop([Taken EXCEPT !.conditional_stack = stack])
  <2>1. PICK g \in Frame : frames' = SetTop(g)
    BY <1>4, <1>7
  <2>2. g = [Taken EXCEPT !.conditional_stack = stack]
    BY <1>3, <1>7, <2>1, SetTopSame
  <2>3. g.current_rule = Taken.current_rule /\ g.siblings = Taken.siblings
        /\ g.looping = Taken.looping
    BY <1>3, <2>2 DEF ParserType
  <2> QED BY <1>3, <2>1, <2>3
<1> QED BY <1>2, <1>5, <1>6, <1>7

(* When a conditional queues text the rules that are open are noted.       *)
LEMMA QueueExposes ==
  ASSUME NEW f \in Frame, Uniform(PendingRules(f)), NEW X,
         \A rule \in ToSet(f.current_rule) : rule.lineno \in X
  PROVE  Exposed(PendingRules(f), X)
<1>1. CASE f.current_rule = <<>>
  BY <1>1, PendingNone DEF Exposed
<1>2. CASE f.current_rule # <<>>
  <2> DEFINE P == PendingRules(f)
             m == Len(f.siblings)
             last == f.current_rule[1]
  <2>1. m \in Nat /\ DOMAIN P = 1 .. m + 1 /\ P[m + 1] = last /\ f.current_rule = <<last>>
    BY <1>2, PendingFields
  <2>2. last.lineno \in X
    <3>1. ToSet(<<last>>) = {last}
      BY DEF ToSet
    <3> HIDE DEF last
    <3> QED BY <2>1, <3>1
  <2> HIDE DEF P, m, last
  <2>3. m + 1 \in DOMAIN P
    BY <2>1
  <2>4. \A i \in DOMAIN P : Alike(P[i], last)
    BY <2>1, <2>3 DEF Uniform, P
  <2>5. Exposed(P, X)
    BY <2>2, <2>4 DEF Exposed, Alike
  <2> QED BY <2>5 DEF P
<1> QED BY <1>1, <1>2

(* What is so when a line is taken.                                        *)
LEMMA OrderedHolds ==
  ASSUME Types, Ordered, CanRead
  PROVE  /\ frames \in Seq(Frame) /\ frames # <<>> /\ Top \in Frame /\ Taken \in Frame
         /\ Front(frames) \in Seq(Frame) /\ PendingRules(Top) \in Seq(Rule)
         /\ Fine(db, Front(frames), PendingRules(Top), lineno, exposed)
         /\ eval_pending # <<>> => Exposed(PendingRules(Top), exposed)
         /\ Registered(db, Taken) \in Base /\ db \in Base
         /\ Fine(Registered(db, Taken), Front(frames), <<>>, lineno, exposed)
         /\ lineno \in Nat /\ lineno + 1 \in Nat /\ lineno <= lineno + 1
         /\ PendingRules(Taken) = PendingRules(Top)
<1>1. /\ frames \in Seq(Frame) /\ frames # <<>> /\ Top \in Frame /\ Taken \in Frame
      /\ Registered(db, Taken) \in Base /\ db \in Base /\ lineno \in Nat
      /\ PendingRules(Taken) = PendingRules(Top)
  BY TakenHolds DEF Types
<1>2. Front(frames) \in Seq(Frame) /\ PendingRules(Top) \in Seq(Rule)
  BY <1>1, SetTopIn, PendingType
<1>3. /\ Fine(db, Front(frames), PendingRules(Top), lineno, exposed)
      /\ eval_pending # <<>> => Exposed(PendingRules(Top), exposed)
  BY <1>1 DEF Ordered, Hot
<1>4. Fine(Registered(db, Taken), Front(frames), <<>>, lineno, exposed)
  BY <1>1, <1>2, <1>3, FineClosed
<1> QED BY <1>1, <1>2, <1>3, <1>4

(* Lines that leave the rule open, and the others.                         *)
LEMMA LineFine ==
  ASSUME Types, Ordered, CanRead, lineno' = lineno + 1, exposed \subseteq exposed', NEW e \in Base
  PROVE  /\ Same(db, e) => Fine(e, Front(frames), PendingRules(Top), lineno', exposed')
         /\ Same(Registered(db, Taken), e) => Fine(e, Front(frames), <<>>, lineno', exposed')
<1>1. <<>> \in Seq(Rule)
  OBVIOUS
<1> QED BY <1>1, OrderedHolds, FineLater

(* A line that keeps the open rules open, and exposes them if it queues    *)
(* text, leaves the invariant.                                             *)
LEMMA KeepsOpen ==
  ASSUME Types, Ordered, CanRead, lineno' = lineno + 1, exposed \subseteq exposed',
         eval_pending' # <<>> /\ eval_pending = <<>> => Exposed(PendingRules(Top), exposed'),
         db' \in Base, Same(db, db'), NEW g \in Frame, frames' = SetTop(g), g.looping = FALSE,
         g.current_rule = Top.current_rule, g.siblings = Top.siblings
  PROVE  Outcome
<1>1. PendingRules(g) = PendingRules(Top)
  BY PendingSame
<1>2. Fine(db', Front(frames), PendingRules(g), lineno', exposed')
  BY <1>1, LineFine
<1>3. Hot(g, eval_pending', exposed')
  BY <1>1, OrderedHolds DEF Hot, Exposed
<1> QED BY <1>2, <1>3 DEF Outcome

(* A conditional keeps the open rules open and exposes them.               *)
LEMMA ConditionalFine ==
  ASSUME Types, Ordered, CanRead, NEW line \in Lines, OrdinaryLine(line),
         ReadConditional(line) \/ ReadElse(line) \/ ReadEndif(line)
  PROVE  Outcome
<1>1. PICK g \in Frame : /\ frames' = SetTop(g) /\ g.looping = FALSE
                         /\ g.current_rule = Top.current_rule /\ g.siblings = Top.siblings
  BY ConditionalFrame
<1>2. db' = db /\ lineno' = lineno + 1 /\ db \in Base /\ exposed \subseteq exposed'
  BY LineTypes, LineHistory DEF Types, ReadConditional, ReadElse, ReadEndif
<1>3. \/ eval_pending' = eval_pending
      \/ \E evals : Queue(evals)
  <2>1. CASE ReadEndif(line)
    BY <2>1 DEF ReadEndif
  <2>2. CASE ReadConditional(line)
    BY <2>2 DEF ReadConditional
  <2>3. CASE ReadElse(line)
    BY <2>3 DEF ReadElse
  <2> QED BY <2>1, <2>2, <2>3
<1>4. eval_pending' # <<>> /\ eval_pending = <<>> => Exposed(PendingRules(Top), exposed')
  <2>1. CASE eval_pending' = eval_pending
    BY <2>1
  <2>2. ASSUME NEW evals, Queue(evals), eval_pending' # <<>>, eval_pending = <<>>
        PROVE  Exposed(PendingRules(Top), exposed')
    <3>1. evals # <<>>
      <4>1. <<>> \o <<>> = <<>>
        OBVIOUS
      <4> QED BY <2>2, <4>1 DEF Queue
    <3>2. \A rule \in ToSet(Top.current_rule) : rule.lineno \in exposed'
      BY <2>2, <3>1 DEF Queue
    <3>3. Uniform(PendingRules(Top)) /\ Top \in Frame
      BY OrderedHolds DEF Fine, TopFine, OpenFine
    <3> QED BY <3>2, <3>3, QueueExposes
  <2> QED BY <1>3, <2>1, <2>2
<1>5. Same(db, db')
  BY <1>2 DEF Same
<1> QED BY <1>1, <1>2, <1>4, <1>5, KeepsOpen

(* The rules that a line opens.                                            *)
LEMMA RuleFresh ==
  ASSUME Types, CanRead, NEW line \in Lines, line.kind = "rule"
  PROVE  /\ Opened(RuleOf(line), <<>>) \in Frame
         /\ Fresh(Registered(db, Taken), PendingRules(Opened(RuleOf(line), <<>>)), lineno + 1)
<1> DEFINE f == Opened(RuleOf(line), <<>>)
           rule == RuleOf(line)
           d == Registered(db, Taken)
<1>1. /\ rule \in Rule /\ rule.lineno = lineno + 1 /\ lineno \in Nat
      /\ \A k \in DOMAIN rule.recipe : rule.recipe[k] = lineno + 1
      /\ rule.dollar <=> rule.text_dollar /\ d.second_expansion
  BY RuleOfType DEF Types
<1>2. f \in Frame /\ f.current_rule = <<rule>> /\ f.siblings = <<>>
  <2>1. <<>> \in Seq(Rule)
    OBVIOUS
  <2> QED BY <1>1, <2>1, OpenedType
<1> HIDE DEF f, rule, d
<1>3. f.current_rule # <<>> /\ f.current_rule[1] = rule /\ DOMAIN f.siblings = {}
  BY <1>2
<1>4. lineno + 1 \in Nat /\ \A k \in DOMAIN rule.recipe : rule.recipe[k] <= lineno + 1
  BY <1>1
<1>5. Fresh(d, PendingRules(f), lineno + 1)
  BY <1>1, <1>2, <1>3, <1>4, PendingFresh
<1> QED BY <1>2, <1>5 DEF f, d, rule

(* A static pattern rule opens its rules on its own line.                  *)
LEMMA StaticFresh ==
  ASSUME Types, CanRead, NEW line \in Lines, line.kind = "static", StaticOf(line) # <<>>
  PROVE  LET f == Opened(Last(StaticOf(line)), Front(StaticOf(line)))
         IN  /\ f \in Frame
             /\ Fresh(Registered(db, Taken), PendingRules(f), lineno + 1)
<1> DEFINE read == StaticOf(line)
           last == Last(read)
           front == Front(read)
           f == Opened(last, front)
           d == Registered(db, Taken)
<1>1. /\ read \in Seq(Rule) /\ lineno \in Nat
      /\ \A i \in 1 .. Len(read) :
           /\ read[i].lineno = lineno + 1
           /\ read[i].recipe = [k \in DOMAIN line.rule.recipe |-> lineno + 1]
           /\ read[i].dollar <=> read[i].text_dollar /\ d.second_expansion
  BY StaticOfType DEF Types
<1>2. /\ last \in Rule /\ front \in Seq(Rule) /\ Len(read) \in Nat \ {0} /\ last = read[Len(read)]
      /\ Len(front) = Len(read) - 1 /\ \A i \in 1 .. Len(read) - 1 : front[i] = read[i]
  <2> HIDE DEF read
  <2> QED BY <1>1, LastFront DEF read
<1>3. f \in Frame /\ f.current_rule = <<last>> /\ f.siblings = front
  BY <1>2, OpenedType
<1> HIDE DEF f, last, front, read, d
<1>4. DOMAIN front = 1 .. Len(read) - 1 /\ Len(read) \in 1 .. Len(read)
      /\ \A i \in 1 .. Len(read) - 1 : i \in 1 .. Len(read)
  BY <1>2
<1>5. /\ last.lineno = lineno + 1 /\ (last.dollar <=> last.text_dollar /\ d.second_expansion)
      /\ \A k \in DOMAIN last.recipe : last.recipe[k] = lineno + 1
  BY <1>1, <1>2, <1>4
<1>6. \A i \in DOMAIN front : /\ front[i].lineno = lineno + 1
                              /\ front[i].dollar <=> front[i].text_dollar /\ d.second_expansion
  BY <1>1, <1>2, <1>4
<1>7. f.current_rule # <<>> /\ f.current_rule[1] = last
  BY <1>3
<1>8. lineno + 1 \in Nat /\ \A k \in DOMAIN last.recipe : last.recipe[k] <= lineno + 1
  BY <1>1, <1>5
<1>9. Fresh(d, PendingRules(f), lineno + 1)
  BY <1>3, <1>5, <1>6, <1>7, <1>8, PendingFresh
<1> QED BY <1>3, <1>9 DEF f, last, front, read, d

(* Taking the default goal from a rule's line leaves the history alone.    *)
LEMMA GoalSame ==
  ASSUME Types, CanRead, NEW line \in Lines, line.kind = "rule"
  PROVE  LET d == Registered(db, Taken)
             e == GoalStarted(line)
         IN  /\ e \in Base /\ Same(d, e) /\ e.stopped = d.stopped
             /\ e.default_goal_explicit = d.default_goal_explicit
             /\ e.default_target = GoalAfter(d, RuleOf(line).targets)
<1> DEFINE d == Registered(db, Taken)
           v == d.posix_mode \/ Contains(RuleOf(line).targets, <<"POSIX">>)
           p == [d EXCEPT !.posix_mode = v]
           targets == RuleOf(line).targets
           e == DefaultFrom(p, targets)
<1>1. d \in Base /\ v \in BOOLEAN /\ GoalStarted(line) = e /\ GoalStarted(line) \in Base
  <2>1. d \in Base
    BY TakenHolds
  <2>2. d.posix_mode \in BOOLEAN
    BY <2>1, BaseHolds
  <2> QED BY <2>1, <2>2, RuleOfType DEF GoalStarted
<1>2. targets \in Seq(FileName)
  BY RuleOfType, RuleHolds
<1> HIDE DEF d, v, targets
<1>3. p \in Base /\ Equal(d, p)
  <2>1. p \in Base
    BY <1>1, BaseWith
  <2>2. Equal(d, p)
    BY <1>1 DEF Base, Database, Equal, Same
  <2> QED BY <2>1, <2>2
<1> HIDE DEF p
<1>4. /\ e.log = p.log /\ e.default_goal_explicit = p.default_goal_explicit
      /\ e.stopped = p.stopped /\ e.second_expansion = p.second_expansion
      /\ e.default_target = GoalAfter(p, targets)
  BY <1>2, <1>3, DefaultIs DEF Quiet
<1> HIDE DEF e
<1>5. GoalAfter(p, targets) = GoalAfter(d, targets)
  BY <1>3 DEF GoalAfter, Equal
<1>6. /\ e \in Base /\ Same(d, e) /\ e.stopped = d.stopped
      /\ e.default_goal_explicit = d.default_goal_explicit
      /\ e.default_target = GoalAfter(d, targets)
  BY <1>1, <1>3, <1>4, <1>5 DEF Equal, Same
<1> QED BY <1>1, <1>6 DEF d, targets

(* An assignment leaves the history alone; only one to .DEFAULT_GOAL       *)
(* changes the goal, or stops at several.                                  *)
LEMMA AssignedSame ==
  ASSUME Types, CanRead, NEW a \in Assignment
  PROVE  LET d == Registered(db, Taken)
             e == AssignedBase(a)
         IN  /\ e \in Base /\ Same(d, e)
             /\ ~Special_goal(a) => e = d
             /\ Special_goal(a) => \/ e.stopped
                                   \/ /\ e.default_target = Goal(a)
                                      /\ e.default_goal_explicit <=> a.value # <<>>
<1> DEFINE d == Registered(db, Taken)
           goal == Goal(a)
           b == a.value # <<>>
           e == AssignedBase(a)
<1>1. d \in Base /\ e \in Base
  BY TakenHolds, AssignedType
<1>2. CASE Special_goal(a)
  <2>1. e \in {[d EXCEPT !.stopped = TRUE],
              [d EXCEPT !.default_target = goal, !.default_goal_explicit = b]}
    BY <1>2 DEF AssignedBase, SetGoal
  <2> HIDE DEF d, goal, b, e
  <2>2. Same(d, e)
    BY <1>1, <2>1 DEF Base, Database, Same
  <2>3. e.stopped = TRUE \/ (e.default_target = goal /\ e.default_goal_explicit = b)
    BY <1>1, <2>1 DEF Base, Database
  <2>4. /\ e \in Base /\ Same(d, e)
        /\ e.stopped \/ (e.default_target = goal /\ (e.default_goal_explicit <=> b))
    BY <1>1, <2>2, <2>3
  <2> QED BY <1>2, <2>4 DEF d, goal, b, e
<1>3. CASE ~Special_goal(a)
  BY <1>1, <1>3 DEF AssignedBase, Same
<1> QED BY <1>2, <1>3

(* A target-specific variable leaves the history and the goal alone.       *)
LEMMA VariableSame ==
  ASSUME NEW d \in Base, NEW target \in FileName \ {<<>>}, NEW n \in Nat
  PROVE  /\ TargetVariable(d, target, Placeholder(target), n) \in Base
         /\ Equal(d, TargetVariable(d, target, Placeholder(target), n))
<1> DEFINE p == Placeholder(target)
           e == TargetVariable(d, target, p, n)
<1>1. p \in Rule
  BY PlaceholderType
<1> HIDE DEF p
<1>2. e \in Base
  BY <1>1, TargetVariableType
<1>3. Silent(d, e)
  <2> DEFINE holders == IF RulesOf(d, target) = <<>> THEN <<p>> ELSE RulesOf(d, target)
             rules == [k \in DOMAIN holders |-> [holders[k] EXCEPT !.vars = Append(@, n)]]
  <2>1. e = SetRules(d, target, rules)
    BY DEF TargetVariable
  <2> HIDE DEF rules
  <2> QED BY <2>1, SetRulesIs
<1> HIDE DEF e
<1>4. Equal(d, e)
  BY <1>3 DEF Silent, Quiet, Equal, Same
<1> QED BY <1>2, <1>4 DEF e, p

(* export and unexport leave the history and the goal alone.               *)
LEMMA ExportSame ==
  ASSUME Types, CanRead, NEW line \in Lines, ReadExport(line)
  PROVE  ExportBase(line) \in Base /\ Equal(db, ExportBase(line))
<1> DEFINE v == db.export_all \/ (line.names = {} /\ line.mark = "exported")
           w == db.unexport_all \/ (line.names = {} /\ line.mark = "unexported")
<1>1. ExportBase(line) = [db EXCEPT !.export_all = v, !.unexport_all = w]
      /\ db \in Base /\ ExportBase(line) \in Base
  BY ExportType DEF ExportBase, Types
<1> HIDE DEF v, w
<1>2. Equal(db, [db EXCEPT !.export_all = v, !.unexport_all = w])
  BY <1>1 DEF Base, Database, Equal, Same
<1> QED BY <1>1, <1>2

(* A vpath line leaves the history and the goal alone.                     *)
LEMMA VpathSame ==
  ASSUME Types, CanRead, NEW line \in Lines, ReadVpath(line)
  PROVE  LET d == Registered(db, Taken)
             e == [d EXCEPT !.vpath = VpathOf(line)]
         IN  e \in Base /\ Equal(d, e)
<1> DEFINE d == Registered(db, Taken)
           v == VpathOf(line)
           e == [d EXCEPT !.vpath = v]
<1>1. d \in Base /\ v \in Seq(Seq(Seq(STRING)))
  BY TakenHolds, VpathType
<1> HIDE DEF d, v
<1>2. e \in Base /\ Equal(d, e)
  BY <1>1, BaseWith, FieldsSame
<1> QED BY <1>2 DEF d, v

(* An include line leaves the history as closing the open rules left it.   *)
LEMMA IncludeSame ==
  ASSUME Types, CanRead, NEW line \in Lines, ReadInclude(line)
  PROVE  db' \in Base /\ Equal(Registered(db, Taken), db')
<1> DEFINE d == Registered(db, Taken)
           v == d.explicitly_mentioned \cup {<<line.file>>}
<1>1. d \in Base /\ db' = [d EXCEPT !.explicitly_mentioned = v] /\ db' \in Base
  BY TakenHolds, IncludeHolds
<1> HIDE DEF d, v
<1>2. Equal(d, db')
  BY <1>1, FieldsSame
<1> QED BY <1>1, <1>2 DEF d

(* A line that closes the rule above it, and a line that opens one.        *)
LEMMA Closes ==
  ASSUME Types, Ordered, CanRead, lineno' = lineno + 1, exposed \subseteq exposed',
         NEW e \in Base, Same(Registered(db, Taken), e), NEW table, NEW evals,
         EndLine(Flushed(Taken), e, table, evals, FALSE)
  PROVE  Outcome
<1>1. Flushed(Taken) \in Frame /\ PendingRules(Flushed(Taken)) = <<>>
  BY OrderedHolds, FlushedType, PendingNone
<1>2. Fine(e, Front(frames), <<>>, lineno', exposed')
  BY LineFine
<1> QED BY <1>1, <1>2, OrderedHolds, EndFine

(* A line that closes the open rules and opens its own leaves the          *)
(* invariant.                                                              *)
LEMMA Opens ==
  ASSUME Types, Ordered, CanRead, lineno' = lineno + 1, exposed' = exposed,
         NEW e \in Base, Same(Registered(db, Taken), e), NEW table, NEW evals, NEW f \in Frame,
         Fresh(Registered(db, Taken), PendingRules(f), lineno + 1),
         EndLine(f, e, table, evals, FALSE)
  PROVE  Outcome
<1>1. Fresh(e, PendingRules(f), lineno + 1)
  BY DEF Fresh, Same
<1>2. PendingRules(f) \in Seq(Rule) /\ lineno \in Nat /\ Front(frames) \in Seq(Frame)
  BY PendingType, OrderedHolds
<1>3. Fine(e, Front(frames), <<>>, lineno, exposed)
  <2>1. lineno <= lineno /\ exposed \subseteq exposed /\ <<>> \in Seq(Rule)
    BY <1>2
  <2> QED BY <1>2, <2>1, OrderedHolds, FineLater
<1>4. Fine(e, Front(frames), PendingRules(f), lineno + 1, exposed)
  BY <1>1, <1>2, <1>3, FineOpened
<1> QED BY <1>4, OrderedHolds, EndFine

(* A line that leaves the rule open.                                       *)
LEMMA Leaves ==
  ASSUME Types, Ordered, CanRead, lineno' = lineno + 1, exposed \subseteq exposed',
         NEW e \in Base, Same(db, e), NEW table, NEW evals, NEW f \in Frame,
         f.current_rule = Top.current_rule, f.siblings = Top.siblings,
         EndLine(f, e, table, evals, FALSE)
  PROVE  Outcome
<1>1. PendingRules(f) = PendingRules(Top)
  BY PendingSame
<1>2. Fine(e, Front(frames), PendingRules(f), lineno', exposed')
  BY <1>1, LineFine
<1> QED BY <1>2, OrderedHolds, EndFine

(* A recipe line leaves the invariant.                                     *)
LEMMA Cooks ==
  ASSUME Types, Ordered, CanRead, lineno' = lineno + 1, exposed' = exposed, NEW table,
         EndLine(Cooking, db, table, <<>>, TRUE)
  PROVE  Outcome
<1> DEFINE P == PendingRules(Top)
           Q == PendingRules(Cooking)
<1>1. Cooking \in Frame /\ Cooked(P, Q, lineno + 1)
  BY OrderedHolds, CookingType, PendingCooked
<1>2. P \in Seq(Rule) /\ Q \in Seq(Rule)
  BY <1>1, OrderedHolds, PendingType
<1> HIDE DEF P, Q
<1>3. Fine(db, Front(frames), Q, lineno + 1, exposed)
  BY <1>1, <1>2, OrderedHolds, FineCooked DEF P
<1>4. eval_pending \o <<>> # <<>> => Exposed(Q, exposed)
  <2>1. <<>> \o <<>> = <<>>
    OBVIOUS
  <2>2. eval_pending \o <<>> # <<>> => Exposed(P, exposed)
    BY <2>1, OrderedHolds DEF P
  <2>3. Exposed(P, exposed) => Exposed(Q, exposed)
    BY <1>1 DEF Exposed, Cooked
  <2> QED BY <2>2, <2>3
<1> QED BY <1>1, <1>3, <1>4, OrderedHolds, EndFine DEF Q

(* Every line but include leaves the invariant, by its kind.               *)
LEMMA LineOrdered ==
  ASSUME Types, Ordered, CanRead, NEW line \in Lines, OrdinaryLine(line)
  PROVE  Outcome
<1>1. /\ lineno' = lineno + 1 /\ exposed \subseteq exposed' /\ db \in Base
      /\ Registered(db, Taken) \in Base /\ Same(db, db)
      /\ Same(Registered(db, Taken), Registered(db, Taken))
      /\ Taken \in Frame /\ Taken.looping = FALSE
      /\ Taken.current_rule = Top.current_rule /\ Taken.siblings = Top.siblings
      /\ Top \in Frame /\ Top.looping = FALSE /\ SetTop(Top) = frames
  <2>1. lineno' = lineno + 1 /\ exposed \subseteq exposed'
    BY LineTypes, LineHistory
  <2>2. Top.looping = FALSE /\ SetTop(Top) = frames
    BY TakenHolds, FrameHolds, TopSet DEF CanRead, Types
  <2> QED BY <2>1, <2>2, OrderedHolds, TakenHolds DEF Same
<1>2. CASE ReadInDefine(line)
  <2>1. PICK v \in Seq(Block) : Len(v) <= 1 /\ frames' = SetTop([Taken EXCEPT !.define = v])
    BY <1>2, InDefineType
  <2>2. [Taken EXCEPT !.define = v] \in Frame
    BY <1>1, <2>1, FrameWith
  <2>3. /\ [Taken EXCEPT !.define = v].current_rule = Taken.current_rule
        /\ [Taken EXCEPT !.define = v].siblings = Taken.siblings
        /\ [Taken EXCEPT !.define = v].looping = Taken.looping
    BY <1>1 DEF Frame, ParserType
  <2>4. db' = db /\ eval_pending' = eval_pending
    BY <1>2 DEF ReadInDefine
  <2> QED BY <1>1, <2>1, <2>2, <2>3, <2>4, KeepsOpen
<1>3. CASE ReadInDeadBranch(line)
  <2>1. db' = db /\ eval_pending' = eval_pending /\ frames' = SetTop(Taken)
    BY <1>3 DEF ReadInDeadBranch
  <2> QED BY <1>1, <2>1, KeepsOpen
<1>4. CASE ReadMissingSeparator(line)
  <2>1. db' = [db EXCEPT !.stopped = TRUE] /\ eval_pending' = eval_pending /\ frames' = frames
    BY <1>4 DEF ReadMissingSeparator
  <2>2. db' \in Base /\ Same(db, db')
    BY <1>1, <2>1, StoppedType, FieldsSame
  <2> QED BY <1>1, <2>1, <2>2, KeepsOpen
<1>5. CASE ReadConditional(line) \/ ReadElse(line) \/ ReadEndif(line)
  BY <1>5, ConditionalFine
<1>6. CASE ReadRule(line)
  <2>1. EndLine(Opened(RuleOf(line), <<>>), GoalStarted(line),
                Shown(variables, db, GoalStarted(line)), line.evals, FALSE)
        /\ line.kind = "rule" /\ exposed' = exposed
    BY <1>6, RuleType DEF ReadRule, Reads, Rest, Settled
  <2>2. GoalStarted(line) \in Base /\ Same(Registered(db, Taken), GoalStarted(line))
    BY <2>1, GoalSame
  <2> QED BY <1>1, <2>1, <2>2, RuleFresh, Opens
<1>7. CASE ReadStaticPattern(line)
  <2> DEFINE d == Registered(db, Taken)
             f == Opened(Last(StaticOf(line)), Front(StaticOf(line)))
  <2>1. CASE frames' = SetTop(Flushed(Taken)) /\ db' = d
    <3>1. Flushed(Taken) \in Frame /\ PendingRules(Flushed(Taken)) = <<>>
      BY <1>1, FlushedType, PendingNone
    <3>2. Fine(db', Front(frames), <<>>, lineno', exposed')
      BY <1>1, <2>1, LineFine
    <3>3. Hot(Flushed(Taken), eval_pending', exposed')
      BY <3>1, NothingOpen DEF Hot
    <3> QED BY <2>1, <3>1, <3>2, <3>3 DEF Outcome
  <2>2. CASE StaticOf(line) # <<>> /\ EndLine(f, d, Shown(variables, db, d), line.evals, FALSE)
    <3>1. line.kind = "static" /\ exposed' = exposed
      BY <1>7 DEF ReadStaticPattern, Reads, Rest, Settled
    <3>2. f \in Frame /\ Fresh(d, PendingRules(f), lineno + 1)
      BY <2>2, <3>1, StaticFresh
    <3> HIDE DEF f
    <3> QED BY <1>1, <2>2, <3>1, <3>2, Opens
  <2> HIDE DEF d, f
  <2> QED BY <1>7, <2>1, <2>2, StaticLineType DEF d, f
<1>8. CASE ReadRecipe(line)
  <2>1. exposed' = exposed
    BY <1>8 DEF ReadRecipe, Rest, Settled
  <2>2. CASE EndLine(Cooking, db, variables, <<>>, TRUE)
    BY <1>1, <2>1, <2>2, Cooks
  <2>3. CASE db' = [db EXCEPT !.stopped = TRUE] /\ frames' = frames /\ eval_pending' = eval_pending
    <3>1. db' \in Base /\ Same(db, db')
      BY <1>1, <2>3, StoppedType, FieldsSame
    <3> QED BY <1>1, <2>3, <3>1, KeepsOpen
  <2> QED BY <1>8, <2>2, <2>3, RecipeType
<1>9. CASE ReadAssignment(line)
  <2> DEFINE a == AssignmentOf(line)
  <2>1. a \in Assignment /\ EndLine(Flushed(Taken), AssignedBase(a), AssignedTable(a), line.evals, FALSE)
    BY <1>9, AssignmentType
  <2>2. AssignedBase(a) \in Base /\ Same(Registered(db, Taken), AssignedBase(a))
    BY <2>1, AssignedSame
  <2> QED BY <1>1, <2>1, <2>2, Closes
<1>10. CASE ReadTargetVariable(line)
  <2> DEFINE d == Registered(db, Taken)
             e == TargetVariable(d, line.target, Placeholder(line.target), lineno + 1)
  <2>1. line.target \in FileName \ {<<>>} /\ EndLine(Flushed(Taken), e, ShownTable, <<>>, FALSE)
    BY <1>10, TargetVariableLineType
  <2>2. e \in Base /\ Same(d, e)
    BY <1>1, <2>1, OrderedHolds, VariableSame DEF Equal
  <2> HIDE DEF e
  <2> QED BY <1>1, <2>1, <2>2, Closes
<1>11. CASE ReadExport(line)
  BY <1>1, <1>11, ExportType, ExportSame, Leaves DEF Equal
<1>12. CASE ReadUndefine(line)
  BY <1>1, <1>12, UndefineLineType, Leaves
<1>13. CASE ReadDefine(line)
  BY <1>1, <1>13, DefineLineType, Leaves
<1>14. CASE ReadEmpty(line)
  BY <1>1, <1>14, EmptyType, Leaves
<1>15. CASE ReadVpath(line)
  BY <1>1, <1>15, VpathType, VpathSame, Closes DEF Equal
<1> QED BY <1>2, <1>3, <1>4, <1>5, <1>6, <1>7, <1>8, <1>9, <1>10, <1>11, <1>12, <1>13, <1>14,
          <1>15 DEF OrdinaryLine

(* The invariant after a step, by its parts.                               *)
LEMMA OrderedNext ==
  ASSUME LogFine(db', lineno', exposed'),
         frames' # <<>> =>
           /\ Fine(db', Front(frames'), PendingRules(Last(frames')), lineno', exposed')
           /\ Hot(Last(frames'), eval_pending', exposed')
  PROVE  Ordered'
<1>1. Top' = Last(frames')
  BY DEF Top
<1> QED BY <1>1 DEF Ordered, Fine, LogFine, WaitFine, TopFine, Hot, Exposed, OpenFine,
          PendingRules, Told, Due

(* Taking the parser off that was just put on top.                         *)
LEMMA FrontAppend ==
  ASSUME NEW fs \in Seq(Frame), NEW f \in Frame
  PROVE  Last(Append(fs, f)) = f /\ Front(Append(fs, f)) = fs
<1> DEFINE gs == Append(fs, f)
           L == Len(fs)
<1>1. /\ gs \in Seq(Frame) /\ gs # <<>> /\ Len(gs) = L + 1 /\ gs[L + 1] = f
      /\ \A i \in 1 .. L : gs[i] = fs[i]
  BY PushHolds
<1> HIDE DEF gs
<1>2. /\ Last(gs) = gs[Len(gs)] /\ Front(gs) \in Seq(Frame) /\ Len(Front(gs)) = Len(gs) - 1
      /\ \A i \in 1 .. Len(gs) - 1 : Front(gs)[i] = gs[i]
  BY <1>1, TopHolds
<1> DEFINE rest == Front(gs)
<1>3. rest \in Seq(Frame) /\ Len(rest) = L /\ L \in Nat /\ \A i \in 1 .. L : rest[i] = fs[i]
  BY <1>1, <1>2
<1> HIDE DEF rest
<1>4. rest = fs
  BY <1>3
<1> QED BY <1>1, <1>2, <1>4 DEF gs, rest

(* A parser ends, and the one below goes on.                               *)
LEMMA PopGives ==
  ASSUME frames \in Seq(Frame), frames # <<>>, frames' = Front(frames), db' \in Base,
         LogFine(db', lineno', exposed'), WaitFine(db', Front(frames), lineno', exposed')
  PROVE  Ordered'
<1>1. frames' \in Seq(Frame)
  BY TopHolds
<1>2. ASSUME frames' # <<>>
      PROVE  /\ Fine(db', Front(frames'), PendingRules(Last(frames')), lineno', exposed')
             /\ Hot(Last(frames'), eval_pending', exposed')
  BY <1>1, <1>2, FinePopped DEF Hot
<1> QED BY <1>2, OrderedNext

(* A parser begins, and that below waits.                                  *)
LEMMA PushGives ==
  ASSUME NEW rest \in Seq(Frame), NEW f \in Frame, NEW new \in Frame,
         frames' = Append(Append(rest, f), new), new.current_rule = <<>>,
         Fine(db', rest, PendingRules(f), lineno', exposed'), Exposed(PendingRules(f), exposed')
  PROVE  Ordered'
<1> DEFINE fs == Append(rest, f)
<1>1. fs \in Seq(Frame) /\ Fine(db', fs, <<>>, lineno', exposed')
  BY PushHolds, FinePushed
<1> HIDE DEF fs
<1>2. Last(frames') = new /\ Front(frames') = fs
  BY <1>1, FrontAppend DEF fs
<1>3. PendingRules(new) = <<>> /\ Hot(new, eval_pending', exposed')
  BY PendingNone, NothingOpen DEF Hot
<1>4. LogFine(db', lineno', exposed')
  BY <1>1 DEF Fine
<1> QED BY <1>1, <1>2, <1>3, <1>4, OrderedNext

(* The first parser begins.                                                *)
LEMMA NewGives ==
  ASSUME NEW new \in Frame, frames' = <<new>>, new.current_rule = <<>>,
         LogFine(db', lineno', exposed')
  PROVE  Ordered'
<1>1. <<>> \in Seq(Frame) /\ frames' = Append(<<>>, new)
  OBVIOUS
<1>2. Last(frames') = new /\ Front(frames') = <<>>
  BY <1>1, FrontAppend
<1>3. PendingRules(new) = <<>> /\ Hot(new, eval_pending', exposed')
  BY PendingNone, NothingOpen DEF Hot
<1>4. WaitFine(db', <<>>, lineno', exposed')
  BY DEF WaitFine
<1>5. Fine(db', <<>>, <<>>, lineno', exposed')
  BY <1>4, NothingOpen DEF Fine
<1> QED BY <1>2, <1>3, <1>5, OrderedNext

(* An include line leaves the invariant: the parser that waits has         *)
(* registered its rules.                                                   *)
LEMMA IncludeOrdered ==
  ASSUME Types, Ordered, CanRead, NEW line \in Lines, ReadInclude(line)
  PROVE  Ordered'
<1> DEFINE new == Parser("include", line.file, line.ignore, <<>>)
<1>1. /\ lineno' = lineno + 1 /\ exposed' = exposed /\ new \in Frame
      /\ frames' = Append(SetTop(Waiting), new) \/ frames' = SetTop(Waiting)
  BY IncludeHolds
<1>2. new.current_rule = <<>>
  BY ParserStack
<1> HIDE DEF new
<1>3. Waiting \in Frame /\ PendingRules(Waiting) = <<>>
  BY WaitingType, PendingNone
<1>4. Fine(db', Front(frames), <<>>, lineno', exposed')
  BY <1>1, IncludeSame, LineFine DEF Equal
<1>5. Exposed(<<>>, exposed')
  BY NothingOpen
<1>6. CASE frames' = SetTop(Waiting)
  <2>1. Outcome
    BY <1>3, <1>4, <1>5, <1>6 DEF Outcome, Hot
  <2> QED BY <2>1, OrderedHolds, OutcomeGives
<1>7. CASE frames' = Append(SetTop(Waiting), new)
  <2>1. SetTop(Waiting) = Append(Front(frames), Waiting) /\ Front(frames) \in Seq(Frame)
    BY OrderedHolds DEF SetTop
  <2> QED BY <1>1, <1>2, <1>3, <1>4, <1>5, <1>7, <2>1, PushGives
<1> QED BY <1>1, <1>6, <1>7

(* The history does not change, nor what is open.                          *)
LEMMA FineSame ==
  ASSUME Types, Ordered, lineno' = lineno, exposed' = exposed, db' \in Base, Same(db, db')
  PROVE  /\ LogFine(db', lineno', exposed')
         /\ frames # <<>> => /\ Top \in Frame /\ Front(frames) \in Seq(Frame)
                             /\ Fine(db', Front(frames), PendingRules(Top), lineno', exposed')
                             /\ Hot(Top, eval_pending, exposed')
<1>1. lineno \in Nat /\ lineno <= lineno /\ exposed \subseteq exposed /\ db \in Base
      /\ frames \in Seq(Frame)
  BY DEF Types
<1>2. LogFine(db', lineno', exposed')
  BY <1>1, LogFineLater DEF Ordered
<1>3. ASSUME frames # <<>>
      PROVE  /\ Top \in Frame /\ Front(frames) \in Seq(Frame)
             /\ Fine(db', Front(frames), PendingRules(Top), lineno', exposed')
             /\ Hot(Top, eval_pending, exposed')
  <2>1. Top \in Frame /\ Front(frames) \in Seq(Frame)
    BY <1>1, <1>3, SetTopIn
  <2>2. PendingRules(Top) \in Seq(Rule)
    BY <2>1, PendingType
  <2>3. Fine(db, Front(frames), PendingRules(Top), lineno, exposed)
        /\ Hot(Top, eval_pending, exposed)
    BY <1>3 DEF Ordered
  <2> QED BY <1>1, <2>1, <2>2, <2>3, FineLater
<1> QED BY <1>2, <1>3

(* Texts that were queued begin.                                           *)
LEMMA DrainOrdered ==
  ASSUME Types, Ordered, Drain
  PROVE  Ordered'
<1>1. /\ lineno' = lineno /\ exposed' = exposed /\ db' = db /\ db \in Base /\ Same(db, db)
      /\ frames # <<>> /\ Top.looping /\ frames \in Seq(Frame)
  BY DEF Drain, Rest, Settled, Types, Same
<1>2. /\ Top \in Frame /\ Front(frames) \in Seq(Frame)
      /\ Fine(db', Front(frames), PendingRules(Top), lineno', exposed')
      /\ LogFine(db', lineno', exposed') /\ Exposed(PendingRules(Top), exposed')
  BY <1>1, FineSame DEF Hot
<1>3. \/ frames' = frames
      \/ frames' = Front(frames)
      \/ \E new \in Frame : frames' = <<new>> /\ new.current_rule = <<>>
      \/ \E g \in Frame :
           /\ g.current_rule = Top.current_rule /\ g.siblings = Top.siblings
           /\ \/ frames' = SetTop(g)
              \/ \E new \in Frame : frames' = Append(SetTop(g), new) /\ new.current_rule = <<>>
  BY OtherStepFrames
<1>4. CASE frames' = Front(frames)
  <2>1. WaitFine(db', Front(frames), lineno', exposed')
    BY <1>2 DEF Fine
  <2> QED BY <1>1, <1>2, <1>4, <2>1, PopGives
<1>5. CASE \E new \in Frame : frames' = <<new>> /\ new.current_rule = <<>>
  BY <1>2, <1>5, NewGives
<1>6. ASSUME NEW g \in Frame, g.current_rule = Top.current_rule, g.siblings = Top.siblings,
             frames' = SetTop(g)
      PROVE  Ordered'
  <2>1. PendingRules(g) = PendingRules(Top)
    BY <1>6, PendingSame
  <2>2. Outcome
    BY <1>2, <1>6, <2>1 DEF Outcome, Hot
  <2> QED BY <1>1, <2>2, OutcomeGives
<1>7. ASSUME NEW g \in Frame, g.current_rule = Top.current_rule, g.siblings = Top.siblings,
             NEW new \in Frame, frames' = Append(SetTop(g), new), new.current_rule = <<>>
      PROVE  Ordered'
  <2>1. PendingRules(g) = PendingRules(Top)
    BY <1>7, PendingSame
  <2>2. SetTop(g) = Append(Front(frames), g)
    BY DEF SetTop
  <2> QED BY <1>2, <1>7, <2>1, <2>2, PushGives
<1>8. CASE frames' = frames
  <2>1. SetTop(Top) = frames
    BY <1>1, TopSet
  <2> QED BY <1>2, <1>6, <1>8, <2>1
<1> QED BY <1>3, <1>4, <1>5, <1>6, <1>7, <1>8

(* The end of a text leaves the invariant: the open rules are registered,  *)
(* and the parser below goes on.                                           *)
LEMMA EndOfTextOrdered ==
  ASSUME Types, Ordered, EndOfText
  PROVE  Ordered'
<1>1. /\ lineno' = lineno /\ exposed' = exposed /\ eval_pending' = eval_pending
      /\ frames # <<>> /\ db \in Base /\ frames \in Seq(Frame) /\ Same(db, db)
      /\ \/ frames' = frames /\ db' = db
         \/ frames' = Front(frames) /\ db' = Registered(db, Top)
  BY DEF EndOfText, Types, Same
<1>2. CASE frames' = frames /\ db' = db
  <2>1. /\ Top \in Frame /\ Fine(db', Front(frames), PendingRules(Top), lineno', exposed')
        /\ Hot(Top, eval_pending, exposed')
    BY <1>1, <1>2, FineSame
  <2>2. SetTop(Top) = frames
    BY <1>1, TopSet
  <2>3. Outcome
    BY <1>1, <1>2, <2>1, <2>2 DEF Outcome
  <2> QED BY <1>1, <2>3, OutcomeGives
<1>3. CASE frames' = Front(frames) /\ db' = Registered(db, Top)
  <2>1. Top \in Frame /\ Front(frames) \in Seq(Frame)
    BY <1>1, SetTopIn
  <2>2. Fine(db, Front(frames), PendingRules(Top), lineno, exposed)
    BY <1>1 DEF Ordered
  <2>3. Fine(db', Front(frames), <<>>, lineno, exposed) /\ db' \in Base
    BY <1>1, <1>3, <2>1, <2>2, FineClosed, RegisteredType
  <2> QED BY <1>1, <1>3, <2>3, PopGives DEF Fine
<1> QED BY <1>1, <1>2, <1>3

(* Errors, skipped files, a new top-level file and the end leave the       *)
(* invariant.                                                              *)
LEMMA OtherOrdered ==
  ASSUME Types, Ordered, Raise \/ SkipFile \/ StartFile \/ Finished
  PROVE  Ordered'
<1>1. /\ lineno' = lineno /\ exposed' = exposed /\ db \in Base /\ frames \in Seq(Frame)
      /\ Same(db, db)
  BY DEF Types, Same, Raise, SkipFile, StartFile, Finished
<1>2. db' \in Base /\ Same(db, db')
  <2> DEFINE e == [db EXCEPT !.default_target = <<>>, !.default_goal_explicit = FALSE]
  <2>1. db' = db \/ db' = e
    BY DEF Raise, SkipFile, StartFile, Finished
  <2>2. e \in Base
    <3>1. <<>> \in FileName
      BY DEF FileName
    <3> QED BY <1>1, <3>1 DEF Base, Database
  <2>3. Same(db, e)
    BY <1>1 DEF Same, Base, Database
  <2> QED BY <1>1, <2>1, <2>2, <2>3
<1>3. LogFine(db', lineno', exposed')
  BY <1>1, <1>2, FineSame
<1>4. CASE Raise
  <2>1. frames # <<>> /\ frames' = Front(frames)
    BY <1>4 DEF Raise, Types
  <2>2. WaitFine(db', Front(frames), lineno', exposed')
    BY <1>1, <1>2, <2>1, FineSame DEF Fine
  <2> QED BY <1>1, <1>2, <1>3, <2>1, <2>2, PopGives
<1>5. CASE frames = <<>> /\ frames' = frames
  BY <1>3, <1>5, OrderedNext
<1>6. CASE frames = <<>> /\ frames' # frames
  <2>1. PICK new \in Frame : frames' = <<new>> /\ new.current_rule = <<>>
    <3>1. \/ frames' = Front(frames) /\ frames # <<>>
          \/ \E new \in Frame : frames' = <<new>> /\ new.current_rule = <<>>
      BY <1>6, OtherStepFrames
    <3> QED BY <1>6, <3>1
  <2> QED BY <1>3, <2>1, NewGives
<1> QED BY <1>4, <1>5, <1>6 DEF SkipFile, StartFile, Finished

(* Every step keeps the order.                                             *)
LEMMA OrderedStep ==
  ASSUME Types, Ordered, [Next]_vars
  PROVE  Ordered'
<1>1. CASE ReadLine
  <2>1. CanRead /\ Offered \subseteq Lines
    BY <1>1, TakenHolds DEF ReadLine
  <2>2. PICK line \in Lines : OrdinaryLine(line) \/ ReadInclude(line)
    BY <1>1, <2>1 DEF ReadLine, OrdinaryLine
  <2>3. frames \in Seq(Frame) /\ frames # <<>>
    BY <2>1, OrderedHolds
  <2>4. CASE OrdinaryLine(line)
    <3>1. Outcome
      BY <2>1, <2>4, LineOrdered
    <3> QED BY <2>3, <3>1, OutcomeGives
  <2> QED BY <2>1, <2>2, <2>4, IncludeOrdered
<1>2. CASE Drain \/ EndOfText \/ Raise \/ SkipFile \/ StartFile \/ Finished
  BY <1>2, DrainOrdered, EndOfTextOrdered, OtherOrdered
<1>3. CASE UNCHANGED vars
  <2>1. /\ frames' = frames /\ db' = db /\ lineno' = lineno /\ exposed' = exposed
        /\ eval_pending' = eval_pending
    BY <1>3 DEF vars
  <2>2. LogFine(db', lineno', exposed')
    BY <2>1 DEF Ordered
  <2>3. frames' # <<>> =>
          /\ Fine(db', Front(frames'), PendingRules(Last(frames')), lineno', exposed')
          /\ Hot(Last(frames'), eval_pending', exposed')
    BY <2>1 DEF Ordered, Top
  <2> QED BY <2>2, <2>3, OrderedNext
<1> QED BY <1>1, <1>2, <1>3 DEF Next

(* Nothing is read at first.                                               *)
LEMMA OrderedInit == Init => Ordered
<1> SUFFICES ASSUME Init PROVE Ordered
  OBVIOUS
<1>1. frames = <<>> /\ db = Builtins
  BY DEF Init
<1>2. db.log = <<>> /\ db.second_expansion = FALSE
  BY <1>1 DEF Builtins
<1>3. LogFine(db, lineno, exposed)
  BY <1>2 DEF LogFine, AllWithin, InLine, ToldInLine, Told
<1> QED BY <1>1, <1>3 DEF Ordered

(* The order of the history is what ReadInOrder asks.                      *)
LEMMA OrderedGives == Ordered => ReadInOrder
<1> SUFFICES ASSUME Ordered PROVE ReadInOrder
  OBVIOUS
<1>1. InLine(db.log, exposed) /\ ToldInLine(db.log)
  BY DEF Ordered, LogFine
<1>2. RegisteredInOrder
  BY <1>1 DEF InLine, RegisteredInOrder, Late, Alike, Ahead
<1>3. SecondExpansionFromThere
  BY <1>1 DEF ToldInLine, SecondExpansionFromThere, SecondOf
<1> QED BY <1>2, <1>3 DEF ReadInOrder

(* What is read takes effect in the order it is read, although a rule is   *)
(* registered only when the next one begins, in whatever file or queued    *)
(* text that is: the rules come into the database in the order of their    *)
(* lines, recipes and all, but for those that a conditional caught open    *)
(* and queued text overtook; and a rule is expanded a second time exactly  *)
(* if .SECONDEXPANSION was read above it.                                  *)
THEOREM ReadingInOrder == Spec => []ReadInOrder
<1>1. Init => Ordered
  BY OrderedInit
<1>2. Types /\ Ordered /\ [Next]_vars => Ordered'
  BY OrderedStep
<1>3. Ordered => ReadInOrder
  BY OrderedGives
<1> QED BY <1>1, <1>2, <1>3, TypesHold, PTL DEF Spec

(* g is the default goal that the first rule to give one, below line n,    *)
(* gives.                                                                  *)
GivesGoal(rules, n, g) ==
  \/ g = <<>> /\ \A i \in DOMAIN rules : rules[i].lineno > n => FirstGoal(rules[i].targets) = <<>>
  \/ \E i \in DOMAIN rules :
       /\ rules[i].lineno > n /\ g = FirstGoal(rules[i].targets) /\ g # <<>>
       /\ \A j \in 1 .. i - 1 : rules[j].lineno > n => FirstGoal(rules[j].targets) = <<>>

(* A rule gives a default goal if and only if one of its targets may be    *)
(* it.                                                                     *)
LEMMA CandidateIs ==
  ASSUME NEW rule \in Rule
  PROVE  Candidate(rule) <=> FirstGoal(rule.targets) # <<>>
<1> DEFINE targets == rule.targets
           S == {t \in ToSet(targets) : MayBeDefault(t)}
           c == Select(targets, S)
           A == FileName \ {<<>>}
<1>1. targets \in Seq(A) /\ DOMAIN targets = 1 .. Len(targets)
  BY RuleHolds
<1>2. FirstGoal(targets) = IF c = <<>> THEN <<>> ELSE Head(c)
  <2> DEFINE goal == Head(c)
  <2>1. Builtins.default_target = <<>> /\ Builtins.default_goal_explicit = FALSE
    BY DEF Builtins
  <2>2. DefaultFrom(Builtins, targets)
          = IF c = <<>> THEN Builtins ELSE [Builtins EXCEPT !.default_target = goal]
    BY <2>1 DEF DefaultFrom
  <2>3. c # <<>> => [Builtins EXCEPT !.default_target = goal].default_target = goal
    <3> HIDE DEF c, goal
    <3> QED BY BuiltinsType DEF Base, Database
  <2> HIDE DEF c, goal
  <2>4. FirstGoal(targets) = IF c = <<>> THEN <<>> ELSE goal
    BY <2>1, <2>2, <2>3 DEF FirstGoal
  <2> QED BY <2>4 DEF goal
<1>3. c \in Seq(A) /\ Range(c) = Range(targets) \cap S
  BY <1>1, SelectType, SelectRange
<1>4. Candidate(rule) <=> Range(c) # {}
  <2>1. Range(targets) \cap S = {t \in Range(targets) : MayBeDefault(t)}
    BY DEF ToSet, Range
  <2> HIDE DEF c, S
  <2> QED BY <1>3, <2>1 DEF Candidate, Range
<1> HIDE DEF c
<1>5. Range(c) # {} <=> c # <<>>
  BY <1>3 DEF Range
<1>6. c # <<>> => Head(c) # <<>>
  BY <1>3
<1> QED BY <1>2, <1>4, <1>5, <1>6

(* What the rules before give stands; if they give none the rules behind   *)
(* count.                                                                  *)
LEMMA GivesLonger ==
  ASSUME NEW s \in Seq(Rule), NEW t \in Seq(Rule), NEW n, NEW g
  PROVE  /\ GivesGoal(s, n, g) /\ g # <<>> => GivesGoal(s \o t, n, g)
         /\ GivesGoal(s, n, <<>>) /\ GivesGoal(t, n, g) => GivesGoal(s \o t, n, g)
<1> DEFINE u == s \o t
           L == Len(s)
           M == Len(t)
<1>1. /\ L \in Nat /\ M \in Nat /\ DOMAIN s = 1 .. L /\ DOMAIN t = 1 .. M
      /\ DOMAIN u = 1 .. L + M
      /\ \A i \in 1 .. L : u[i] = s[i]
      /\ \A i \in 1 .. M : u[L + i] = t[i] /\ L + i \in DOMAIN u
  OBVIOUS
<1> HIDE DEF u, L, M
<1>2. \A i \in DOMAIN u : i \in 1 .. L \/ \E k \in 1 .. M : i = L + k
  <2> TAKE i \in DOMAIN u
  <2>1. i \in 1 .. L \/ (i - L \in 1 .. M /\ i = L + (i - L))
    BY <1>1
  <2> QED BY <2>1
<1>3. ASSUME GivesGoal(s, n, g), g # <<>>
      PROVE  GivesGoal(u, n, g)
  <2>1. PICK i \in DOMAIN s :
           /\ s[i].lineno > n /\ g = FirstGoal(s[i].targets)
           /\ \A j \in 1 .. i - 1 : s[j].lineno > n => FirstGoal(s[j].targets) = <<>>
    BY <1>3 DEF GivesGoal
  <2>2. i \in DOMAIN u /\ u[i] = s[i] /\ \A j \in 1 .. i - 1 : u[j] = s[j]
    BY <1>1
  <2> QED BY <1>3, <2>1, <2>2 DEF GivesGoal
<1>4. ASSUME GivesGoal(s, n, <<>>), GivesGoal(t, n, g)
      PROVE  GivesGoal(u, n, g)
  <2>1. \A i \in 1 .. L : s[i].lineno > n => FirstGoal(s[i].targets) = <<>>
    BY <1>1, <1>4 DEF GivesGoal
  <2>2. \A i \in 1 .. L : u[i].lineno > n => FirstGoal(u[i].targets) = <<>>
    BY <1>1, <2>1
  <2>3. CASE g = <<>> /\ \A i \in 1 .. M : t[i].lineno > n => FirstGoal(t[i].targets) = <<>>
    <3>1. \A k \in 1 .. M : u[L + k].lineno > n => FirstGoal(u[L + k].targets) = <<>>
      BY <1>1, <2>3
    <3>2. ASSUME NEW i \in DOMAIN u
          PROVE  u[i].lineno > n => FirstGoal(u[i].targets) = <<>>
      BY <1>2, <2>2, <3>1
    <3> QED BY <2>3, <3>2 DEF GivesGoal
  <2>4. ASSUME NEW i \in 1 .. M, t[i].lineno > n, g = FirstGoal(t[i].targets), g # <<>>,
               \A j \in 1 .. i - 1 : t[j].lineno > n => FirstGoal(t[j].targets) = <<>>
        PROVE  GivesGoal(u, n, g)
    <3> DEFINE m == L + i
    <3>1. m \in DOMAIN u /\ u[m] = t[i]
      BY <1>1
    <3>2. ASSUME NEW j \in 1 .. m - 1
          PROVE  u[j].lineno > n => FirstGoal(u[j].targets) = <<>>
      <4>1. j \in 1 .. L \/ (j - L \in 1 .. i - 1 /\ j - L \in 1 .. M /\ j = L + (j - L))
        BY <1>1
      <4>2. ASSUME NEW k \in 1 .. i - 1, k \in 1 .. M, j = L + k
            PROVE  u[j] = t[k]
        BY <1>1, <4>2
      <4> QED BY <2>2, <2>4, <4>1, <4>2
    <3> HIDE DEF m
    <3> QED BY <2>4, <3>1, <3>2 DEF GivesGoal
  <2> QED BY <1>1, <1>4, <2>3, <2>4 DEF GivesGoal
<1> QED BY <1>3, <1>4 DEF u

(* What the first such rule gives is what DefaultGoalIsFirst asks for.     *)
LEMMA GivesIs ==
  ASSUME NEW log \in Seq(Rule), NEW n \in Nat, NEW g, GivesGoal(log, n, g)
  PROVE  LET later == Select(log, {r \in ToSet(log) : r.lineno > n /\ Candidate(r)})
         IN  g = IF later = <<>> THEN <<>> ELSE FirstGoal(later[1].targets)
<1> DEFINE S == {r \in ToSet(log) : r.lineno > n /\ Candidate(r)}
           later == Select(log, S)
           L == Len(log)
<1>1. /\ L \in Nat /\ DOMAIN log = 1 .. L
      /\ \A i \in 1 .. L : log[i] \in S <=> log[i].lineno > n /\ FirstGoal(log[i].targets) # <<>>
  <2>1. \A i \in 1 .. L : log[i] \in Rule /\ log[i] \in ToSet(log)
    BY DEF ToSet
  <2> QED BY <2>1, CandidateIs
<1>2. PICK f : Keeps(f, log, S, Rule) /\ later = f[L]
  BY SelectKept
<1> HIDE DEF S, later, L
<1>3. f[0] = <<>> /\ (\A k \in 0 .. L : f[k] \in Seq(Rule))
      /\ \A k \in 1 .. L : f[k] = IF log[k] \in S THEN Append(f[k - 1], log[k]) ELSE f[k - 1]
  BY <1>2 DEF Keeps, L
<1>4. ASSUME NEW m \in 0 .. L, \A i \in 1 .. m : log[i] \notin S
      PROVE  f[m] = <<>>
  <2> DEFINE T == {k \in 0 .. m : f[k] = <<>>}
  <2>1. m \in Nat /\ 0 \in T
    BY <1>1, <1>3
  <2>2. \A k \in 1 .. m : k - 1 \in T => k \in T
    <3> TAKE k \in 1 .. m
    <3>1. k \in 1 .. L /\ k \in 0 .. m
      BY <1>1
    <3> QED BY <1>3, <1>4, <3>1
  <2>3. \A k \in 0 .. m : k \in T
    <3> HIDE DEF T
    <3> QED BY <2>1, <2>2, Counting
  <2> QED BY <2>1, <2>3
<1>5. CASE g = <<>> /\ \A i \in DOMAIN log : log[i].lineno > n => FirstGoal(log[i].targets) = <<>>
  <2>1. L \in 0 .. L /\ \A i \in 1 .. L : log[i] \notin S
    BY <1>1, <1>5
  <2>2. later = <<>>
    BY <1>2, <1>4, <2>1
  <2> QED BY <1>5, <2>2 DEF later, S
<1>6. ASSUME NEW i \in DOMAIN log,
             log[i].lineno > n, g = FirstGoal(log[i].targets), g # <<>>,
             \A j \in 1 .. i - 1 : log[j].lineno > n => FirstGoal(log[j].targets) = <<>>
      PROVE  later # <<>> /\ later[1] = log[i]
  <2>1. i - 1 \in 0 .. L /\ i \in 1 .. L /\ log[i] \in Rule /\ \A j \in 1 .. i - 1 : j \in 1 .. L
    BY <1>1
  <2>2. \A j \in 1 .. i - 1 : log[j] \notin S
    BY <1>1, <1>6, <2>1
  <2>3. f[i - 1] = <<>>
    BY <1>4, <2>1, <2>2
  <2>4. f[i] = Append(<<>>, log[i])
    BY <1>1, <1>3, <1>6, <2>1, <2>3
  <2> DEFINE T == {k \in 0 .. L - i : f[i + k] # <<>> /\ f[i + k][1] = log[i]}
             first == log[i]
  <2>5. L - i \in Nat /\ 0 \in 0 .. L - i /\ i + 0 = i
    BY <1>1
  <2>6. 0 \in T
    <3>1. Append(<<>>, first) # <<>> /\ Append(<<>>, first)[1] = first
      OBVIOUS
    <3> QED BY <2>4, <2>5, <3>1
  <2>7. \A k \in 1 .. L - i : k - 1 \in T => k \in T
    <3> TAKE k \in 1 .. L - i
    <3> SUFFICES ASSUME k - 1 \in T
                 PROVE  k \in T
      OBVIOUS
    <3>1. i + k \in 1 .. L /\ i + k - 1 \in 0 .. L /\ k \in 0 .. L - i /\ i + (k - 1) = i + k - 1
      BY <1>1, <2>1
    <3> DEFINE v == f[i + k - 1]
               e == log[i + k]
    <3>2. v \in Seq(Rule) /\ v # <<>> /\ v[1] = first /\ e \in Rule
      BY <1>1, <1>3, <3>1
    <3>3. f[i + k] = IF e \in S THEN Append(v, e) ELSE v
      BY <1>3, <3>1
    <3> HIDE DEF v, e, first
    <3>4. Append(v, e) # <<>> /\ Append(v, e)[1] = first
      BY <3>2
    <3> QED BY <3>1, <3>2, <3>3, <3>4 DEF first
  <2>8. \A k \in 0 .. L - i : k \in T
    <3> HIDE DEF T
    <3> QED BY <2>5, <2>6, <2>7, Counting
  <2>9. L - i \in T /\ i + (L - i) = L
    BY <1>1, <2>5, <2>8
  <2> QED BY <1>2, <2>9
<1>7. CASE \E i \in DOMAIN log :
             /\ log[i].lineno > n /\ g = FirstGoal(log[i].targets) /\ g # <<>>
             /\ \A j \in 1 .. i - 1 : log[j].lineno > n => FirstGoal(log[j].targets) = <<>>
  <2>1. later # <<>> /\ g = FirstGoal(later[1].targets)
    BY <1>6, <1>7
  <2> QED BY <2>1 DEF later, S
<1> QED BY <1>5, <1>7 DEF GivesGoal

(* The default goal of a database, P being the open rules: that of the     *)
(* history below line n; or, if that gives none, of the rule that is open. *)
GoalFine(d, P, n) ==
  ~d.stopped /\ ~d.default_goal_explicit =>
    \/ GivesGoal(d.log, n, d.default_target)
    \/ GivesGoal(d.log, n, <<>>) /\ GivesGoal(P, n, d.default_target)

(* The rules are registered.                                               *)
LEMMA GoalClosed ==
  ASSUME NEW d \in Base, NEW f \in Frame, NEW n \in Nat, NEW Q,
         GoalFine(d, PendingRules(f), n), Below(PendingRules(f), n)
  PROVE  GoalFine(Registered(d, f), Q, n)
<1> DEFINE P == PendingRules(f)
           e == Registered(d, f)
           L == Len(P)
           g == d.default_target
           h == e.default_target
<1>1. P \in Seq(Rule) /\ d.log \in Seq(Rule) /\ L \in Nat /\ DOMAIN P = 1 .. L
      /\ SubSeq(P, 1, L) = P
  <2>1. P \in Seq(Rule)
    BY PendingType
  <2> HIDE DEF P
  <2> QED BY <2>1, BaseHolds
<1>2. /\ e.default_goal_explicit = d.default_goal_explicit
      /\ d.stopped => e.stopped
      /\ ~e.stopped => e.log = d.log \o P /\ GoalIn(d, e, P)
  <2>1. /\ e.default_goal_explicit = d.default_goal_explicit
        /\ d.stopped => e.stopped
        /\ \E m \in 0 .. L : e.log = d.log \o SubSeq(P, 1, m) /\ (~e.stopped => m = L)
        /\ ~e.stopped => GoalIn(d, e, P)
    BY <1>1, RegisteredEffect
  <2> HIDE DEF P, e, L
  <2> QED BY <1>1, <2>1
<1>3. GoalFine(d, P, n) /\ Below(P, n)
  OBVIOUS
<1> HIDE DEF P, e, L
<1> SUFFICES ASSUME ~e.stopped, ~e.default_goal_explicit
             PROVE  GivesGoal(e.log, n, h)
  BY DEF GoalFine, e
<1>4. /\ ~d.stopped /\ ~d.default_goal_explicit /\ e.log = d.log \o P /\ GoalIn(d, e, P)
      /\ \/ GivesGoal(d.log, n, g)
         \/ GivesGoal(d.log, n, <<>>) /\ GivesGoal(P, n, g)
  BY <1>2, <1>3 DEF GoalFine
<1>5. g # <<>> => h = g
  BY <1>4 DEF GoalIn
<1>6. CASE g = <<>>
  <2>1. GivesGoal(d.log, n, <<>>)
    BY <1>4, <1>6
  <2>2. GivesGoal(P, n, h)
    <3>1. CASE h = <<>> /\ \A i \in DOMAIN P : FirstGoal(P[i].targets) = <<>>
      BY <3>1 DEF GivesGoal
    <3>2. CASE \E i \in DOMAIN P :
                 /\ FirstGoal(P[i].targets) # <<>> /\ h = FirstGoal(P[i].targets)
                 /\ \A j \in 1 .. i - 1 : FirstGoal(P[j].targets) = <<>>
      BY <1>3, <3>2 DEF GivesGoal, Below
    <3> QED BY <1>4, <1>6, <3>1, <3>2 DEF GoalIn
  <2> QED BY <1>1, <1>4, <2>1, <2>2, GivesLonger
<1>7. CASE g # <<>>
  <2>1. CASE GivesGoal(d.log, n, g)
    BY <1>1, <1>4, <1>5, <1>7, <2>1, GivesLonger
  <2>2. CASE GivesGoal(d.log, n, <<>>) /\ GivesGoal(P, n, g)
    BY <1>1, <1>4, <1>5, <1>7, <2>2, GivesLonger
  <2> QED BY <1>4, <2>1, <2>2
<1> QED BY <1>6, <1>7

(* Rules are opened, none of which gives the goal before it is registered. *)
LEMMA GoalOpened ==
  ASSUME NEW d, NEW e, Equal(d, e), NEW n, GoalFine(d, <<>>, n), NEW P
  PROVE  GoalFine(e, P, n)
<1>1. GivesGoal(<<>>, n, d.default_target) => d.default_target = <<>>
  BY DEF GivesGoal
<1> QED BY <1>1 DEF GoalFine, Equal, Same

(* The rule of a line gives it at once.                                    *)
LEMMA GoalStartedFine ==
  ASSUME NEW d, NEW e, Same(d, e), e.stopped = d.stopped,
         e.default_goal_explicit = d.default_goal_explicit, NEW rule \in Rule,
         e.default_target = GoalAfter(d, rule.targets), NEW n, rule.lineno > n,
         GoalFine(d, <<>>, n)
  PROVE  GoalFine(e, <<rule>>, n)
<1> SUFFICES ASSUME ~e.stopped, ~e.default_goal_explicit
             PROVE  \/ GivesGoal(e.log, n, e.default_target)
                    \/ GivesGoal(e.log, n, <<>>) /\ GivesGoal(<<rule>>, n, e.default_target)
  BY DEF GoalFine
<1>1. GivesGoal(<<>>, n, d.default_target) => d.default_target = <<>>
  BY DEF GivesGoal
<1>2. GivesGoal(d.log, n, d.default_target) /\ e.log = d.log
  BY <1>1 DEF GoalFine, Same
<1>3. CASE d.default_target # <<>>
  BY <1>2, <1>3 DEF GoalAfter
<1>4. CASE d.default_target = <<>>
  <2>1. e.default_target = FirstGoal(rule.targets)
    BY <1>4 DEF GoalAfter
  <2> DEFINE P == <<rule>>
             g == FirstGoal(rule.targets)
  <2>2. DOMAIN P = {1} /\ P[1] = rule /\ 1 .. 1 - 1 = {}
    OBVIOUS
  <2> HIDE DEF P
  <2>3. GivesGoal(P, n, g)
    BY <2>2 DEF GivesGoal
  <2> QED BY <1>2, <1>4, <2>1, <2>3 DEF P
<1> QED BY <1>3, <1>4

(* A recipe line changes no target.                                        *)
LEMMA GoalCooked ==
  ASSUME NEW d, NEW P, NEW Q, NEW m, NEW n, Cooked(P, Q, m), GoalFine(d, P, n), Below(P, n),
         NEW l \in Nat, DOMAIN P = 1 .. l
  PROVE  GoalFine(d, Q, n) /\ Below(Q, n)
<1>1. DOMAIN Q = DOMAIN P /\ \A i \in DOMAIN P : Q[i].lineno = P[i].lineno /\ Q[i].targets = P[i].targets
  BY DEF Cooked
<1>2. \A i \in DOMAIN P : \A j \in 1 .. i - 1 : j \in DOMAIN P
  OBVIOUS
<1>3. \A g : GivesGoal(P, n, g) => GivesGoal(Q, n, g)
  BY <1>1, <1>2 DEF GivesGoal
<1> QED BY <1>1, <1>3 DEF GoalFine, Below

(* The database changes in nothing that the goal is about.                 *)
LEMMA GoalKept ==
  ASSUME NEW d, NEW e, Equal(d, e) \/ e.stopped, NEW P, NEW n, GoalFine(d, P, n)
  PROVE  GoalFine(e, P, n)
BY DEF GoalFine, Equal, Same

(* The goal is given up: only what is below counts.                        *)
LEMMA GoalGivenUp ==
  ASSUME NEW d \in Base, NEW n \in Nat, AllWithin(d.log, n),
         ~d.default_goal_explicit => d.default_target = <<>>, NEW P
  PROVE  GoalFine(d, P, n)
<1>1. \A i \in DOMAIN d.log : d.log[i].lineno \in Nat /\ d.log[i].lineno <= n
  BY BaseHolds, InRange, RuleHolds DEF AllWithin, Within
<1>2. GivesGoal(d.log, n, <<>>)
  BY <1>1 DEF GivesGoal
<1> QED BY <1>2 DEF GoalFine

(* The inductive invariant of DefaultGoalIsFirst: while there was no error *)
(* and nothing is exposed, the goal is that of the history or of the rule  *)
(* that is open, and the open rules are below the line that gave up the    *)
(* goal before; an error is remembered; and at the end nothing is open.    *)
GoalDue ==
  /\ phase \in {"raising", "failed"} => erred
  /\ phase = "done" => ~db.stopped /\ frames = <<>>
  /\ reset_at <= lineno
  /\ ~erred /\ exposed = {} =>
       IF frames = <<>> THEN GoalFine(db, <<>>, reset_at)
       ELSE GoalFine(db, PendingRules(Top), reset_at) /\ Below(PendingRules(Top), reset_at)

(* What a line leaves.                                                     *)
GoalOutcome ==
  \E g \in Frame : /\ frames' = SetTop(g)
                   /\ GoalFine(db', PendingRules(g), reset_at')
                   /\ Below(PendingRules(g), reset_at')

(* Nothing expands to nothing.                                             *)
LEMMA ExpandNothing ==
  ASSUME NEW table
  PROVE  Expand(table, <<>>) = <<>>
<1> DEFINE texts == Texts(table)
           parts == [i \in DOMAIN <<>> |-> IF <<>>[i] \in Names THEN texts[<<>>[i]] ELSE <<<<>>[i]>>]
<1>1. Expand(table, <<>>) = FlattenSeq(parts)
  BY DEF Expand
<1> HIDE DEF texts
<1>2. parts = <<>>
  OBVIOUS
<1> HIDE DEF parts
<1> QED BY <1>1, <1>2, FlattenEmpty

(* What a line that ends in the ordinary way leaves, if the goal is right. *)
LEMMA GoalEnd ==
  ASSUME NEW f \in Frame, NEW d \in Base, NEW table, NEW evals,
         NEW recipe \in BOOLEAN, EndLine(f, d, table, evals, recipe), reset_at' \in Nat,
         GoalFine(d, PendingRules(f), reset_at'), Below(PendingRules(f), reset_at')
  PROVE  GoalOutcome
<1> DEFINE g == Ended(f, evals, recipe)
           pending == eval_pending \o evals
<1>1. /\ frames' = SetTop(g)
      /\ \/ pending # <<>> /\ ~recipe /\ db' = Registered(d, f)
         \/ (pending = <<>> \/ recipe) /\ db' = d
  BY EndLineIs
<1>2. /\ g \in Frame
      /\ \/ pending # <<>> /\ ~recipe /\ g.current_rule = <<>> /\ g.siblings = <<>>
         \/ /\ pending = <<>> \/ recipe
            /\ g.current_rule = f.current_rule /\ g.siblings = f.siblings
  BY EndedHolds
<1> HIDE DEF g, pending
<1>3. CASE pending # <<>> /\ ~recipe
  <2>1. PendingRules(g) = <<>> /\ db' = Registered(d, f)
    BY <1>1, <1>2, <1>3, PendingNone
  <2>2. GoalFine(db', <<>>, reset_at')
    BY <2>1, GoalClosed
  <2> QED BY <1>1, <1>2, <2>1, <2>2 DEF GoalOutcome, Below
<1>4. CASE pending = <<>> \/ recipe
  <2>1. PendingRules(g) = PendingRules(f) /\ db' = d
    BY <1>1, <1>2, <1>4, PendingSame
  <2> QED BY <1>1, <1>2, <2>1 DEF GoalOutcome
<1> QED BY <1>3, <1>4

(* What is so when a line is taken.                                        *)
LEMMA GoalHolds ==
  ASSUME Types, GoalDue, CanRead, ~erred, exposed = {}
  PROVE  /\ GoalFine(db, PendingRules(Top), reset_at) /\ Below(PendingRules(Top), reset_at)
         /\ GoalFine(Registered(db, Taken), <<>>, reset_at)
         /\ reset_at \in Nat /\ reset_at <= lineno /\ reset_at < lineno + 1 /\ lineno \in Nat
         /\ db \in Base /\ Registered(db, Taken) \in Base
<1>1. /\ GoalFine(db, PendingRules(Top), reset_at) /\ Below(PendingRules(Top), reset_at)
      /\ reset_at \in Nat /\ reset_at <= lineno /\ lineno \in Nat /\ db \in Base
  BY DEF GoalDue, Types, CanRead
<1>2. Taken \in Frame /\ PendingRules(Taken) = PendingRules(Top) /\ Registered(db, Taken) \in Base
  BY TakenHolds
<1>3. GoalFine(Registered(db, Taken), <<>>, reset_at)
  BY <1>1, <1>2, GoalClosed
<1> QED BY <1>1, <1>2, <1>3

(* Only an assignment gives up the goal.                                   *)
LEMMA ResetSame ==
  ASSUME NEW line \in Lines, OrdinaryLine(line), ~ReadAssignment(line)
  PROVE  reset_at' = reset_at
BY DEF OrdinaryLine, ReadInDefine, ReadInDeadBranch, ReadConditional, ReadElse, ReadEndif,
       ReadRule, ReadStaticPattern, ReadRecipe, ReadTargetVariable, ReadExport, ReadUndefine,
       ReadDefine, ReadEmpty, ReadVpath, ReadMissingSeparator, Rest, Steady

(* A line that keeps the rule open.                                        *)
LEMMA GoalKeeps ==
  ASSUME Types, GoalDue, CanRead, ~erred, exposed = {}, reset_at' = reset_at,
         Equal(db, db') \/ db'.stopped, NEW g \in Frame, frames' = SetTop(g),
         g.current_rule = Top.current_rule, g.siblings = Top.siblings
  PROVE  GoalOutcome
<1>1. PendingRules(g) = PendingRules(Top)
  BY PendingSame
<1>2. GoalFine(db, PendingRules(Top), reset_at) /\ Below(PendingRules(Top), reset_at)
  BY GoalHolds
<1>3. GoalFine(db', PendingRules(g), reset_at') /\ Below(PendingRules(g), reset_at')
  BY <1>1, <1>2, GoalKept
<1> QED BY <1>3 DEF GoalOutcome

(* The same of one that ends in the ordinary way.                          *)
LEMMA GoalLeaves ==
  ASSUME Types, GoalDue, CanRead, ~erred, exposed = {}, reset_at' = reset_at,
         NEW e \in Base, Equal(db, e), NEW table, NEW evals, NEW f \in Frame,
         f.current_rule = Top.current_rule, f.siblings = Top.siblings,
         EndLine(f, e, table, evals, FALSE)
  PROVE  GoalOutcome
<1>1. PendingRules(f) = PendingRules(Top)
  BY PendingSame
<1>2. GoalFine(e, PendingRules(f), reset_at') /\ Below(PendingRules(f), reset_at')
  BY <1>1, GoalHolds, GoalKept
<1>3. reset_at' \in Nat
  BY GoalHolds
<1> QED BY <1>2, <1>3, GoalEnd

(* A line that closes the rule above it, and one that opens others.        *)
LEMMA GoalCloses ==
  ASSUME Types, GoalDue, CanRead, ~erred, exposed = {}, reset_at' \in Nat,
         NEW e \in Base, GoalFine(e, <<>>, reset_at'), NEW table, NEW evals,
         EndLine(Flushed(Taken), e, table, evals, FALSE)
  PROVE  GoalOutcome
<1>1. Flushed(Taken) \in Frame /\ PendingRules(Flushed(Taken)) = <<>>
  BY TakenHolds, FlushedType, PendingNone
<1>2. Below(<<>>, reset_at')
  BY DEF Below
<1> QED BY <1>1, <1>2, GoalEnd

(* A line that opens rules leaves the goal right if it is for them.        *)
LEMMA GoalOpens ==
  ASSUME Types, GoalDue, CanRead, ~erred, exposed = {}, reset_at' = reset_at,
         NEW e \in Base, NEW table, NEW evals, NEW f \in Frame,
         GoalFine(e, PendingRules(f), reset_at),
         Fresh(Registered(db, Taken), PendingRules(f), lineno + 1),
         EndLine(f, e, table, evals, FALSE)
  PROVE  GoalOutcome
<1>1. reset_at' \in Nat /\ reset_at' < lineno + 1
  BY GoalHolds
<1>2. Below(PendingRules(f), reset_at')
  BY <1>1 DEF Below, Fresh
<1> QED BY <1>1, <1>2, GoalEnd

(* The rule of a line is the only one that is open.                        *)
LEMMA RuleOpen ==
  ASSUME Types, CanRead, NEW line \in Lines, line.kind = "rule"
  PROVE  PendingRules(Opened(RuleOf(line), <<>>)) = <<RuleOf(line)>>
<1> DEFINE f == Opened(RuleOf(line), <<>>)
           rule == RuleOf(line)
           P == PendingRules(f)
<1>1. rule \in Rule /\ <<>> \in Seq(Rule)
  BY RuleOfType
<1>2. f \in Frame /\ f.current_rule = <<rule>> /\ f.siblings = <<>>
  BY <1>1, OpenedType
<1> HIDE DEF f, rule
<1>3. f.current_rule # <<>> /\ f.current_rule[1] = rule /\ Len(f.siblings) = 0
  BY <1>2
<1>4. P \in Seq(Rule) /\ DOMAIN P = 1 .. 0 + 1 /\ P[0 + 1] = rule
  BY <1>2, <1>3, PendingFields
<1> HIDE DEF P
<1>5. P = <<rule>>
  BY <1>1, <1>4
<1> QED BY <1>5 DEF P, f, rule

(* An assignment closes the rule above before it sets the goal or gives it *)
(* up; no rule that has been read is below it.                             *)
LEMMA AssignmentGoal ==
  ASSUME Types, Ordered, GoalDue, CanRead, ~erred, exposed = {}, NEW line \in Lines,
         ReadAssignment(line)
  PROVE  GoalOutcome
<1> DEFINE a == AssignmentOf(line)
           d == Registered(db, Taken)
           e == AssignedBase(a)
<1>1. /\ a \in Assignment
      /\ EndLine(Flushed(Taken), e, AssignedTable(a), line.evals, FALSE)
      /\ reset_at' = IF Special_goal(a) THEN lineno + 1 ELSE reset_at
  BY AssignmentType
<1>2. /\ e \in Base /\ Same(d, e)
      /\ ~Special_goal(a) => e = d
      /\ Special_goal(a) => \/ e.stopped
                            \/ /\ e.default_target = Goal(a)
                               /\ e.default_goal_explicit <=> a.value # <<>>
  BY <1>1, AssignedSame
<1>3. GoalFine(d, <<>>, reset_at) /\ reset_at \in Nat /\ lineno \in Nat /\ lineno + 1 \in Nat
  BY GoalHolds
<1>4. AllWithin(e.log, lineno + 1)
  <2>1. lineno' = lineno + 1 /\ exposed' = exposed
    BY DEF ReadAssignment, Reads, Settled
  <2>2. Fine(e, Front(frames), <<>>, lineno', exposed')
    BY <1>2, <2>1, LineFine
  <2> QED BY <2>1, <2>2 DEF Fine, LogFine
<1> HIDE DEF d, e
<1>5. CASE Special_goal(a)
  <2>1. e.stopped \/ (~e.default_goal_explicit => e.default_target = <<>>)
    <3> SUFFICES ASSUME ~e.stopped, ~e.default_goal_explicit
                 PROVE  e.default_target = <<>>
      OBVIOUS
    <3>1. a.value = <<>> /\ e.default_target = Goal(a)
      BY <1>2, <1>5
    <3>2. Goal(a) = Expand(set_variable(ShownTable, a), <<>>)
      BY <3>1 DEF Goal
    <3> QED BY <3>1, <3>2, ExpandNothing
  <2>2. GoalFine(e, <<>>, lineno + 1)
    BY <1>2, <1>3, <1>4, <2>1, GoalGivenUp DEF GoalFine
  <2> QED BY <1>1, <1>2, <1>3, <1>5, <2>2, GoalCloses
<1>6. CASE ~Special_goal(a)
  <2>1. e = d /\ reset_at' = reset_at
    BY <1>1, <1>2, <1>6
  <2> QED BY <1>1, <1>2, <1>3, <2>1, GoalCloses
<1> QED BY <1>5, <1>6

(* Every line but include leaves the goal right, by its kind.              *)
LEMMA LineGoal ==
  ASSUME Types, Ordered, GoalDue, CanRead, ~erred, exposed = {}, NEW line \in Lines,
         OrdinaryLine(line)
  PROVE  GoalOutcome
<1>1. /\ db \in Base /\ Equal(db, db)
      /\ Registered(db, Taken) \in Base
      /\ Equal(Registered(db, Taken), Registered(db, Taken))
      /\ Taken \in Frame /\ Taken.looping = FALSE
      /\ Taken.current_rule = Top.current_rule /\ Taken.siblings = Top.siblings
      /\ Top \in Frame /\ SetTop(Top) = frames
      /\ GoalFine(Registered(db, Taken), <<>>, reset_at) /\ reset_at \in Nat
  BY TakenHolds, GoalHolds, FieldsSame, TopSet DEF Types
<1>2. CASE ReadAssignment(line)
  BY <1>2, AssignmentGoal
<1> SUFFICES ASSUME ~ReadAssignment(line)
             PROVE  GoalOutcome
  BY <1>2
<1>3. reset_at' = reset_at
  BY ResetSame
<1>4. CASE ReadInDefine(line)
  <2>1. PICK v \in Seq(Block) : Len(v) <= 1 /\ frames' = SetTop([Taken EXCEPT !.define = v])
    BY <1>4, InDefineType
  <2>2. [Taken EXCEPT !.define = v] \in Frame
    BY <1>1, <2>1, FrameWith
  <2>3. /\ [Taken EXCEPT !.define = v].current_rule = Taken.current_rule
        /\ [Taken EXCEPT !.define = v].siblings = Taken.siblings
    BY <1>1 DEF Frame, ParserType
  <2>4. db' = db
    BY <1>4 DEF ReadInDefine
  <2> QED BY <1>1, <1>3, <2>1, <2>2, <2>3, <2>4, GoalKeeps
<1>5. CASE ReadInDeadBranch(line)
  <2>1. db' = db /\ frames' = SetTop(Taken)
    BY <1>5 DEF ReadInDeadBranch
  <2> QED BY <1>1, <1>3, <2>1, GoalKeeps
<1>6. ASSUME db' = [db EXCEPT !.stopped = TRUE], frames' = frames
      PROVE  GoalOutcome
  <2>1. db'.stopped
    BY <1>1, <1>6 DEF Base, Database
  <2> QED BY <1>1, <1>3, <1>6, <2>1, GoalKeeps
<1>7. CASE ReadMissingSeparator(line)
  BY <1>6, <1>7 DEF ReadMissingSeparator
<1>8. CASE ReadConditional(line) \/ ReadElse(line) \/ ReadEndif(line)
  <2>1. PICK g \in Frame : /\ frames' = SetTop(g)
                           /\ g.current_rule = Top.current_rule /\ g.siblings = Top.siblings
    BY <1>8, ConditionalFrame
  <2>2. db' = db
    BY <1>8 DEF ReadConditional, ReadElse, ReadEndif
  <2> QED BY <1>1, <1>3, <2>1, <2>2, GoalKeeps
<1>9. CASE ReadRule(line)
  <2> DEFINE rule == RuleOf(line)
             e == GoalStarted(line)
             d == Registered(db, Taken)
             f == Opened(rule, <<>>)
  <2>1. EndLine(f, e, Shown(variables, db, e), line.evals, FALSE) /\ line.kind = "rule"
    BY <1>9, RuleType DEF ReadRule, Reads
  <2>2. /\ e \in Base /\ Same(d, e) /\ e.stopped = d.stopped
        /\ e.default_goal_explicit = d.default_goal_explicit
        /\ e.default_target = GoalAfter(d, rule.targets)
    BY <2>1, GoalSame
  <2>3. rule \in Rule /\ rule.lineno = lineno + 1 /\ reset_at < rule.lineno
    BY <2>1, RuleOfType, GoalHolds
  <2>4. f \in Frame /\ Fresh(d, PendingRules(f), lineno + 1) /\ PendingRules(f) = <<rule>>
    BY <2>1, RuleFresh, RuleOpen
  <2>5. GoalFine(d, <<>>, reset_at) /\ rule.lineno > reset_at
    BY <1>1, <2>3, GoalHolds
  <2> DEFINE table == Shown(variables, db, e)
             evals == line.evals
  <2>6. EndLine(f, e, table, evals, FALSE) /\ Fresh(Registered(db, Taken), PendingRules(f), lineno + 1)
    BY <2>1, <2>4
  <2> HIDE DEF e, d, f, rule, table, evals
  <2>7. GoalFine(e, PendingRules(f), reset_at)
    BY <2>2, <2>3, <2>4, <2>5, GoalStartedFine
  <2> QED BY <1>3, <2>2, <2>4, <2>6, <2>7, GoalOpens
<1>10. CASE ReadStaticPattern(line)
  <2> DEFINE d == Registered(db, Taken)
             f == Opened(Last(StaticOf(line)), Front(StaticOf(line)))
  <2>1. CASE frames' = SetTop(Flushed(Taken)) /\ db' = d
    <3>1. Flushed(Taken) \in Frame /\ PendingRules(Flushed(Taken)) = <<>>
      BY <1>1, FlushedType, PendingNone
    <3>2. GoalFine(db', <<>>, reset_at') /\ Below(<<>>, reset_at')
      BY <1>1, <1>3, <2>1 DEF Below
    <3> QED BY <2>1, <3>1, <3>2 DEF GoalOutcome
  <2>2. CASE StaticOf(line) # <<>> /\ EndLine(f, d, Shown(variables, db, d), line.evals, FALSE)
    <3>1. line.kind = "static"
      BY <1>10 DEF ReadStaticPattern, Reads
    <3>2. f \in Frame /\ Fresh(d, PendingRules(f), lineno + 1)
      BY <2>2, <3>1, StaticFresh
    <3>3. GoalFine(d, PendingRules(f), reset_at)
      BY <1>1, GoalOpened
    <3> HIDE DEF f
    <3> QED BY <1>1, <1>3, <2>2, <3>2, <3>3, GoalOpens
  <2> HIDE DEF d, f
  <2> QED BY <1>10, <2>1, <2>2, StaticLineType DEF d, f
<1>11. CASE ReadRecipe(line)
  <2>1. CASE EndLine(Cooking, db, variables, <<>>, TRUE)
    <3> DEFINE P == PendingRules(Top)
               Q == PendingRules(Cooking)
    <3>1. Cooking \in Frame /\ Cooked(P, Q, lineno + 1)
      BY CookingType, PendingCooked, <1>1 DEF Types
    <3>2. P \in Seq(Rule)
      BY <1>1, PendingType
    <3>3. GoalFine(db, P, reset_at) /\ Below(P, reset_at)
      BY GoalHolds
    <3> HIDE DEF P, Q
    <3>4. DOMAIN P = 1 .. Len(P) /\ Len(P) \in Nat
      BY <3>2
    <3>5. GoalFine(db, Q, reset_at) /\ Below(Q, reset_at)
      BY <3>1, <3>3, <3>4, GoalCooked
    <3> QED BY <1>1, <1>3, <2>1, <3>1, <3>5, GoalEnd DEF Q
  <2> QED BY <1>6, <1>11, <2>1, RecipeType
<1>12. CASE ReadTargetVariable(line)
  <2> DEFINE d == Registered(db, Taken)
             e == TargetVariable(d, line.target, Placeholder(line.target), lineno + 1)
  <2>1. line.target \in FileName \ {<<>>} /\ EndLine(Flushed(Taken), e, ShownTable, <<>>, FALSE)
    BY <1>12, TargetVariableLineType
  <2>2. e \in Base /\ Equal(d, e)
    BY <1>1, <2>1, GoalHolds, VariableSame
  <2> HIDE DEF e
  <2>3. GoalFine(e, <<>>, reset_at')
    BY <1>1, <1>3, <2>2, GoalKept
  <2> QED BY <1>1, <1>3, <2>1, <2>2, <2>3, GoalCloses
<1>13. CASE ReadVpath(line)
  <2> DEFINE e == [Registered(db, Taken) EXCEPT !.vpath = VpathOf(line)]
  <2>1. EndLine(Flushed(Taken), e, ShownTable, <<>>, FALSE) /\ e \in Base
        /\ Equal(Registered(db, Taken), e)
    BY <1>13, VpathType, VpathSame
  <2> HIDE DEF e
  <2>2. GoalFine(e, <<>>, reset_at')
    BY <1>1, <1>3, <2>1, GoalKept
  <2> QED BY <1>1, <1>3, <2>1, <2>2, GoalCloses
<1>14. CASE ReadExport(line)
  BY <1>1, <1>3, <1>14, ExportType, ExportSame, GoalLeaves
<1>15. CASE ReadUndefine(line)
  BY <1>1, <1>3, <1>15, UndefineLineType, GoalLeaves
<1>16. CASE ReadDefine(line)
  BY <1>1, <1>3, <1>16, DefineLineType, GoalLeaves
<1>17. CASE ReadEmpty(line)
  BY <1>1, <1>3, <1>17, EmptyType, GoalLeaves
<1> QED BY <1>4, <1>5, <1>7, <1>8, <1>9, <1>10, <1>11, <1>12, <1>13, <1>14, <1>15, <1>16, <1>17
        DEF OrdinaryLine

(* The invariant after a step, by its parts.                               *)
LEMMA GoalNext ==
  ASSUME phase' \in {"raising", "failed"} => erred',
         phase' = "done" => ~db'.stopped /\ frames' = <<>>,
         reset_at' <= lineno',
         ~erred' /\ exposed' = {} =>
           IF frames' = <<>> THEN GoalFine(db', <<>>, reset_at')
           ELSE /\ GoalFine(db', PendingRules(Last(frames')), reset_at')
                /\ Below(PendingRules(Last(frames')), reset_at')
  PROVE  GoalDue'
<1>1. Top' = Last(frames')
  BY DEF Top
<1> QED BY <1>1 DEF GoalDue, GoalFine, Below, GivesGoal, PendingRules

(* So the parser that goes on when another ends has none.                  *)
LEMMA NoneWaits ==
  ASSUME Types, Ordered, frames # <<>>, exposed = {}, Front(frames) # <<>>
  PROVE  PendingRules(Last(Front(frames))) = <<>>
<1> DEFINE fs == Front(frames)
<1>1. fs \in Seq(Frame) /\ WaitFine(db, fs, lineno, exposed)
  BY TopHolds DEF Ordered, Fine, Types
<1> HIDE DEF fs
<1>2. fs # <<>>
  BY DEF fs
<1>3. Len(fs) \in DOMAIN fs /\ Last(fs) = fs[Len(fs)] /\ Last(fs) \in Frame
  BY <1>1, <1>2, TopHolds
<1>4. Exposed(PendingRules(Last(fs)), {})
  BY <1>1, <1>3 DEF WaitFine
<1>5. PendingRules(Last(fs)) \in Seq(Rule)
  BY <1>3, PendingType
<1> QED BY <1>4, <1>5, NoneExposed DEF fs

(* Every line but include keeps the invariant.                             *)
LEMMA LineGoalDue ==
  ASSUME Types, Ordered, GoalDue, CanRead, NEW line \in Lines, OrdinaryLine(line)
  PROVE  GoalDue'
<1>1. /\ lineno' = lineno + 1 /\ phase' = phase /\ erred' = erred /\ exposed \subseteq exposed'
      /\ reset_at' \in {reset_at, lineno + 1} /\ phase = "reading" /\ lineno \in Nat
      /\ reset_at \in Nat
  BY LineTypes, LineHistory DEF CanRead, Types
<1>2. reset_at' <= lineno'
  BY <1>1 DEF GoalDue
<1>3. ASSUME ~erred', exposed' = {}
      PROVE  /\ frames' # <<>>
             /\ GoalFine(db', PendingRules(Last(frames')), reset_at')
             /\ Below(PendingRules(Last(frames')), reset_at')
  <2>1. ~erred /\ exposed = {}
    BY <1>1, <1>3
  <2>2. GoalOutcome
    BY <2>1, LineGoal
  <2>3. PICK g \in Frame : /\ frames' = SetTop(g)
                           /\ GoalFine(db', PendingRules(g), reset_at')
                           /\ Below(PendingRules(g), reset_at')
    BY <2>2 DEF GoalOutcome
  <2>4. Last(frames') = g /\ frames' # <<>>
    BY <2>3, SetTopHolds DEF Types, CanRead
  <2> QED BY <2>3, <2>4
<1> QED BY <1>1, <1>2, <1>3, GoalNext

(* An include line keeps the invariant: the open rule is registered.       *)
LEMMA IncludeGoal ==
  ASSUME Types, GoalDue, CanRead, NEW line \in Lines, ReadInclude(line)
  PROVE  GoalDue'
<1> DEFINE new == Parser("include", line.file, line.ignore, <<>>)
<1>1. /\ lineno' = lineno + 1 /\ phase' = phase /\ erred' = erred /\ exposed' = exposed
      /\ reset_at' = reset_at /\ new \in Frame
      /\ frames' = Append(SetTop(Waiting), new) \/ frames' = SetTop(Waiting)
  BY IncludeHolds
<1>2. new.current_rule = <<>>
  BY ParserStack
<1> HIDE DEF new
<1>3. Waiting \in Frame /\ PendingRules(Waiting) = <<>> /\ PendingRules(new) = <<>>
  BY <1>2, WaitingType, PendingNone
<1>4. frames' # <<>> /\ PendingRules(Last(frames')) = <<>>
  <2>1. SetTop(Waiting) \in Seq(Frame) /\ SetTop(Waiting) # <<>> /\ Last(SetTop(Waiting)) = Waiting
    BY <1>3, SetTopHolds DEF Types, CanRead
  <2>2. Last(Append(SetTop(Waiting), new)) = new /\ Append(SetTop(Waiting), new) # <<>>
    BY <1>1, <2>1, FrontAppend
  <2> QED BY <1>1, <1>3, <2>1, <2>2
<1>5. phase = "reading" /\ reset_at' <= lineno'
  BY <1>1 DEF CanRead, GoalDue, Types
<1>6. ASSUME ~erred', exposed' = {}
      PROVE  GoalFine(db', <<>>, reset_at')
  <2>1. Equal(Registered(db, Taken), db')
    BY IncludeSame
  <2> QED BY <1>1, <1>6, <2>1, GoalHolds, GoalKept
<1> QED BY <1>1, <1>4, <1>5, <1>6, GoalNext, NoneBelow

(* Reading queued text keeps the invariant: no rule is open then.          *)
LEMMA DrainGoal ==
  ASSUME Types, Ordered, GoalDue, Drain
  PROVE  GoalDue'
<1>1. /\ lineno' = lineno /\ phase' = phase /\ erred' = erred /\ exposed' = exposed /\ db' = db
      /\ reset_at' = reset_at /\ frames # <<>> /\ Top.looping /\ frames \in Seq(Frame)
      /\ phase = "reading"
  BY DEF Drain, Rest, Settled, Types
<1>2. ASSUME ~erred', exposed' = {}
      PROVE  /\ GoalFine(db', <<>>, reset_at')
             /\ frames' # <<>> => PendingRules(Last(frames')) = <<>>
  <2>1. Top \in Frame /\ PendingRules(Top) \in Seq(Rule)
    BY <1>1, SetTopIn, PendingType
  <2>2. PendingRules(Top) = <<>>
    <3>1. Exposed(PendingRules(Top), {})
      BY <1>1, <1>2 DEF Ordered, Hot
    <3> QED BY <2>1, <3>1, NoneExposed
  <2>3. GoalFine(db', <<>>, reset_at')
    BY <1>1, <1>2, <2>2 DEF GoalDue
  <2>4. \/ frames' = frames
        \/ frames' = Front(frames)
        \/ \E new \in Frame : frames' = <<new>> /\ new.current_rule = <<>>
        \/ \E g \in Frame :
             /\ g.current_rule = Top.current_rule /\ g.siblings = Top.siblings
             /\ \/ frames' = SetTop(g)
                \/ \E new \in Frame : frames' = Append(SetTop(g), new) /\ new.current_rule = <<>>
    BY OtherStepFrames
  <2>5. CASE frames' = frames
    BY <2>2, <2>3, <2>5 DEF Top
  <2>6. CASE frames' = Front(frames)
    BY <1>1, <1>2, <2>3, <2>6, NoneWaits
  <2>7. ASSUME NEW new \in Frame, frames' = <<new>>, new.current_rule = <<>>
        PROVE  PendingRules(Last(frames')) = <<>>
    <3>1. <<>> \in Seq(Frame) /\ frames' = Append(<<>>, new)
      BY <2>7
    <3> QED BY <2>7, <3>1, FrontAppend, PendingNone
  <2>8. ASSUME NEW g \in Frame, g.current_rule = Top.current_rule, g.siblings = Top.siblings,
               frames' = SetTop(g)
        PROVE  PendingRules(Last(frames')) = <<>>
    BY <1>1, <2>2, <2>8, SetTopHolds, PendingSame
  <2>9. ASSUME NEW g \in Frame, NEW new \in Frame, frames' = Append(SetTop(g), new),
               new.current_rule = <<>>
        PROVE  PendingRules(Last(frames')) = <<>>
    BY <1>1, <2>9, SetTopHolds, FrontAppend, PendingNone
  <2> QED BY <2>3, <2>4, <2>5, <2>6, <2>7, <2>8, <2>9
<1>3. reset_at' <= lineno'
  BY <1>1 DEF GoalDue
<1> QED BY <1>1, <1>2, <1>3, GoalNext, NoneBelow

(* The end of a text keeps the invariant.                                  *)
LEMMA EndOfTextGoal ==
  ASSUME Types, Ordered, GoalDue, EndOfText
  PROVE  GoalDue'
<1>1. /\ lineno' = lineno /\ exposed' = exposed /\ reset_at' = reset_at /\ phase = "reading"
      /\ frames # <<>> /\ frames \in Seq(Frame) /\ db \in Base /\ reset_at \in Nat
      /\ reset_at' <= lineno'
      /\ \/ phase' = "raising" /\ erred' = TRUE
         \/ phase' = phase /\ erred' = erred /\ frames' = Front(frames) /\ db' = Registered(db, Top)
  BY DEF EndOfText, Types, GoalDue
<1>2. ASSUME ~erred', exposed' = {}
      PROVE  /\ GoalFine(db', <<>>, reset_at')
             /\ frames' # <<>> => PendingRules(Last(frames')) = <<>>
  <2>1. ~erred /\ exposed = {} /\ frames' = Front(frames) /\ db' = Registered(db, Top)
    BY <1>1, <1>2
  <2>2. Top \in Frame
    BY <1>1, SetTopIn
  <2>3. GoalFine(db, PendingRules(Top), reset_at) /\ Below(PendingRules(Top), reset_at)
    BY <1>1, <2>1 DEF GoalDue
  <2> QED BY <1>1, <2>1, <2>2, <2>3, GoalClosed, NoneWaits
<1> QED BY <1>1, <1>2, GoalNext, NoneBelow

(* Errors, skipped files, a new top-level file, which gives up the goal,   *)
(* and the end keep the invariant.                                         *)
LEMMA OtherGoal ==
  ASSUME Types, Ordered, GoalDue, Raise \/ SkipFile \/ StartFile \/ Finished
  PROVE  GoalDue'
<1>1. /\ lineno' = lineno /\ exposed' = exposed /\ erred' = erred /\ db \in Base
      /\ frames \in Seq(Frame) /\ reset_at \in Nat /\ lineno \in Nat /\ reset_at <= lineno
  BY DEF Types, Raise, SkipFile, StartFile, Finished, GoalDue
<1>2. CASE Raise
  <2>1. erred /\ phase' \in {"raising", "failed", "reading"} /\ reset_at' = reset_at
    BY <1>2 DEF Raise, GoalDue
  <2> QED BY <1>1, <2>1, GoalNext
<1>3. CASE SkipFile \/ StartFile \/ Finished
  <2>1. frames = <<>> /\ phase = "reading" /\ ~db.stopped
    BY <1>3 DEF SkipFile, StartFile, Finished
  <2>2. reset_at' \in {reset_at, lineno}
    BY <1>3 DEF SkipFile, StartFile, Finished
  <2>3. /\ phase' \in {"reading", "done"}
        /\ phase' = "done" => db' = db /\ frames' = <<>>
    BY <1>3, <2>1 DEF SkipFile, StartFile, Finished
  <2>4. frames' # <<>> => PendingRules(Last(frames')) = <<>>
    <3>1. \/ frames' = frames
          \/ \E new \in Frame : frames' = <<new>> /\ new.current_rule = <<>>
      BY <1>3, <2>1, OtherStepFrames
    <3>2. ASSUME NEW new \in Frame, frames' = <<new>>, new.current_rule = <<>>
          PROVE  PendingRules(Last(frames')) = <<>>
      <4>1. <<>> \in Seq(Frame) /\ frames' = Append(<<>>, new)
        BY <3>2
      <4> QED BY <3>2, <4>1, FrontAppend, PendingNone
    <3> QED BY <2>1, <3>1, <3>2
  <2>5. ASSUME ~erred', exposed' = {}
        PROVE  GoalFine(db', <<>>, reset_at')
    <3>1. GoalFine(db, <<>>, reset_at)
      BY <1>1, <2>1, <2>5 DEF GoalDue
    <3> DEFINE e == [db EXCEPT !.default_target = <<>>, !.default_goal_explicit = FALSE]
    <3>2. \/ db' = db /\ reset_at' = reset_at
          \/ db' = e /\ reset_at' = lineno
      BY <1>3 DEF SkipFile, StartFile, Finished
    <3>3. GoalFine(e, <<>>, lineno)
      <4>1. e \in Base
        <5>1. <<>> \in FileName
          BY DEF FileName
        <5> QED BY <1>1, <5>1 DEF Base, Database
      <4>2. e.log = db.log /\ e.default_target = <<>>
        BY <1>1 DEF Base, Database
      <4>3. AllWithin(db.log, lineno)
        BY DEF Ordered, LogFine
      <4> HIDE DEF e
      <4> QED BY <1>1, <4>1, <4>2, <4>3, GoalGivenUp
    <3> QED BY <3>1, <3>2, <3>3
  <2>6. reset_at' <= lineno'
    BY <1>1, <2>2
  <2> QED BY <2>1, <2>3, <2>4, <2>5, <2>6, GoalNext, NoneBelow
<1> QED BY <1>2, <1>3

(* Every step keeps the goal right.                                        *)
LEMMA GoalStep ==
  ASSUME Types, Ordered, GoalDue, [Next]_vars
  PROVE  GoalDue'
<1>1. CASE ReadLine
  <2>1. CanRead /\ Offered \subseteq Lines
    BY <1>1, TakenHolds DEF ReadLine
  <2>2. PICK line \in Lines : OrdinaryLine(line) \/ ReadInclude(line)
    BY <1>1, <2>1 DEF ReadLine, OrdinaryLine
  <2> QED BY <2>1, <2>2, LineGoalDue, IncludeGoal
<1>2. CASE Drain \/ EndOfText \/ Raise \/ SkipFile \/ StartFile \/ Finished
  BY <1>2, DrainGoal, EndOfTextGoal, OtherGoal
<1>3. CASE UNCHANGED vars
  <2>1. /\ frames' = frames /\ db' = db /\ lineno' = lineno /\ exposed' = exposed
        /\ phase' = phase /\ erred' = erred /\ reset_at' = reset_at
    BY <1>3 DEF vars
  <2>2. frames # <<>> => Top = Last(frames')
    BY <2>1 DEF Top
  <2> QED BY <2>1, <2>2, GoalNext DEF GoalDue
<1> QED BY <1>1, <1>2, <1>3 DEF Next

(* There is no goal at first, and no rule.                                 *)
LEMMA GoalInit == Init => GoalDue
<1> SUFFICES ASSUME Init PROVE GoalDue
  OBVIOUS
<1>1. frames = <<>> /\ db = Builtins /\ reset_at = 0 /\ lineno = 0 /\ phase = "reading"
  BY DEF Init
<1>2. db.log = <<>> /\ db.default_target = <<>>
  BY <1>1 DEF Builtins
<1>3. GoalFine(db, <<>>, reset_at)
  BY <1>2 DEF GoalFine, GivesGoal
<1> QED BY <1>1, <1>3 DEF GoalDue

(* At the end the invariant is what DefaultGoalIsFirst asks.               *)
LEMMA GoalGives == Types /\ GoalDue => DefaultGoalIsFirst
<1> SUFFICES ASSUME Types, GoalDue PROVE DefaultGoalIsFirst
  OBVIOUS
<1> DEFINE later == Select(db.log, {r \in ToSet(db.log) : r.lineno > reset_at /\ Candidate(r)})
           g == db.default_target
<1>1. ASSUME phase = "done", ~erred, exposed = {}, ~db.default_goal_explicit
      PROVE  g = IF later = <<>> THEN <<>> ELSE FirstGoal(later[1].targets)
  <2>1. ~db.stopped /\ frames = <<>> /\ GoalFine(db, <<>>, reset_at)
    BY <1>1 DEF GoalDue
  <2>2. GivesGoal(<<>>, reset_at, g) => g = <<>>
    BY DEF GivesGoal
  <2>3. GivesGoal(db.log, reset_at, g)
    BY <1>1, <2>1, <2>2 DEF GoalFine
  <2>4. db.log \in Seq(Rule) /\ reset_at \in Nat
    BY BaseHolds DEF Types
  <2> QED BY <2>3, <2>4, GivesIs
<1> QED BY <1>1 DEF DefaultGoalIsFirst, FirstGoal

(* Once all has been read without an error the default goal is that of the *)
(* first rule with a target that may be one, after the last time           *)
(* .DEFAULT_GOAL gave up its value or MAKEFILES had been read, wherever    *)
(* that rule stands; although a rule gives the goal when its line is read, *)
(* a static pattern rule when it is registered, and an assignment or a     *)
(* file that comes between may give it up.  This is not claimed once a     *)
(* rule was open when a conditional queued a text.                         *)
THEOREM FirstRuleIsGoal == Spec => []DefaultGoalIsFirst
<1>1. Init => Ordered /\ GoalDue
  BY OrderedInit, GoalInit
<1>2. Types /\ (Ordered /\ GoalDue) /\ [Next]_vars => (Ordered /\ GoalDue)'
  BY OrderedStep, GoalStep
<1>3. Types /\ (Ordered /\ GoalDue) => DefaultGoalIsFirst
  BY GoalGives
<1> QED BY <1>1, <1>2, <1>3, TypesHold, PTL DEF Spec

=============================================================================
