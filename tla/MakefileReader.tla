--------------------------- MODULE MakefileReader ---------------------------
(***************************************************************************)
(* Reading makefiles: MakeState::read_makefiles, read_makefile_display,    *)
(* eval_string and the loop over the lines, process_parsed_lines.  The     *)
(* text of a file is not fixed beforehand: each line read is one of the    *)
(* alphabet.  A file includes others, and a line that is expanded may      *)
(* queue text for $(eval), so that there is a stack of parsers.            *)
(***************************************************************************)
EXTENDS Variables, RuleBase

CONSTANTS Lines,        \* what a line can be
          Setups,       \* of each run, the lines its files are made of, the
                        \* variables there are at first, and MAKEFILES
          BuiltinRules, \* the pattern rules there are before the first line
          DefaultGoal,  \* the name of .DEFAULT_GOAL
          MaxLines,     \* bound: lines read from files
          MaxDepth      \* include_depth may not exceed it (200 in the code)

Condition == [name : Names, defined : BOOLEAN]
Queues(line) == line.evals \in Seq(Seq(Lines))

(* No value refers to .DEFAULT_GOAL, whose own value is the name of a      *)
(* file, nor does != assign to it, which takes the command for the goal.   *)
KeepsGoalApart(a) ==
  DefaultGoal \notin ToSet(a.value) /\ (a.name = DefaultGoal => a.flavor # "!=")

(* What the parser makes of a line, and the texts that it has for $(eval). *)
IsLine(line) ==
  \/ line.kind = "if" /\ line.condition \in Condition /\ Queues(line)
  \/ /\ line.kind = "else" /\ Queues(line)
     /\ line.condition \in Seq(Condition) /\ Len(line.condition) <= 1
  \/ line.kind \in {"endif", "endef", "recipe"}
  \/ line.kind = "rule" /\ line.rule \in Rule /\ Queues(line)
  \/ /\ line.kind = "static" /\ line.rule \in Rule /\ Queues(line)
     /\ line.targets \in Seq(FileName \ {<<>>}) /\ line.pattern \in FileName
  \/ /\ line.kind = "assign" /\ line.assignment \in Assignment /\ Queues(line)
     /\ KeepsGoalApart(line.assignment)
  \/ line.kind = "target_variable" /\ line.target \in FileName \ {<<>>}
  \/ line.kind = "export" /\ line.names \subseteq Names /\ line.mark \in Marks
  \/ line.kind = "undefine" /\ line.name \in Names /\ line.override \in BOOLEAN
  \/ /\ line.kind = "define" /\ line.name \in Names /\ line.override \in BOOLEAN
     /\ line.flavor \in VarFlavor
  \/ line.kind = "text" /\ line.words \in Seq(Word) /\ DefaultGoal \notin ToSet(line.words)
  \/ line.kind = "empty" /\ Queues(line)
  \/ line.kind = "vpath" /\ line.pattern \in FileName /\ line.directories \in Seq(STRING)
  \/ line.kind = "include" /\ line.file \in STRING /\ line.ignore \in BOOLEAN

ASSUME ReaderAssumption == DefaultGoal \in Names /\ MaxLines \in Nat /\ MaxDepth \in Nat
ASSUME LinesAssumption == \A line \in Lines : IsLine(line)
ASSUME SetupsAssumption ==
  \A setup \in Setups : /\ setup.lines \subseteq Lines /\ IsTable(setup.variables)
                         /\ setup.preread \in Seq(STRING)
ASSUME BuiltinsAssumption ==
  BuiltinRules \in Seq(Rule) /\ \A i \in DOMAIN BuiltinRules : BuiltinRules[i].lineno = 0

VARIABLES
  variables, db,       \* the variables and the rules
  frames,              \* the parsers at work, the innermost last
  eval_pending,        \* texts queued by $(eval)
  pending_includes,    \* the files to be made, or read, later
  include_depth,
  agenda,              \* the files still to be read, [file, of, restores]
  phase,               \* "reading", "raising" an error, "failed", "done"
  alphabet, given,     \* the lines of this run, and its first variables
  lineno,              \* how many lines were read
  overrides, reset_at, \* history: names in override lines; when .DEFAULT_GOAL
                       \* last gave up its value
  exposed,             \* history: rules that were open when a conditional queued text
  erred                \* history: some text could not be read to its end

vars == <<variables, db, frames, eval_pending, pending_includes, include_depth, agenda,
          phase, alphabet, given, lineno, overrides, reset_at, exposed, erred>>

Parser(of, file, ignore, text) ==
  [of |-> of, file |-> file, ignore |-> ignore, text |-> text,
   conditional_stack |-> <<>>, define |-> <<>>, in_recipe |-> FALSE,
   current_rule |-> <<>>, siblings |-> <<>>, queue |-> <<>>, looping |-> FALSE]

Top == Last(frames)
SetTop(f) == Append(Front(frames), f)

is_conditionally_active(f) ==
  \A i \in DOMAIN f.conditional_stack : f.conditional_stack[i].active

Builtins == [rules |-> <<>>, pattern_rules |-> BuiltinRules,
             builtin_pattern_rules_count |-> Len(BuiltinRules),
             special_targets |-> <<>>, suffixes |-> {<<d>> : d \in Dotted},
             default_target |-> <<>>, default_goal_explicit |-> FALSE,
             second_expansion |-> FALSE, posix_mode |-> FALSE, not_parallel |-> FALSE,
             not_parallel_targets |-> {}, export_all |-> FALSE, unexport_all |-> FALSE,
             explicitly_mentioned |-> {}, vpath |-> <<>>, stopped |-> FALSE, log |-> <<>>]

Init ==
  /\ \E setup \in Setups :
       /\ alphabet = setup.lines /\ variables = setup.variables /\ given = setup.variables
       /\ agenda = [i \in DOMAIN setup.preread |->
                       [file |-> setup.preread[i], of |-> "preread", restores |-> FALSE]]
                     \o <<[file |-> "Makefile", of |-> "makefile",
                           restores |-> setup.preread # <<>>]>>
  /\ db = Builtins
  /\ frames = <<>> /\ eval_pending = <<>> /\ pending_includes = <<>>
  /\ include_depth = 0 /\ phase = "reading"
  /\ lineno = 0
  /\ overrides = {} /\ reset_at = 0 /\ exposed = {} /\ erred = FALSE
-----------------------------------------------------------------------------
(* Registering the rule whose recipe was being read.  db.log is history:   *)
(* all rules that have been registered.                                    *)

(* The other targets of a static pattern rule share the recipe. *)
PendingRules(f) ==
  IF f.current_rule = <<>> THEN <<>>
  ELSE [i \in DOMAIN f.siblings |-> [f.siblings[i] EXCEPT !.recipe = f.current_rule[1].recipe]]
         \o f.current_rule

(* One after the other, unless there was an error. *)
RegisterNext(d, rule) ==
  IF d.stopped THEN d ELSE [register_rule(d, rule) EXCEPT !.log = Append(@, rule)]

Registered(d, f) ==
  LET rules == PendingRules(f)
      upTo[n \in 0..Len(rules)] == IF n = 0 THEN d ELSE RegisterNext(upTo[n - 1], rules[n])
  IN  upTo[Len(rules)]

(* A fault: after a directive a line with a tab still looks like a recipe. *)
FlushedInRecipe(f) ==
  [f EXCEPT !.current_rule = <<>>, !.siblings = <<>>]

Flushed(f) ==
  [f EXCEPT !.current_rule = <<>>, !.siblings = <<>>,
            !.in_recipe = @ /\ f.current_rule = <<>>]

(* While no rule has given a default goal the variable shows none. *)
Shown(table, before, d) ==
  IF d.default_target = before.default_target \/ d.default_target = <<>> THEN table
  ELSE Bind(table, DefaultGoal, [value |-> d.default_target, flavor |-> "simple",
                                 origin |-> "default", export |-> "unset"])

(* Faults of the end of a line: the rule is not registered before what     *)
(* $(eval) has queued is read.                                             *)
EndLineLate(f, d, table, evals, recipe) ==
  LET pending == eval_pending \o evals
  IN  /\ frames' = SetTop([f EXCEPT !.looping = pending # <<>>])
      /\ db' = d /\ variables' = table /\ eval_pending' = pending

(* The end of an iteration: if $(eval) has queued text, and this was not a *)
(* recipe line, the rule is complete.  Then the text is read.              *)
EndLine(f, d, table, evals, recipe) ==
  LET pending == eval_pending \o evals
      complete == pending # <<>> /\ ~recipe
  IN  /\ frames' = SetTop([(IF complete THEN Flushed(f) ELSE f)
                             EXCEPT !.looping = pending # <<>>])
      /\ db' = IF complete THEN Registered(d, f) ELSE d
      /\ variables' = Shown(table, d, db')
      /\ eval_pending' = pending
-----------------------------------------------------------------------------
(* Reading one line.                                                       *)

Offered == IF Top.of = "eval" THEN {Head(Top.text)} ELSE alphabet

CanRead ==
  /\ phase = "reading" /\ ~db.stopped
  /\ frames # <<>> /\ ~Top.looping
  /\ IF Top.of = "eval" THEN Top.text # <<>> ELSE lineno < MaxLines

(* The parser after it has taken the line. *)
Taken == IF Top.of = "eval" THEN [Top EXCEPT !.text = Tail(@)] ELSE Top

Reads(line, kind) ==
  /\ line.kind = kind /\ Top.define = <<>> /\ is_conditionally_active(Top)
  /\ lineno' = lineno + 1

Steady == UNCHANGED <<pending_includes, overrides, reset_at, include_depth, agenda, phase,
                      alphabet, given, erred>>
Settled == UNCHANGED <<include_depth, agenda, phase, alphabet, given, exposed, erred>>
Rest == UNCHANGED <<pending_includes, overrides, reset_at>> /\ Settled

(* The lines of a define block are only collected, and of those in a dead  *)
(* branch only the conditionals count.                                     *)
ReadInDefine(line) ==
  /\ Top.define # <<>> /\ lineno' = lineno + 1
  /\ LET block == Top.define[1]
         nested == line.kind = "define"
         inner == line.kind = "endef" /\ block.depth > 0
     IN  IF line.kind # "endef" \/ inner
         THEN /\ frames' = SetTop([Taken EXCEPT !.define = <<[block EXCEPT
                   !.depth = IF nested THEN @ + 1 ELSE IF inner THEN @ - 1 ELSE @,
                   !.body = IF line.kind = "text" THEN @ \o line.words ELSE @]>>])
              /\ UNCHANGED variables
         ELSE /\ frames' = SetTop([Taken EXCEPT !.define = <<>>])
              /\ variables' = Define(variables, block.name, block.flavor,
                                     block.override, block.body)
  /\ UNCHANGED <<db, eval_pending>> /\ Rest

ReadInDeadBranch(line) ==
  /\ Top.define = <<>> /\ ~is_conditionally_active(Top)
  /\ line.kind \notin {"if", "else", "endif"}
  /\ frames' = SetTop(Taken) /\ lineno' = lineno + 1
  /\ UNCHANGED <<variables, db, eval_pending>> /\ Rest

evaluate_condition(kind) == IsDefined(variables, kind.name) = kind.defined

(* A conditional in a dead branch is not evaluated.  What one queues is    *)
(* not read before the next line.  branches is history: how many of its    *)
(* branches were alive.                                                    *)
Queue(evals) ==
  /\ eval_pending' = eval_pending \o evals
  /\ exposed' = IF evals = <<>> THEN exposed
                ELSE exposed \cup {rule.lineno : rule \in ToSet(Top.current_rule)}

ReadConditional(line) ==
  /\ line.kind = "if" /\ Top.define = <<>> /\ lineno' = lineno + 1
  /\ LET alive == is_conditionally_active(Top)
         active == alive /\ evaluate_condition(line.condition)
     IN  /\ frames' = SetTop([Taken EXCEPT !.conditional_stack =
               Append(@, [active |-> active, seen_true |-> active,
                          branches |-> IF active THEN 1 ELSE 0])])
         /\ Queue(IF alive THEN line.evals ELSE <<>>)
  /\ UNCHANGED <<variables, db>> /\ Steady

(* A fault: that a branch was alive is forgotten. *)
OtherwiseAgain(state, condition) ==
  LET active == ~state.active /\ (condition = <<>> \/ evaluate_condition(condition[1]))
  IN  [active |-> active, seen_true |-> active,
       branches |-> state.branches + IF active THEN 1 ELSE 0]

Otherwise(state, condition) ==
  LET active == ~state.seen_true /\ (condition = <<>> \/ evaluate_condition(condition[1]))
  IN  [active |-> active, seen_true |-> state.seen_true \/ active,
       branches |-> state.branches + IF active THEN 1 ELSE 0]

(* else if is evaluated even if the whole conditional is in a dead branch. *)
ReadElse(line) ==
  /\ line.kind = "else" /\ Top.define = <<>> /\ lineno' = lineno + 1
  /\ LET stack == Top.conditional_stack
         state == Last(stack)
     IN  IF stack = <<>> THEN frames' = SetTop(Taken) /\ Queue(<<>>)
         ELSE /\ frames' = SetTop([Taken EXCEPT !.conditional_stack =
                              Append(Front(stack), Otherwise(state, line.condition))])
              /\ Queue(IF state.seen_true THEN <<>> ELSE line.evals)
  /\ UNCHANGED <<variables, db>> /\ Steady

ReadEndif(line) ==
  /\ line.kind = "endif" /\ Top.define = <<>> /\ lineno' = lineno + 1
  /\ frames' = SetTop([Taken EXCEPT !.conditional_stack = IF @ = <<>> THEN @ ELSE Front(@)])
  /\ UNCHANGED <<variables, db, eval_pending>> /\ Rest
-----------------------------------------------------------------------------
(* Rules.                                                                  *)

(* A fault: whether there is second expansion is asked before the rule     *)
(* above is registered.                                                    *)
AsReadEarly(d, rule) ==
  LET kept == rule.text_dollar /\ db.second_expansion
  IN  [rule EXCEPT !.lineno = lineno + 1, !.dollar = kept,
                   !.prerequisites = IF kept THEN <<>> ELSE @,
                   !.recipe = [i \in DOMAIN @ |-> lineno + 1]]

(* With second expansion prerequisites with a dollar wait for it. *)
AsRead(d, rule) ==
  LET kept == rule.text_dollar /\ d.second_expansion
  IN  [rule EXCEPT !.lineno = lineno + 1, !.dollar = kept,
                   !.prerequisites = IF kept THEN <<>> ELSE @,
                   !.recipe = [i \in DOMAIN @ |-> lineno + 1]]

(* The rule above is registered; .POSIX and the default goal take effect   *)
(* before the recipe of this one is read.                                  *)
ReadRule(line) ==
  /\ Reads(line, "rule")
  /\ LET d == Registered(db, Taken)
         rule == AsRead(d, line.rule)
         posix == [d EXCEPT !.posix_mode = @ \/ Contains(rule.targets, <<"POSIX">>)]
         started == DefaultFrom(posix, rule.targets)
     IN  EndLine([Taken EXCEPT !.current_rule = <<rule>>, !.siblings = <<>>,
                               !.in_recipe = TRUE],
                 started, Shown(variables, db, started), line.evals, FALSE)
  /\ Rest

(* targets: target-pattern: prerequisites, a rule for each target; one     *)
(* that does not match has no prerequisites.                               *)
expand_static_pattern_rule(line) ==
  [i \in DOMAIN line.targets |->
    LET target == line.targets[i]
        matched == match_pattern(target, line.pattern)
        stem == Stem(target, line.pattern)
    IN  [line.rule EXCEPT
          !.targets = <<target>>,
          !.text_dollar = @ /\ matched,
          !.static_stem = IF matched THEN stem ELSE <<>>,
          !.prerequisites = IF matched THEN [p \in DOMAIN @ |-> apply_stem(@[p], stem)]
                            ELSE <<>>]]

ReadStaticPattern(line) ==
  /\ Reads(line, "static")
  /\ LET d == Registered(db, Taken)
         rules == expand_static_pattern_rule(line)
         read == [i \in DOMAIN rules |-> AsRead(d, rules[i])]
         table == Shown(variables, db, d)
     IN  IF rules = <<>>
         THEN /\ frames' = SetTop([Flushed(Taken) EXCEPT !.in_recipe = FALSE])
              /\ db' = d /\ variables' = table /\ eval_pending' = eval_pending \o line.evals
         ELSE EndLine([Taken EXCEPT !.current_rule = <<Last(read)>>, !.siblings = Front(read),
                                    !.in_recipe = TRUE], d, table, line.evals, FALSE)
  /\ Rest

(* A line with a tab is a recipe line only after a rule. *)
ReadRecipe(line) ==
  /\ Reads(line, "recipe")
  /\ LET f == Taken
         longer(rule) == [rule EXCEPT !.recipe = Append(@, lineno + 1)]
     IN  IF f.in_recipe
         THEN EndLine([f EXCEPT !.current_rule = [i \in DOMAIN @ |-> longer(@[i])],
                                !.siblings = [i \in DOMAIN @ |-> longer(@[i])]],
                      db, variables, <<>>, TRUE)
         ELSE /\ db' = [db EXCEPT !.stopped = TRUE]
              /\ UNCHANGED <<variables, frames, eval_pending>>
  /\ Rest
-----------------------------------------------------------------------------
(* Variables.                                                              *)

(* .DEFAULT_GOAL: no value gives it up, one that expands to nothing means  *)
(* no goal, one word is the goal, and more are an error.  The value of :=  *)
(* has been expanded by then, so that $(EMPTY) gives the goal up there.    *)
(* Whether the assignment had an effect on the variable is not asked.      *)
SetGoal(d, a, goal) ==
  IF Len(goal) > 1 THEN [d EXCEPT !.stopped = TRUE]
  ELSE [d EXCEPT !.default_target = goal, !.default_goal_explicit = a.value # <<>>]

(* A fault: the rule above is registered after the assignment. *)
ReadAssignmentFirst(line) ==
  /\ Reads(line, "assign")
  /\ LET a == Immediate(variables, line.assignment)
         goal == Expand(variables, a.value)
         d == IF a.name = DefaultGoal THEN SetGoal(db, a, goal) ELSE db
     IN  /\ EndLine(Flushed(Taken), Registered(d, Taken), set_variable(variables, a),
                    line.evals, FALSE)
         /\ overrides' = IF a.override THEN overrides \cup {a.name} ELSE overrides
         /\ reset_at' = IF a.name = DefaultGoal THEN lineno + 1 ELSE reset_at
  /\ UNCHANGED pending_includes /\ Settled

(* The rule above is registered first, so that it cannot be made the       *)
(* default goal that the assignment gives up.                              *)
ReadAssignment(line) ==
  /\ Reads(line, "assign")
  /\ LET a == Immediate(variables, line.assignment)
         d == Registered(db, Taken)
         table == Shown(variables, db, d)
         set == set_variable(table, a)
         goal == Expand(set, a.value)
         special == a.name = DefaultGoal /\ (a.flavor = "?=" \/ ~Blocked(table, a))
     IN  /\ EndLine(Flushed(Taken), IF special THEN SetGoal(d, a, goal) ELSE d,
                    IF special THEN [set EXCEPT ![DefaultGoal].value = goal] ELSE set,
                    line.evals, FALSE)
         /\ overrides' = IF a.override THEN overrides \cup {a.name} ELSE overrides
         /\ reset_at' = IF special THEN lineno + 1 ELSE reset_at
  /\ UNCHANGED pending_includes /\ Settled

NoRule == [targets |-> <<>>, prerequisites |-> <<>>, order_only |-> <<>>, recipe |-> <<>>,
           double_colon |-> FALSE, grouped_siblings |-> <<>>, static_stem |-> <<>>,
           vars |-> <<>>, lineno |-> 0, text_dollar |-> FALSE, dollar |-> FALSE]

ReadTargetVariable(line) ==
  /\ Reads(line, "target_variable")
  /\ LET d == Registered(db, Taken)
         placeholder == [NoRule EXCEPT !.targets = <<line.target>>]
     IN  EndLine(Flushed(Taken), TargetVariable(d, line.target, placeholder, lineno + 1),
                 Shown(variables, db, d), <<>>, FALSE)
  /\ Rest

(* Unlike the lines above, the next four leave the rule open. *)
ReadExport(line) ==
  /\ Reads(line, "export")
  /\ EndLine(Taken,
       [db EXCEPT !.export_all = @ \/ (line.names = {} /\ line.mark = "exported"),
                  !.unexport_all = @ \/ (line.names = {} /\ line.mark = "unexported")],
       Mark(variables, line.names, line.mark), <<>>, FALSE)
  /\ Rest

(* A fault: undefine does not heed the command line. *)
ReadUndefineAll(line) ==
  /\ Reads(line, "undefine")
  /\ overrides' = IF line.override THEN overrides \cup {line.name} ELSE overrides
  /\ EndLine(Taken, db, Undefine(variables, line.name, TRUE), <<>>, FALSE)
  /\ UNCHANGED <<pending_includes, reset_at>> /\ Settled

ReadUndefine(line) ==
  /\ Reads(line, "undefine")
  /\ overrides' = IF line.override THEN overrides \cup {line.name} ELSE overrides
  /\ EndLine(Taken, db, Undefine(variables, line.name, line.override), <<>>, FALSE)
  /\ UNCHANGED <<pending_includes, reset_at>> /\ Settled

ReadDefine(line) ==
  /\ Reads(line, "define")
  /\ overrides' = IF line.override THEN overrides \cup {line.name} ELSE overrides
  /\ EndLine([Taken EXCEPT !.define = <<[name |-> line.name, flavor |-> line.flavor,
                override |-> line.override, depth |-> 0, body |-> <<>>]>>],
             db, variables, <<>>, FALSE)
  /\ UNCHANGED <<pending_includes, reset_at>> /\ Settled

(* A line that expands to nothing: all it does is in its $(eval). *)
ReadEmpty(line) ==
  /\ Reads(line, "empty")
  /\ EndLine(Taken, db, variables, line.evals, FALSE)
  /\ Rest

ReadVpath(line) ==
  /\ Reads(line, "vpath")
  /\ LET d == Registered(db, Taken)
         vpath == IF line.pattern = <<>> THEN <<>>
                  ELSE IF line.directories = <<>>
                  THEN Select(d.vpath, {v \in ToSet(d.vpath) : v[1] # line.pattern})
                  ELSE Append(d.vpath, <<line.pattern, line.directories>>)
     IN  EndLine(Flushed(Taken), [d EXCEPT !.vpath = vpath], Shown(variables, db, d), <<>>, FALSE)
  /\ Rest

(* Neither a directive, nor an assignment, nor a rule. *)
ReadMissingSeparator(line) ==
  /\ line.kind \in {"text", "endef"} /\ Reads(line, line.kind)
  /\ db' = [db EXCEPT !.stopped = TRUE]
  /\ UNCHANGED <<variables, frames, eval_pending>> /\ Rest
-----------------------------------------------------------------------------
(* Files and texts.                                                        *)

Missing(file, ignore) == Append(pending_includes, [file |-> file, ignore_missing |-> ignore])

(* A fault: the file is read before the rule above is registered. *)
ReadIncludeFirst(line) ==
  /\ Reads(line, "include") /\ include_depth < MaxDepth
  /\ frames' = Append(SetTop([Taken EXCEPT !.looping = TRUE]),
                      Parser("include", line.file, line.ignore, <<>>))
  /\ include_depth' = include_depth + 1
  /\ UNCHANGED <<variables, db, pending_includes, eval_pending, agenda, phase, alphabet, given,
                 overrides, reset_at, exposed, erred>>

(* The file is read at once if it is there, and nested includes are not    *)
(* too many; otherwise it may be made later.                               *)
ReadInclude(line) ==
  /\ Reads(line, "include")
  /\ LET d == Registered(db, Taken)
         parent == [Flushed(Taken) EXCEPT !.looping = TRUE]
     IN  /\ db' = [d EXCEPT !.explicitly_mentioned = @ \cup {<<line.file>>}]
         /\ variables' = Shown(variables, db, d)
         /\ \/ /\ include_depth < MaxDepth
               /\ frames' = Append(SetTop(parent), Parser("include", line.file, line.ignore, <<>>))
               /\ include_depth' = include_depth + 1
               /\ UNCHANGED pending_includes
            \/ /\ frames' = SetTop(parent)
               /\ pending_includes' = Missing(line.file, line.ignore)
               /\ UNCHANGED include_depth
  /\ UNCHANGED <<eval_pending, agenda, phase, alphabet, given, overrides, reset_at, exposed, erred>>

(* Reading what $(eval) has queued, until nothing is left.  A rule can be   *)
(* open then: what a conditional has queued is not read before the next    *)
(* line, and when that is a recipe line the rule goes on after it.         *)
Drain ==
  /\ phase = "reading" /\ ~db.stopped /\ frames # <<>> /\ Top.looping
  /\ IF Top.queue # <<>>
     THEN /\ frames' = Append(SetTop([Top EXCEPT !.queue = Tail(@)]),
                              Parser("eval", "<eval>", FALSE, Head(Top.queue)))
          /\ UNCHANGED eval_pending
     ELSE /\ frames' = SetTop([Top EXCEPT !.queue = eval_pending, !.looping = eval_pending # <<>>])
          /\ eval_pending' = <<>>
  /\ UNCHANGED <<variables, db, lineno>> /\ Rest

IsFile(f) == f.of # "eval"

(* The end of the text: an open define is an error, and the rule above is  *)
(* lost with it.                                                           *)
EndOfText ==
  /\ phase = "reading" /\ ~db.stopped /\ frames # <<>> /\ ~Top.looping /\ Top.text = <<>>
  /\ IF Top.define # <<>>
     THEN phase' = "raising" /\ erred' = TRUE
          /\ UNCHANGED <<frames, db, variables, include_depth>>
     ELSE /\ db' = Registered(db, Top)
          /\ variables' = Shown(variables, db, db')
          /\ frames' = Front(frames)
          /\ include_depth' = IF IsFile(Top) THEN include_depth - 1 ELSE include_depth
          /\ UNCHANGED <<phase, erred>>
  /\ UNCHANGED <<eval_pending, pending_includes, agenda, alphabet, given, lineno, overrides,
                 reset_at, exposed>>

(* The error goes up through the texts of $(eval) to the file that holds   *)
(* them.  Its include line takes it for a file to be made; in a file of    *)
(* MAKEFILES it is ignored.                                                *)
Raise ==
  /\ phase = "raising"
  /\ frames' = Front(frames)
  /\ include_depth' = IF IsFile(Top) THEN include_depth - 1 ELSE include_depth
  /\ phase' = CASE Top.of = "eval" /\ Len(frames) > 1 -> "raising"
                [] Top.of \in {"eval", "makefile"} -> "failed"
                [] OTHER -> "reading"
  /\ pending_includes' = IF Top.of = "include" THEN Missing(Top.file, Top.ignore)
                         ELSE pending_includes
  /\ UNCHANGED <<variables, db, eval_pending, agenda, alphabet, given, lineno,
                 overrides, reset_at, exposed, erred>>

(* A file of MAKEFILES that is not there may be made later. *)
SkipFile ==
  /\ phase = "reading" /\ ~db.stopped /\ frames = <<>>
  /\ agenda # <<>> /\ Head(agenda).of = "preread"
  /\ agenda' = Tail(agenda)
  /\ pending_includes' = Missing(Head(agenda).file, TRUE)
  /\ UNCHANGED <<variables, db, frames, eval_pending, include_depth, phase, alphabet, given,
                 lineno, overrides, reset_at, exposed, erred>>

(* The files of MAKEFILES, if there are any, leave no default goal behind. *)
StartFile ==
  /\ phase = "reading" /\ ~db.stopped /\ frames = <<>> /\ agenda # <<>>
  /\ agenda' = Tail(agenda)
  /\ frames' = <<Parser(Head(agenda).of, Head(agenda).file, TRUE, <<>>)>>
  /\ include_depth' = include_depth + 1
  /\ pending_includes' = IF Head(agenda).of = "makefile" THEN Missing(Head(agenda).file, TRUE)
                         ELSE pending_includes
  /\ IF Head(agenda).restores
     THEN /\ db' = [db EXCEPT !.default_target = <<>>, !.default_goal_explicit = FALSE]
          /\ variables' = IF DefaultGoal \in DOMAIN variables
                          THEN [variables EXCEPT ![DefaultGoal].value = <<>>] ELSE variables
          /\ reset_at' = lineno
     ELSE UNCHANGED <<db, variables, reset_at>>
  /\ UNCHANGED <<eval_pending, phase, alphabet, given, lineno, overrides, exposed,
                 erred>>

(* What is still queued is read before the goals are made. *)
Finished ==
  /\ phase = "reading" /\ ~db.stopped /\ frames = <<>> /\ agenda = <<>>
  /\ IF eval_pending = <<>> THEN phase' = "done" /\ UNCHANGED <<frames, eval_pending>>
     ELSE /\ frames' = <<Parser("eval", "<eval>", FALSE, Head(eval_pending))>>
          /\ eval_pending' = Tail(eval_pending)
          /\ UNCHANGED phase
  /\ UNCHANGED <<variables, db, pending_includes, include_depth, agenda, alphabet, given, lineno,
                 overrides, reset_at, exposed, erred>>

ReadLine ==
  /\ CanRead
  /\ \E line \in Offered :
       \/ ReadInDefine(line) \/ ReadInDeadBranch(line)
       \/ ReadConditional(line) \/ ReadElse(line) \/ ReadEndif(line)
       \/ ReadRule(line) \/ ReadStaticPattern(line) \/ ReadRecipe(line)
       \/ ReadAssignment(line) \/ ReadTargetVariable(line) \/ ReadExport(line)
       \/ ReadUndefine(line) \/ ReadDefine(line) \/ ReadEmpty(line) \/ ReadVpath(line)
       \/ ReadMissingSeparator(line) \/ ReadInclude(line)

Next == ReadLine \/ Drain \/ EndOfText \/ Raise \/ SkipFile \/ StartFile \/ Finished

Spec == Init /\ [][Next]_vars
-----------------------------------------------------------------------------
(* Properties.                                                             *)

(* The types of the state; a parser takes recipe lines exactly while there *)
(* is a rule to take them, so that no recipe line is dropped, and          *)
(* include_depth is the number of files being read, after errors too.      *)
ReaderTypeOK ==
  /\ IsTable(variables) /\ IsDatabase(db)
  /\ \A i \in DOMAIN frames :
       LET f == frames[i]
       IN  /\ f.of \in {"makefile", "preread", "include", "eval"}
           /\ f.current_rule \in Seq(Rule) /\ Len(f.current_rule) <= 1
           /\ f.siblings \in Seq(Rule) /\ Len(f.define) <= 1
           /\ f.in_recipe <=> f.current_rule # <<>>
  /\ phase \in {"reading", "raising", "failed", "done"}
  /\ lineno \in Nat /\ overrides \subseteq Names
  /\ include_depth = Cardinality({i \in DOMAIN frames : IsFile(frames[i])})

(* What the command line gave a variable no line without override takes    *)
(* away: not an assignment of any kind, nor define, nor undefine, in an    *)
(* included file or a text of $(eval) either.  .DEFAULT_GOAL is not among  *)
(* them: the first rule puts its target there, whoever has set it.         *)
CommandLineHolds ==
  \A n \in DOMAIN given \ (overrides \cup {DefaultGoal}) :
    given[n].origin = "command_line" =>
      n \in DOMAIN variables /\ variables[n].value = given[n].value

(* Of the branches of a conditional at most one is read, though what is    *)
(* read may change what the later conditions ask for.                      *)
OneBranch ==
  \A i \in DOMAIN frames : \A c \in DOMAIN frames[i].conditional_stack :
    frames[i].conditional_stack[c].branches <= 1

(* Rules are registered in the order they are read, whole, through nested  *)
(* files and texts: no rule is overtaken by one further down, and its      *)
(* recipe ends before the next one begins.  Only a text that a conditional *)
(* has queued, read after a recipe line, overtakes the rule of that line.  *)
RegisteredInOrder ==
  \A j \in DOMAIN db.log : \A i \in 1..(j - 1) :
    \/ db.log[j].lineno \in exposed /\ db.log[j].lineno < db.log[i].lineno
    \/ /\ db.log[i].lineno = db.log[j].lineno
       /\ db.log[i].recipe = db.log[j].recipe
    \/ /\ db.log[i].lineno < db.log[j].lineno
       /\ \A k \in DOMAIN db.log[i].recipe : db.log[i].recipe[k] < db.log[j].lineno

Candidate(rule) == \E i \in DOMAIN rule.targets : MayBeDefault(rule.targets[i])

(* Once all has been read without an error the default goal is that of the *)
(* first rule after .DEFAULT_GOAL last gave up its value, wherever that    *)
(* rule stands, but not in a file of MAKEFILES; unless a rule was open     *)
(* when a conditional queued a text, whose rules may overtake it.          *)
DefaultGoalIsFirst ==
  LET later == Select(db.log, {r \in ToSet(db.log) : r.lineno > reset_at /\ Candidate(r)})
  IN  phase = "done" /\ ~erred /\ exposed = {} /\ ~db.default_goal_explicit =>
        db.default_target = IF later = <<>> THEN <<>>
                            ELSE DefaultFrom(Builtins, later[1].targets).default_target

(* The rules of one target, as they were read. *)
Given(t) ==
  Select(db.log, {r \in ToSet(db.log) : Contains(r.targets, t) /\ ~is_pattern(r)})

(* Each prerequisite is named once. *)
NamedOnce(rule) ==
  IsInjective(rule.prerequisites) /\ ToSet(rule.prerequisites) \cap ToSet(rule.order_only) = {}

(* Of single-colon rules nothing is lost: their one rule has the           *)
(* prerequisites of all and the last recipe.  Unless a rule by itself      *)
(* names one twice, each is there once, and of one sort, normal if any     *)
(* rule has it so.  A special target has no rules, but it may have one     *)
(* that was made for a variable of it.                                     *)
MergedWhole ==
  \A t \in {u \in DOMAIN db.rules : ~SpecialTarget(u)} :
    LET seen == Given(t)
        merged == db.rules[t][1]
        cooked == Select(seen, {r \in ToSet(seen) : r.recipe # <<>>})
        normal == UNION {ToSet(seen[i].prerequisites) : i \in DOMAIN seen}
        weak == UNION {ToSet(seen[i].order_only) : i \in DOMAIN seen}
    IN  ~db.stopped /\ (\A i \in DOMAIN seen : ~seen[i].double_colon) =>
          /\ Len(db.rules[t]) = 1
          /\ ToSet(merged.prerequisites) = normal
          /\ weak \ normal \subseteq ToSet(merged.order_only) /\ ToSet(merged.order_only) \subseteq weak
          /\ (\A i \in DOMAIN seen : NamedOnce(seen[i])) =>
               IsInjective(merged.prerequisites) /\ ToSet(merged.order_only) = weak \ normal
          /\ merged.recipe = IF cooked = <<>> THEN <<>> ELSE Last(cooked).recipe

(* The built-in rules that are left are the first ones and are as many as  *)
(* the count says, whatever has been cancelled: .SUFFIXES: throws away     *)
(* these and no rule of a makefile.                                        *)
BuiltinsFirst ==
  \A i \in DOMAIN db.pattern_rules :
    i <= db.builtin_pattern_rules_count <=> db.pattern_rules[i].lineno = 0

(* The prerequisites of a rule wait for second expansion exactly if        *)
(* .SECONDEXPANSION stands above it, in any file or text.                  *)
SecondExpansionFromThere ==
  \A i \in DOMAIN db.log :
    db.log[i].dollar <=>
      /\ db.log[i].text_dollar
      /\ \E j \in 1..(i - 1) : /\ db.log[j].lineno < db.log[i].lineno
                              /\ Contains(db.log[j].targets, <<"SECONDEXPANSION">>)

(* What is read takes effect in the order it is read. *)
ReadInOrder == RegisteredInOrder /\ SecondExpansionFromThere

(* No file is given by name both as intermediate, or secondary, and as not *)
(* intermediate, in whatever order the lines come.                         *)
NotBoth ==
  ~db.stopped => Names_of(db, "NOTINTERMEDIATE")
                   \cap (Names_of(db, "INTERMEDIATE") \cup Names_of(db, "SECONDARY")) = {}

(* What register_rule leaves in the tables agrees with the rules as they   *)
(* were read.                                                              *)
DatabaseAgrees == MergedWhole /\ BuiltinsFirst /\ NotBoth
=============================================================================
