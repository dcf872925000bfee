-------------------------- MODULE MCMakefileReader --------------------------
(* Small alphabets of lines, one for each question.                        *)
EXTENDS MakefileReader

Line(kind) == [kind |-> kind, evals |-> <<>>]

Assign(name, flavor, value, override) ==
  [kind |-> "assign", evals |-> <<>>,
   assignment |-> [name |-> name, flavor |-> flavor, value |-> value,
                   override |-> override, export |-> FALSE]]
RuleLine(rule) == [kind |-> "rule", evals |-> <<>>, rule |-> rule]
Plain(targets, prerequisites) ==
  [NoRule EXCEPT !.targets = targets, !.prerequisites = prerequisites]
Cooked(rule) == [rule EXCEPT !.recipe = <<0>>]
Double(rule) == [rule EXCEPT !.double_colon = TRUE]
Special_(name, names) == RuleLine(Plain(<< <<name>> >>, names))
IfLine(kind, name, defined) ==
  [kind |-> kind, evals |-> <<>>,
   condition |-> IF kind = "if" THEN [name |-> name, defined |-> defined]
                 ELSE << [name |-> name, defined |-> defined] >>]
DefineLine(name, flavor, override) ==
  [kind |-> "define", name |-> name, flavor |-> flavor, override |-> override]
UndefineLine(name, override) == [kind |-> "undefine", name |-> name, override |-> override]
ExportLine(names, mark) == [kind |-> "export", names |-> names, mark |-> mark]
IncludeLine == [kind |-> "include", file |-> "inc", ignore |-> TRUE]
EvalLine(text) == [kind |-> "empty", evals |-> <<text>>]
StaticLine(targets, pattern, rule) ==
  [kind |-> "static", evals |-> <<>>, targets |-> targets, pattern |-> pattern, rule |-> rule]

a == <<"a">>   b == <<"b">>   c == <<"c">>
ao == <<"a", ".o">>   bo == <<"b", ".o">>
po == <<Percent, ".o">>   pc == <<Percent, ".c">>

MCNames == {"X", "Y", "GOAL"}

Initial(origin) == [value |-> <<"v">>, flavor |-> "recursive", origin |-> origin,
                    export |-> "unset"]
Given_(origin) == [X |-> Initial(origin)]
NoVariables == <<>>

VariableLines ==
  {Assign("X", flavor, <<"Y">>, FALSE) : flavor \in {"=", ":=", "?="}}
  \cup {Assign("X", "+=", <<"Y">>, override) : override \in BOOLEAN}
  \cup {Assign("Y", ":::=", <<"w">>, FALSE), Assign("X", "!=", <<"w">>, FALSE)}
  \cup {DefineLine("X", "+=", override) : override \in BOOLEAN}
  \cup {Line("endef"), [kind |-> "text", words |-> <<"w">>]}
  \cup {UndefineLine("X", override) : override \in BOOLEAN}
  \cup {ExportLine({"X"}, "unexported")}

ConditionalLines ==
  {IfLine("if", "X", TRUE), IfLine("if", "Y", FALSE), IfLine("else", "Y", TRUE),
   [kind |-> "else", evals |-> <<>>, condition |-> <<>>], Line("endif"),
   Assign("X", "=", <<"v">>, FALSE), Assign("Y", "=", <<"v">>, FALSE), UndefineLine("X", FALSE)}

MergeLines ==
  {RuleLine(Plain(<<a>>, <<b>>)), RuleLine(Cooked(Plain(<<a>>, <<c, b>>))),
   RuleLine([Plain(<<a>>, <<>>) EXCEPT !.order_only = <<b, c>>]),
   RuleLine(Double(Cooked(Plain(<<a>>, <<b>>)))),
   RuleLine([Cooked(Plain(<<a, b>>, <<c>>)) EXCEPT !.grouped_siblings = <<a, b>>]),
   RuleLine([Plain(<<a, b>>, <<>>) EXCEPT !.grouped_siblings = <<a, b>>]),
   RuleLine([Plain(<<a>>, <<c, c>>) EXCEPT !.order_only = <<b, c>>]),
   [kind |-> "target_variable", target |-> a], Line("recipe")}

OrderLines ==
  {RuleLine(Double(Cooked(Plain(<<a>>, <<>>)))), Line("recipe"), IncludeLine,
   Special_("SECONDEXPANSION", <<>>),
   EvalLine(<<RuleLine(Double(Cooked(Plain(<<a>>, <<>>))))>>),
   EvalLine(<<DefineLine("X", "=", FALSE)>>),
   [RuleLine([Plain(<<b>>, <<c>>) EXCEPT !.text_dollar = TRUE])
      EXCEPT !.evals = << <<Special_("SECONDEXPANSION", <<>>)>> >>],
   StaticLine(<<ao, bo, c>>, po, [Plain(<<>>, <<pc>>) EXCEPT !.text_dollar = TRUE]),
   StaticLine(<<>>, po, NoRule),
   [IfLine("if", "Y", FALSE) EXCEPT !.evals =
      << <<RuleLine(Double(Cooked(Plain(<<a>>, <<>>))))>>, <<Special_("SECONDEXPANSION", <<>>)>> >>],
   [Assign("X", ":=", <<>>, FALSE) EXCEPT !.evals = << <<RuleLine(Plain(<<b>>, <<>>))>> >>],
   [kind |-> "vpath", pattern |-> pc, directories |-> <<"d">>]}

GoalLines ==
  {RuleLine(Plain(<<a>>, <<>>)), RuleLine(Plain(<<<<".c">>, b>>, <<>>)),
   Assign("GOAL", ":=", <<>>, FALSE), Assign("GOAL", ":=", <<"X">>, FALSE),
   Assign("GOAL", "=", <<"X">>, FALSE), Assign("GOAL", "?=", <<"b">>, FALSE),
   Assign("X", "+=", <<"c">>, FALSE),
   StaticLine(<<ao>>, po, Plain(<<>>, <<pc>>)), ExportLine({}, "exported"), IncludeLine, Line("recipe"),
   [IfLine("if", "GOAL", TRUE) EXCEPT !.evals = << <<RuleLine(Plain(<<b>>, <<>>))>> >>]}

SpecialLines ==
  {Special_(s, names) : s \in {"NOTINTERMEDIATE", "SECONDARY"}, names \in {<<>>, <<a>>}}
  \cup {Special_("INTERMEDIATE", <<a>>), Special_("SUFFIXES", <<>>), Special_("POSIX", <<>>),
        Special_("NOTPARALLEL", <<>>), Special_("NOTPARALLEL", <<a>>),
        Special_("EXPORT_ALL_VARIABLES", <<>>), Special_("PRECIOUS", <<po>>),
        Special_("SUFFIXES", << <<".o">> >>),
        RuleLine(Plain(<<po>>, <<pc>>)), RuleLine(Cooked(Plain(<<po>>, <<pc>>))),
        RuleLine(Cooked(Plain(<< <<".c", ".o">> >>, <<a>>))),
        RuleLine(Cooked(Plain(<< <<".c">> >>, <<>>)))}

Setup(lines, variables_, preread) ==
  [lines |-> lines, variables |-> variables_, preread |-> preread]

MCSetups ==
  {Setup(VariableLines, Given_(origin), <<>>) : origin \in {"environment", "file"}}
  \cup {Setup(VariableLines \cup {RuleLine(Plain(<<a>>, <<>>))},
              [n \in {"X", "GOAL"} |-> Initial("command_line")], <<>>)}
  \cup {Setup(ConditionalLines, NoVariables, <<>>), Setup(MergeLines, NoVariables, <<>>),
        Setup(OrderLines, NoVariables, <<>>), Setup(GoalLines, NoVariables, <<"pre">>),
        Setup(SpecialLines, NoVariables, <<>>)}

(* All lines of the alphabets and of the texts in them. *)
AlphabetLines == UNION {setup.lines : setup \in MCSetups}
MCLines ==
  AlphabetLines \cup UNION { UNION {ToSet(text) : text \in ToSet(line.evals)} :
                             line \in {l \in AlphabetLines : "evals" \in DOMAIN l} }

MCBuiltinRules == <<Cooked(Plain(<<po>>, <<pc>>)), Cooked(Plain(<< <<Percent>> >>, <<po>>))>>
=============================================================================
