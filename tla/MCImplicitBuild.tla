-------------------------- MODULE MCImplicitBuild --------------------------
(***************************************************************************)
(* Small databases of pattern rules for the model checker.  The pieces of  *)
(* names are .o, .c, .y, .h, one stem, and the directory of VPATH.         *)
(***************************************************************************)
EXTENDS ImplicitBuild, TLC

N == "n"
o == <<N, ".o">>
c == <<N, ".c">>
y == <<N, ".y">>
h == <<N, ".h">>
g == <<"g">>           \* has an explicit rule when it is mentioned
there == <<"v/">> \o c  \* n.c in the directory of VPATH

MCFiles == {o, c, y, h, g, there, <<N>>}
MCDirectories == {"v/"}

P(suffix) == <<Percent, suffix>>
To(targets, prereqs) ==
  [targets |-> targets, prerequisites |-> prereqs, recipe |-> TRUE, is_terminal |-> FALSE,
   is_grouped |-> FALSE]
Terminal(rule) == [rule EXCEPT !.is_terminal = TRUE]
Grouped(rule) == [rule EXCEPT !.is_grouped = TRUE]

OC == To(<<P(".o")>>, <<P(".c")>>)
OH == To(<<P(".o")>>, <<P(".h")>>)
CY == To(<<P(".c")>>, <<P(".y")>>)
CH == To(<<P(".c")>>, <<P(".h")>>)
HC == To(<<P(".h")>>, <<P(".c")>>)
HY == To(<<P(".h")>>, <<P(".y")>>)
Both == To(<<P(".c"), P(".h")>>, <<P(".y")>>)
OBoth == To(<<P(".o")>>, <<P(".c"), P(".h")>>)
OG == To(<<P(".o")>>, <<P(".c"), g>>)
OLit == To(<<P(".o")>>, <<P(".c"), h>>)
AnyC == To(<<<<Percent>>>>, <<P(".c")>>)
YG == To(<<P(".y")>>, <<g>>)
AnyG == To(<<<<Percent>>>>, <<g>>)

Silent(rule) == [rule EXCEPT !.recipe = FALSE]

Database(user, builtin) ==
  LET patterns == user \o builtin
      literal == {p \in UNION {ToSet(patterns[i].prerequisites) : i \in DOMAIN patterns} :
                    ~IsPattern(p)}
  IN  [pattern_rules |-> builtin \o user, builtin_pattern_rules_count |-> Len(builtin),
       ruled |-> {}, special_targets |-> <<>>, explicitly_mentioned |-> literal,
       explicit_dep_names |-> {}, vpath |-> <<>>]

Chains ==
  { Database(<<OC>>, <<CY>>), Database(<<OC, CY>>, <<OH, HY>>), Database(<<OC, CH, HC>>, <<>>),
    Database(<<OC>>, <<Terminal(CY), YG>>), Database(<<AnyC, CY>>, <<>>),
    Database(<<OC, CY>>, <<HY, CH>>), Database(<<OC, Silent(Terminal(CY))>>, <<>>) }
Peered ==
  { Database(<<OBoth, Both>>, <<>>), Database(<<OBoth, Grouped(Both)>>, <<>>),
    Database(<<OLit, Both>>, <<>>), Database(<<OH, Both>>, <<OC>>) }
Generated ==
  { Database(<<OG, CY>>, <<>>), Database(<<OC, CY, YG>>, <<>>),
    Database(<<OC, Terminal(AnyG)>>, <<CY>>) }

Disks(times) == {d \in [Files -> times] : \A f \in {there, g, <<N>>} : d[f] = 0}

Plain(database, asked, first) ==
  [db |-> database, goals |-> asked, first |-> first, keep_going |-> FALSE,
   may_fail |-> FALSE, lazy |-> {}, writes |-> [f \in Files |-> {f}]]
Mentioning(m, f) == [m EXCEPT !.db.explicitly_mentioned = @ \cup {f}, !.db.explicit_dep_names = {f}]

(* Any rules, any files. *)
Simple ==
  {Plain(d, <<o>>, f) : d \in Chains \cup Generated, f \in Disks(0..2)}
    \cup {Plain(d, asked, f) : d \in Peered, asked \in {<<o>>, <<c, o>>, <<h, o>>}, f \in Disks(0..2)}
(* Recipes that fail, or make only what they are asked for. *)
Troubled ==
  { [Plain(d, asked, f) EXCEPT !.keep_going = t.k, !.may_fail = t.fail, !.lazy = t.lazy] :
      d \in Chains \cup Peered, asked \in {<<<<N>>, o>>, <<h, o, h>>}, f \in Disks(0..1),
      t \in {[k |-> FALSE, fail |-> FALSE, lazy |-> {2}], [k |-> TRUE, fail |-> TRUE, lazy |-> {}]} }
(* An explicit rule that may make more than its target, is phony, or fails. *)
Ruling ==
  { [Mentioning(Plain(d, asked, f), g) EXCEPT !.db.ruled = r.ruled, !.writes[g] = r.writes,
       !.db.special_targets = "PHONY" :> r.phony, !.may_fail = r.fail] :
      d \in Generated \cup {Database(<<OC, CY>>, <<HY, CH>>), Database(<<OC>>, <<Terminal(CY), YG>>)},
      asked \in {<<o>>, <<o, g>>}, f \in Disks(0..1),
      r \in { [ruled |-> {}, writes |-> {g}, phony |-> {}, fail |-> FALSE],
              [ruled |-> {g}, writes |-> {g}, phony |-> {}, fail |-> TRUE],
              [ruled |-> {g}, writes |-> {g, y}, phony |-> {}, fail |-> FALSE],
              [ruled |-> {g}, writes |-> {g}, phony |-> {g}, fail |-> FALSE],
              [ruled |-> {}, writes |-> {g}, phony |-> {g}, fail |-> FALSE] } }
(* Special targets, a name that is mentioned, and VPATH. *)
Marked ==
  { LET m == Plain(d, asked, f)
    IN  [IF mention THEN Mentioning(m, c) ELSE m EXCEPT !.db.special_targets = special :> {names}] :
      d \in {Database(<<OC>>, <<CY>>), Database(<<OBoth, Both>>, <<>>)}, asked \in {<<o>>, <<h, o>>},
      mention \in BOOLEAN, f \in Disks(0..1), names \in {c, P(".c")},
      special \in {"SECONDARY", "PRECIOUS", "NOTINTERMEDIATE", "INTERMEDIATE"} }
Elsewhere ==
  { [Plain(d, <<o>>, [f EXCEPT ![there] = t]) EXCEPT !.db.vpath = <<"v/">>] :
      d \in {Database(<<OC>>, <<CY>>), Database(<<OBoth, Both>>, <<>>)}, f \in Disks(0..2), t \in 1..2 }

MCGiven == Simple \cup Troubled \cup Ruling \cup Marked \cup Elsewhere
=============================================================================
